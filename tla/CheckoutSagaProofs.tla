------------------------- MODULE CheckoutSagaProofs -------------------------
(***************************************************************************)
(* The saga keeps the store's goods and the customer's money in step, for  *)
(* any number of lines, faults and operators: an inductive invariant that  *)
(* says what each published message is evidence of, the exchange it        *)
(* implements, what everything delivered amounts to, and what a customer   *)
(* who polls the tracking page is shown meanwhile.                         *)
(***************************************************************************)
EXTENDS Tracking, TLAPS

Gone == {"FAILED", "EXPIRED", "CANCELLED"}
Paid == {"CONFIRMED", "REFUNDED"}

(* What a published message proves about the contexts' states.             *)
Truthful(m) ==
  /\ m.name \in {"PaymentFailed", "PaymentExpired"} => payment \in Gone
  /\ m.name \in {"PaymentConfirmed", "RequestStoreApproval"} => payment \in Paid
  /\ m.name \in {"OrderApproved", "ConfirmInventory"} => approval = "APPROVED"
  /\ m.name \in {"OrderRejected", "RefundPayment"} => approval = "REJECTED"
  /\ m.name \in {"ReleaseInventory", "CancelOrder"} =>
       payment \in Gone \/ approval = "REJECTED"
  /\ m.name \in InventoryCommands => m.line \in Lines
  /\ m.name = "RequestStoreApproval" => m.line = None

(* Nothing is there before the order, and everything after it.             *)
Placed ==
  \/ /\ order = "NONE" /\ payment = "NONE" /\ approval = "NONE"
     /\ messages = {} /\ \A l \in Lines : lines[l] = "NONE"
  \/ /\ order # "NONE" /\ payment # "NONE"
     /\ \A l \in Lines : lines[l] # "NONE"

(* The store decides once, on money that was there.                        *)
Decided ==
  /\ approval # "NONE" =>
       /\ <<"store", <<"RequestStoreApproval", None>>>> \in processed
       /\ payment \in Paid
  /\ payment = "REFUNDED" => approval = "REJECTED"

Ledger ==
  \A l \in Lines :
    /\ lines[l] = "CONFIRMED" => approval = "APPROVED"
    /\ lines[l] = "CANCELLED" => payment \in Gone \/ approval = "REJECTED"

IInv ==
  /\ TypeOK
  /\ \A m \in messages : Truthful(m)
  /\ Placed
  /\ Decided
  /\ Ledger

-----------------------------------------------------------------------------
(* Sending adds what is sent, or less.                                     *)
LEMMA SendAdds ==
  ASSUME NEW S \in SUBSET Message, messages \subseteq Message, Send(S)
  PROVE  /\ messages' \subseteq Message
         /\ \A m \in messages' : m \in messages \/ m \in S
  BY DEF Send

LEMMA Names ==
  /\ \A n \in CheckoutEventName \cup CheckoutCommandName, l \in Lines \cup {None},
        f \in SUBSET Fields : Msg(n, l, f) \in Message
  /\ \A m \in Message : Id(m) \in Ids
  BY DEF Msg, Message, Id, Ids

(* The process manager only sends what the event it reads allows.          *)
LEMMA DecisionsAllowed ==
  ASSUME NEW m \in Message, Truthful(m), m.name \in CheckoutEventName
  PROVE  /\ Decisions(m) \in SUBSET Message
         /\ \A d \in Decisions(m) : Truthful(d)
<1> DEFINE C == CommandsByEvent(m.name)
<1>1. C \subseteq CheckoutCommandName
  BY DEF CommandsByEvent, CheckoutCommandName, InventoryCommands
<1>2. SUFFICES ASSUME NEW n \in C, NEW l \in Targets(n)
               PROVE  Msg(n, l, m.carries) \in Message /\ Truthful(Msg(n, l, m.carries))
  BY DEF Decisions
<1>3. l \in Lines \cup {None} /\ m.carries \in SUBSET Fields
  BY DEF Targets, Message
<1>4. Msg(n, l, m.carries) \in Message
  BY <1>1, <1>3, Names
<1>5. /\ n \in InventoryCommands => l \in Lines
      /\ n \notin InventoryCommands => l = None
  BY DEF Targets
<1>6. Truthful(Msg(n, l, m.carries))
  BY <1>5 DEF CommandsByEvent, Truthful, Msg, InventoryCommands
<1> QED BY <1>4, <1>6

-----------------------------------------------------------------------------
(* What the consumers' steps have in common.                               *)

LEMMA PastTypes ==
  ASSUME TypeOK, NEW c \in Consumers, NEW m \in Message
  PROVE  /\ <<c, Id(m)>> \in Consumers \X Ids
         /\ Past(c, m) => handled' \subseteq Consumers \X Ids
         /\ Done(c, m) => /\ handled' \subseteq Consumers \X Ids
                          /\ processed' \subseteq Consumers \X Ids
                          /\ processed \subseteq processed'
                          /\ redeliveries' = redeliveries /\ losses' = losses
<1>1. Id(m) \in Ids
  BY Names
<1> QED BY <1>1 DEF TypeOK, Past, Done

(* A skipped message changes nothing that the invariant is about.          *)
LEMMA SkipKeeps ==
  ASSUME IInv, NEW c \in Consumers, NEW m \in messages, Skip(c, m),
         losses' \in 0..MaxLosses
  PROVE  IInv'
<1>1. m \in Message
  BY DEF IInv, TypeOK
<1>2. TypeOK'
  BY <1>1, PastTypes DEF IInv, TypeOK, Skip
<1>3. \A x \in messages' : Truthful(x)'
  BY DEF IInv, Skip, Truthful
<1>4. Placed' /\ Decided' /\ Ledger'
  BY DEF IInv, Skip, Placed, Decided, Ledger
<1> QED BY <1>2, <1>3, <1>4 DEF IInv

LEMMA RedeliverKeeps ==
  ASSUME IInv, CheckoutConstants, NEW c \in Consumers, NEW m \in messages,
         Redeliver(c, m)
  PROVE  IInv'
<1>1. TypeOK'
  BY DEF IInv, TypeOK, Redeliver, CheckoutConstants
<1>2. \A x \in messages' : Truthful(x)'
  BY DEF IInv, Redeliver, Truthful
<1>3. Placed' /\ Decided' /\ Ledger'
  BY DEF IInv, Redeliver, Placed, Decided, Ledger
<1> QED BY <1>1, <1>2, <1>3 DEF IInv

(* A step that leaves the money and the verdict alone and sends nothing    *)
(* untrue keeps every message true.                                        *)
LEMMA TruthKept ==
  ASSUME IInv, NEW S \in SUBSET Message, Send(S),
         \A m \in S : Truthful(m)',
         \A m \in messages : Truthful(m)'
  PROVE  messages' \subseteq Message /\ \A m \in messages' : Truthful(m)'
<1>1. messages \subseteq Message
  BY DEF IInv, TypeOK
<1> QED BY <1>1, SendAdds

-----------------------------------------------------------------------------
(* The API's and the payment's transactions.                               *)

LEMMA CreateKeeps == IInv /\ createOrder => IInv'
<1> SUFFICES ASSUME IInv, createOrder PROVE IInv'
  OBVIOUS
<1> DEFINE S == {Msg("OrderCreated", None, {})}
                  \cup {Msg("InventoryReserved", l, {}) : l \in Lines}
<1>1. S \in SUBSET Message
  BY Names DEF CheckoutEventName, CheckoutCommandName, Fields
<1>2. messages = {} /\ approval = "NONE" /\ payment = "NONE"
  BY DEF IInv, Placed, createOrder
<1>3. Send(S)
  BY DEF createOrder
<1>4. \A m \in S : Truthful(m)'
  BY DEF Truthful, Msg, InventoryCommands
<1>5. messages' \subseteq Message /\ \A m \in messages' : Truthful(m)'
  BY <1>1, <1>2, <1>3, <1>4, TruthKept
<1>6. processed' \subseteq Consumers \X Ids
  BY DEF createOrder, Consumers, Ids, CheckoutCommandName, InventoryCommands
<1>7. TypeOK'
  BY <1>5, <1>6 DEF IInv, TypeOK, createOrder, OrderStatus, ReservationStatus,
     PaymentStatus
<1>8. Placed' /\ Ledger' /\ Decided'
  BY <1>2 DEF createOrder, Placed, Ledger, Decided
<1> QED BY <1>5, <1>7, <1>8 DEF IInv

(* The payment moves while it is open; its events tell where to.           *)
LEMMA PaymentKeeps ==
  ASSUME IInv, NEW from \in {"AWAITING_SIGNATURE", "SUBMITTED"},
         NEW to \in PaymentStatus \ {"NONE", "REFUNDED"},
         NEW S \in SUBSET Message,
         \A m \in S : \/ m.name \in {"PaymentFailed", "PaymentExpired"} /\ to \in Gone
                      \/ m.name = "PaymentConfirmed" /\ to = "CONFIRMED",
         PaymentMoves(from, to, S)
  PROVE  IInv'
<1>1. payment = from /\ payment' = to /\ Send(S)
      /\ UNCHANGED <<order, lines, approval, handled, processed, redeliveries, losses>>
  BY DEF PaymentMoves
<1>2. payment \notin Gone \cup Paid
  BY <1>1 DEF Gone, Paid
<1>3. approval = "NONE"
  BY <1>2 DEF IInv, Decided
<1>4. \A m \in messages : Truthful(m)'
  BY <1>1, <1>2, <1>3 DEF IInv, Truthful
<1>5. \A m \in S : Truthful(m)'
  BY <1>1 DEF Truthful, Paid, Gone, InventoryCommands
<1>6. messages' \subseteq Message /\ \A m \in messages' : Truthful(m)'
  BY <1>1, <1>4, <1>5, TruthKept
<1>7. TypeOK'
  BY <1>1, <1>6 DEF IInv, TypeOK
<1>8. Placed'
  BY <1>1 DEF IInv, Placed
<1>9. Decided' /\ Ledger'
  BY <1>1, <1>2, <1>3 DEF IInv, Decided, Ledger
<1> QED BY <1>6, <1>7, <1>8, <1>9 DEF IInv

LEMMA OperatorKeeps == IInv /\ operator_cancel_order => IInv'
<1> SUFFICES ASSUME IInv, operator_cancel_order PROVE IInv'
  OBVIOUS
<1> DEFINE S == {Msg("OrderCancelled", None, {})}
<1>1. S \in SUBSET Message
  BY Names DEF CheckoutEventName, Fields
<1>2. /\ Send(S) /\ order' = "CANCELLED" /\ order # "NONE"
      /\ UNCHANGED <<lines, payment, approval, handled, processed, redeliveries, losses>>
  BY DEF operator_cancel_order
<1>3. \A m \in S : Truthful(m)'
  BY DEF Truthful, Msg, InventoryCommands
<1>4. \A m \in messages : Truthful(m)'
  BY <1>2 DEF IInv, Truthful
<1>5. messages' \subseteq Message /\ \A m \in messages' : Truthful(m)'
  BY <1>1, <1>2, <1>3, <1>4, TruthKept
<1>6. TypeOK'
  BY <1>2, <1>5 DEF IInv, TypeOK, OrderStatus
<1>7. Placed' /\ Decided' /\ Ledger'
  BY <1>2 DEF IInv, Placed, Decided, Ledger
<1> QED BY <1>5, <1>6, <1>7 DEF IInv

-----------------------------------------------------------------------------
(* The handlers.                                                           *)

LEMMA ProcessManagerKeeps ==
  ASSUME IInv, NEW m \in messages, CheckoutProcessManager(m)
  PROVE  IInv'
<1>1. /\ m \in Message /\ Truthful(m) /\ m.name \in CheckoutEventName
      /\ Send(Decisions(m)) /\ Done("checkout", m)
      /\ UNCHANGED <<order, lines, payment, approval>>
  BY DEF IInv, TypeOK, CheckoutProcessManager, Fresh, Delivered, Reads, Consumers
<1>2. /\ Decisions(m) \in SUBSET Message
      /\ \A d \in Decisions(m) : Truthful(d)
  BY <1>1, DecisionsAllowed
<1>3. /\ \A d \in Decisions(m) : Truthful(d)'
      /\ \A x \in messages : Truthful(x)'
  BY <1>1, <1>2 DEF IInv, Truthful
<1>4. messages' \subseteq Message /\ \A x \in messages' : Truthful(x)'
  BY <1>1, <1>2, <1>3, TruthKept
<1>5. TypeOK'
  BY <1>1, <1>4, PastTypes DEF IInv, TypeOK, Consumers
<1>6. processed \subseteq processed'
  BY <1>1 DEF Done
<1>7. order # "NONE"
  BY DEF IInv, Placed
<1>8. Placed' /\ Decided' /\ Ledger'
  BY <1>1, <1>6, <1>7 DEF IInv, Placed, Decided, Ledger
<1> QED BY <1>4, <1>5, <1>8 DEF IInv

(* Moving one reservation of a line to a state the messages allow.         *)
LEMMA ReservationKeeps ==
  ASSUME IInv, NEW m \in messages, NEW s \in {"CONFIRMED", "CANCELLED"},
         NEW S \in SUBSET Message,
         \A x \in S : x.name = "InventoryConfirmed",
         Send(S), Reservation(m, s), m.line \in Lines,
         s = "CONFIRMED" => approval = "APPROVED",
         s = "CANCELLED" => payment \in Gone \/ approval = "REJECTED"
  PROVE  IInv'
<1>1. /\ Done("inventory", m) /\ UNCHANGED <<order, payment, approval>>
      /\ lines' = [lines EXCEPT ![m.line] = s]
  BY DEF Reservation
<1>2. m \in Message
  BY DEF IInv, TypeOK
<1>3. \A x \in messages : Truthful(x)'
  BY <1>1 DEF IInv, Truthful
<1>4. \A x \in S : Truthful(x)'
  BY DEF Truthful, InventoryCommands
<1>5. messages' \subseteq Message /\ \A x \in messages' : Truthful(x)'
  BY <1>3, <1>4, TruthKept
<1>6. TypeOK'
  BY <1>1, <1>2, <1>5, PastTypes DEF IInv, TypeOK, Consumers, ReservationStatus
<1>7. processed \subseteq processed'
  BY <1>1 DEF Done
<1>8. order # "NONE" /\ payment # "NONE" /\ \A l \in Lines : lines[l] # "NONE"
  BY DEF IInv, Placed
<1>9. Placed' /\ Decided' /\ Ledger'
  BY <1>1, <1>7, <1>8 DEF IInv, TypeOK, Placed, Decided, Ledger
<1> QED BY <1>5, <1>6, <1>9 DEF IInv

LEMMA InventoryKeeps ==
  ASSUME IInv, NEW m \in messages, release_inventory(m) \/ confirm_inventory(m)
  PROVE  IInv'
<1>1. m \in Message /\ Truthful(m)
  BY DEF IInv, TypeOK
<1>2. CASE release_inventory(m)
  <2>1. /\ m.name = "ReleaseInventory" /\ Reservation(m, "CANCELLED")
        /\ UNCHANGED messages
    BY <1>2 DEF release_inventory
  <2>2. m.line \in Lines /\ (payment \in Gone \/ approval = "REJECTED")
    BY <1>1, <2>1 DEF Truthful, InventoryCommands
  <2>3. Send({})
    BY <2>1 DEF Send
  <2> QED BY <2>1, <2>2, <2>3, ReservationKeeps
<1>3. CASE confirm_inventory(m)
  <2> DEFINE S == {Msg("InventoryConfirmed", m.line, {})}
  <2>1. m.name = "ConfirmInventory" /\ Reservation(m, "CONFIRMED") /\ Send(S)
    BY <1>3 DEF confirm_inventory
  <2>2. m.line \in Lines /\ approval = "APPROVED"
    BY <1>1, <2>1 DEF Truthful, InventoryCommands
  <2>3. S \in SUBSET Message
    BY <2>2, Names DEF CheckoutEventName, Fields
  <2>4. \A x \in S : x.name = "InventoryConfirmed"
    BY DEF Msg
  <2> QED BY <2>1, <2>2, <2>3, <2>4, ReservationKeeps
<1> QED BY <1>2, <1>3

LEMMA RefundKeeps ==
  ASSUME IInv, NEW m \in messages, refund_payment(m)
  PROVE  IInv'
<1>1. /\ m \in Message /\ Truthful(m) /\ m.name = "RefundPayment"
      /\ payment = "CONFIRMED" /\ payment' = "REFUNDED" /\ Done("payment", m)
      /\ UNCHANGED <<order, lines, approval, messages>>
  BY DEF IInv, TypeOK, refund_payment
<1>2. approval = "REJECTED"
  BY <1>1 DEF Truthful
<1>3. \A x \in messages' : Truthful(x)'
  BY <1>1, <1>2 DEF IInv, Truthful, Gone, Paid
<1>4. TypeOK'
  BY <1>1, PastTypes DEF IInv, TypeOK, Consumers, PaymentStatus
<1>5. processed \subseteq processed'
  BY <1>1 DEF Done
<1>6. Placed' /\ Decided' /\ Ledger'
  BY <1>1, <1>2, <1>5 DEF IInv, Placed, Decided, Ledger, Paid
<1> QED BY <1>3, <1>4, <1>6 DEF IInv

(* The store has not decided while its command is fresh.                   *)
LEMMA Undecided ==
  ASSUME IInv, NEW m \in messages, request_store_approval(m)
  PROVE  approval = "NONE" /\ payment = "CONFIRMED"
<1>1. /\ m \in Message /\ Truthful(m) /\ m.name = "RequestStoreApproval"
      /\ <<"store", Id(m)>> \notin processed
  BY DEF IInv, TypeOK, request_store_approval, Fresh, Delivered, Reads, Consumers
<1>2. Id(m) = <<"RequestStoreApproval", None>>
  BY <1>1 DEF Id, Truthful
<1>3. approval = "NONE"
  BY <1>1, <1>2 DEF IInv, Decided
<1>4. payment \in Paid
  BY <1>1 DEF Truthful
<1> QED BY <1>3, <1>4 DEF IInv, Decided, Paid

LEMMA StoreKeeps ==
  ASSUME IInv, CheckoutConstants, NEW m \in messages, request_store_approval(m)
  PROVE  IInv'
<1>1. /\ m \in Message /\ Truthful(m) /\ Done("store", m)
      /\ m.name = "RequestStoreApproval"
      /\ UNCHANGED <<order, lines, payment>>
  BY DEF IInv, TypeOK, request_store_approval, Fresh, Delivered, Reads, Consumers
<1>2. approval = "NONE" /\ payment = "CONFIRMED"
  BY Undecided
<1>3. PICK S \in SUBSET Message :
        /\ Send(S)
        /\ \A x \in S : \/ x.name = "OrderApproved" /\ approval' = "APPROVED"
                        \/ x.name = "OrderRejected" /\ approval' = "REJECTED"
        /\ approval' \in {"APPROVED", "REJECTED"}
  <2>1. CASE approval' = "APPROVED" /\ Send({Msg("OrderApproved", None, {})})
    <3> DEFINE A == {Msg("OrderApproved", None, {})}
    <3>1. A \in SUBSET Message
      BY Names DEF CheckoutEventName
    <3>2. \A x \in A : x.name = "OrderApproved"
      BY DEF Msg
    <3> HIDE DEF A
    <3> QED BY <2>1, <3>1, <3>2 DEF A
  <2>2. ASSUME NEW f \in RejectionPayloads, approval' = "REJECTED",
               Send({Msg("OrderRejected", None, f)})
        PROVE  \E S \in SUBSET Message :
                 Send(S) /\ \A x \in S : x.name = "OrderRejected"
    <3> DEFINE R == {Msg("OrderRejected", None, f)}
    <3>1. R \in SUBSET Message
      BY Names DEF CheckoutEventName, CheckoutConstants
    <3>2. \A x \in R : x.name = "OrderRejected"
      BY DEF Msg
    <3> HIDE DEF R
    <3> QED BY <2>2, <3>1, <3>2 DEF R
  <2> QED BY <2>1, <2>2 DEF request_store_approval
<1>4. \A x \in messages : Truthful(x)'
  BY <1>1, <1>2 DEF IInv, Truthful, Gone
<1>5. \A x \in S : Truthful(x)'
  BY <1>3 DEF Truthful, InventoryCommands
<1>6. messages' \subseteq Message /\ \A x \in messages' : Truthful(x)'
  BY <1>3, <1>4, <1>5, TruthKept
<1>7. TypeOK'
  BY <1>1, <1>3, <1>6, PastTypes DEF IInv, TypeOK, Consumers, ApprovalStatus
<1>8. <<"store", <<"RequestStoreApproval", None>>>> \in processed'
  BY <1>1 DEF Done, Id, Truthful
<1>9. order # "NONE"
  BY DEF IInv, Placed
<1>10. Placed' /\ Decided' /\ Ledger'
  BY <1>1, <1>2, <1>8, <1>9 DEF IInv, Placed, Decided, Ledger, Paid, Gone
<1> QED BY <1>6, <1>7, <1>10 DEF IInv

LEMMA CancelKeeps ==
  ASSUME IInv, NEW m \in messages, cancel_order(m)
  PROVE  IInv'
<1> DEFINE S == {x \in {Msg("OrderCancelled", None, {})} : order # "CANCELLED"}
<1>1. /\ m \in Message /\ Done("order", m) /\ Send(S) /\ order' = "CANCELLED"
      /\ UNCHANGED <<lines, payment, approval>>
  BY DEF IInv, TypeOK, cancel_order
<1>2. S \in SUBSET Message
  BY Names DEF CheckoutEventName, Fields
<1>3. \A x \in S : Truthful(x)'
  BY DEF Truthful, Msg, InventoryCommands
<1>4. \A x \in messages : Truthful(x)'
  BY <1>1 DEF IInv, Truthful
<1>5. messages' \subseteq Message /\ \A x \in messages' : Truthful(x)'
  BY <1>1, <1>2, <1>3, <1>4, TruthKept
<1>6. TypeOK'
  BY <1>1, <1>5, PastTypes DEF IInv, TypeOK, Consumers, OrderStatus
<1>7. processed \subseteq processed' /\ order # "NONE"
  BY <1>1 DEF Done, IInv, Placed
<1>8. Placed' /\ Decided' /\ Ledger'
  BY <1>1, <1>7 DEF IInv, Placed, Decided, Ledger
<1> QED BY <1>5, <1>6, <1>8 DEF IInv

LEMMA ProjectKeeps ==
  ASSUME IInv, NEW m \in messages, project(m)
  PROVE  IInv'
<1>1. /\ m \in Message /\ Done("status", m) /\ order' = Projected(m.name)
      /\ UNCHANGED <<lines, payment, approval, messages>>
  BY DEF IInv, TypeOK, project
<1>2. order # "NONE"
  BY DEF IInv, Placed
<1>3. order' \in OrderStatus \ {"NONE"}
  BY <1>1, <1>2 DEF IInv, TypeOK, Projected, OrderStatus
<1>4. \A x \in messages' : Truthful(x)'
  BY <1>1 DEF IInv, Truthful
<1>5. TypeOK'
  BY <1>1, <1>3, PastTypes DEF IInv, TypeOK, Consumers
<1>6. processed \subseteq processed'
  BY <1>1 DEF Done
<1>7. Placed' /\ Decided' /\ Ledger'
  BY <1>1, <1>2, <1>3, <1>6 DEF IInv, Placed, Decided, Ledger
<1> QED BY <1>4, <1>5, <1>7 DEF IInv

-----------------------------------------------------------------------------
(* The invariant holds of every behaviour.                                 *)

LEMMA InitHolds == CheckoutConstants /\ Init => IInv
  BY DEF CheckoutConstants, Init, IInv, TypeOK, Placed, Decided, Ledger, OrderStatus,
     ReservationStatus, PaymentStatus, ApprovalStatus

LEMMA StepKeeps == CheckoutConstants /\ IInv /\ [Next]_vars => IInv'
<1> SUFFICES ASSUME CheckoutConstants, IInv, [Next]_vars PROVE IInv'
  OBVIOUS
<1> USE Names DEF CheckoutEventName, Fields, PaymentStatus, Gone
<1>1. CASE createOrder
  BY <1>1, CreateKeeps
<1>2. CASE submit_transaction_hash
  BY <1>2, PaymentKeeps DEF submit_transaction_hash
<1>3. CASE cancel_payment
  <2>1. {Msg("PaymentExpired", None, Fields)} \in SUBSET Message
    OBVIOUS
  <2> QED BY <1>3, <2>1, PaymentKeeps DEF cancel_payment, Msg
<1>4. CASE expire_awaiting_signature
  <2>1. {Msg("PaymentExpired", None, Fields)} \in SUBSET Message
    OBVIOUS
  <2> QED BY <1>4, <2>1, PaymentKeeps DEF expire_awaiting_signature, Msg
<1>5. CASE confirm_payment_receipt
  <2>1. /\ {Msg("PaymentConfirmed", None, {"paymentId"})} \in SUBSET Message
        /\ {Msg("PaymentFailed", None, Fields)} \in SUBSET Message
    OBVIOUS
  <2> QED BY <1>5, <2>1, PaymentKeeps DEF confirm_payment_receipt, Msg
<1>6. CASE operator_cancel_order
  BY <1>6, OperatorKeeps
<1>7. ASSUME NEW c \in Consumers, Consume(c) PROVE IInv'
  <2>1. PICK m \in messages : Handler(c, m) \/ Duplicate(c, m) \/ Reject(c, m)
    BY <1>7 DEF Consume
  <2>2. CASE Handler(c, m)
    BY <2>2, ProcessManagerKeeps, InventoryKeeps, RefundKeeps, StoreKeeps,
       CancelKeeps, ProjectKeeps DEF Handler
  <2>3. CASE Duplicate(c, m) \/ Reject(c, m)
    BY <2>3, SkipKeeps DEF Duplicate, Reject, IInv, TypeOK
  <2> QED BY <2>1, <2>2, <2>3
<1>8. ASSUME NEW c \in Consumers, NEW m \in messages, Lose(c, m) \/ Redeliver(c, m)
      PROVE  IInv'
  <2>1. CASE Lose(c, m)
    <3>1. Skip(c, m) /\ losses' \in 0..MaxLosses
      BY <2>1 DEF Lose, IInv, TypeOK, CheckoutConstants
    <3> QED BY <3>1, SkipKeeps
  <2>2. CASE Redeliver(c, m)
    BY <2>2, RedeliverKeeps
  <2> QED BY <1>8, <2>1, <2>2
<1>9. CASE UNCHANGED vars
  BY <1>9 DEF vars, IInv, TypeOK, Truthful, Placed, Decided, Ledger
<1> QED BY <1>1, <1>2, <1>3, <1>4, <1>5, <1>6, <1>7, <1>8, <1>9 DEF Next

(* The invariant of the saga, for any number of lines and faults.          *)
THEOREM Invariance == Spec => []IInv
<1>1. Init => IInv
  BY CheckoutConstants, InitHolds
<1>2. IInv /\ [Next]_vars => IInv'
  BY CheckoutConstants, StepKeeps
<1> QED BY <1>1, <1>2, PTL DEF Spec

(* Every reachable state is one the tables and their enumerations can      *)
(* hold.                                                                   *)
THEOREM TypeCorrect == Spec => []TypeOK
<1>1. IInv => TypeOK
  BY DEF IInv
<1> QED BY <1>1, Invariance, PTL

(* Stock is sold only for money the store agreed to keep, and never part   *)
(* sold, part taken back: release_inventory and confirm_inventory.         *)
THEOREM FairToBoth == Spec => []GoodsOnlyForMoney
<1>1. IInv => GoodsOnlyForMoney
  BY DEF IInv, TypeOK, Ledger, Decided, GoodsOnlyForMoney, Paid, Gone
<1> QED BY <1>1, Invariance, PTL

(* The process manager compensates only what failed: no stock is taken     *)
(* back, no order cancelled and no money returned for an approved order.   *)
THEOREM CompensatesFailures == Spec => []CompensationIsDeserved
<1>1. IInv => CompensationIsDeserved
  BY DEF IInv, Truthful, CompensationIsDeserved, Gone
<1> QED BY <1>1, Invariance, PTL

-----------------------------------------------------------------------------
(* The saga implements the exchange.                                       *)

LEMMA Mapped ==
  ASSUME UNCHANGED <<lines, payment, approval>>
  PROVE  UNCHANGED Promise!vars
  BY DEF Promise!vars, money, verdict, goods, goodsOf

(* An open payment: every line is held.                                    *)
LEMMA OpenMeansHeld ==
  ASSUME IInv, payment \in {"AWAITING_SIGNATURE", "SUBMITTED"}
  PROVE  \A l \in Lines : lines[l] = "PENDING"
<1>1. approval = "NONE" /\ payment \notin Gone
  BY DEF IInv, Decided, Gone, Paid
<1>2. \A l \in Lines : lines[l] \in ReservationStatus \ {"NONE"}
  BY DEF IInv, Placed, TypeOK
<1> QED BY <1>1, <1>2 DEF IInv, Ledger, ReservationStatus

LEMMA CreateHolds ==
  ASSUME IInv, createOrder PROVE Promise!Hold
<1>1. payment = "NONE" /\ \A l \in Lines : lines[l] = "NONE"
  BY DEF IInv, Placed, createOrder
<1>2. /\ payment' = "AWAITING_SIGNATURE" /\ approval' = approval
      /\ lines' = [l \in Lines |-> "PENDING"]
  BY DEF createOrder
<1>3. goods = [l \in Lines |-> "free"] /\ goods' = [l \in Lines |-> "held"]
  BY <1>1, <1>2 DEF goods, goodsOf
<1>4. UNCHANGED <<money, verdict>>
  BY <1>1, <1>2 DEF money, verdict
<1> QED BY <1>3, <1>4 DEF Promise!Hold

LEMMA PaymentPays ==
  ASSUME IInv, NEW from \in {"AWAITING_SIGNATURE", "SUBMITTED"},
         NEW to \in {"SUBMITTED", "CONFIRMED", "FAILED", "EXPIRED", "CANCELLED"},
         NEW S, PaymentMoves(from, to, S)
  PROVE  Promise!Pay \/ Promise!GiveUp \/ UNCHANGED Promise!vars
<1>1. /\ payment = from /\ payment' = to /\ UNCHANGED <<lines, approval>>
      /\ \A l \in Lines : lines[l] = "PENDING"
  BY OpenMeansHeld DEF PaymentMoves
<1>2. /\ \A l \in Lines : goods[l] = "held"
      /\ UNCHANGED <<verdict, goods>> /\ money = "unpaid"
  BY <1>1 DEF goods, goodsOf, verdict, money
<1>3. money' \in {"unpaid", "taken", "never"}
  BY <1>1 DEF money
<1> QED BY <1>2, <1>3 DEF Promise!Pay, Promise!GiveUp, Promise!vars

LEMMA LineMoves ==
  ASSUME IInv, NEW m \in messages, NEW s \in {"CONFIRMED", "CANCELLED"},
         Reservation(m, s), m.line \in Lines, lines[m.line] \in {"PENDING", s},
         s = "CONFIRMED" => approval = "APPROVED",
         s = "CANCELLED" => payment \in Gone \/ approval = "REJECTED"
  PROVE  \/ \E l \in Lines : Promise!Give(l) \/ Promise!Free(l)
         \/ UNCHANGED Promise!vars
<1>1. /\ UNCHANGED <<payment, approval>> /\ lines' = [lines EXCEPT ![m.line] = s]
      /\ lines \in [Lines -> ReservationStatus]
  BY DEF Reservation, IInv, TypeOK
<1>2. UNCHANGED <<money, verdict>>
  BY <1>1 DEF money, verdict
<1>3. CASE lines[m.line] = s
  <2>1. lines' = lines
    BY <1>1, <1>3
  <2> QED BY <1>1, <2>1, Mapped DEF Reservation
<1>4. CASE lines[m.line] = "PENDING" /\ s = "CONFIRMED"
  <2>1. goods[m.line] = "held" /\ goods' = [goods EXCEPT ![m.line] = "given"]
    BY <1>1, <1>4 DEF goods, goodsOf
  <2>2. money = "taken" /\ verdict = "agreed"
    BY <1>4 DEF IInv, Decided, Paid, money, verdict
  <2> QED BY <1>2, <2>1, <2>2 DEF Promise!Give
<1>5. CASE lines[m.line] = "PENDING" /\ s = "CANCELLED"
  <2>1. goods[m.line] = "held" /\ goods' = [goods EXCEPT ![m.line] = "freed"]
    BY <1>1, <1>5 DEF goods, goodsOf
  <2>2. money = "never" \/ verdict = "refused"
    BY <1>5 DEF Gone, money, verdict
  <2> QED BY <1>2, <2>1, <2>2 DEF Promise!Free
<1> QED BY <1>3, <1>4, <1>5

LEMMA HandlerImplements ==
  ASSUME IInv, NEW c \in Consumers, NEW m \in messages, Handler(c, m)
  PROVE  Promise!Next \/ UNCHANGED Promise!vars
<1>1. m \in Message /\ Truthful(m)
  BY DEF IInv, TypeOK
<1>2. CASE CheckoutProcessManager(m) \/ cancel_order(m) \/ project(m)
  BY <1>2, Mapped DEF CheckoutProcessManager, cancel_order, project
<1>3. CASE release_inventory(m)
  <2>1. /\ Reservation(m, "CANCELLED") /\ m.line \in Lines
        /\ lines[m.line] \in {"PENDING", "CANCELLED"}
        /\ payment \in Gone \/ approval = "REJECTED"
    BY <1>1, <1>3 DEF release_inventory, Releasable, Truthful, InventoryCommands
  <2> QED BY <2>1, LineMoves DEF Promise!Next
<1>4. CASE confirm_inventory(m)
  <2>1. /\ Reservation(m, "CONFIRMED") /\ m.line \in Lines
        /\ lines[m.line] \in {"PENDING", "CONFIRMED"}
        /\ approval = "APPROVED"
    BY <1>1, <1>4 DEF confirm_inventory, Confirmable, Truthful, InventoryCommands
  <2> QED BY <2>1, LineMoves DEF Promise!Next
<1>5. CASE refund_payment(m)
  <2>1. /\ payment = "CONFIRMED" /\ payment' = "REFUNDED" /\ approval = "REJECTED"
        /\ UNCHANGED <<lines, approval>>
    BY <1>1, <1>5 DEF refund_payment, Truthful
  <2>2. Promise!Return
    BY <2>1 DEF Promise!Return, money, verdict, goods, goodsOf
  <2> QED BY <2>2 DEF Promise!Next
<1>6. CASE request_store_approval(m)
  <2>1. /\ approval = "NONE" /\ payment = "CONFIRMED"
        /\ approval' \in {"APPROVED", "REJECTED"}
        /\ UNCHANGED <<lines, payment>>
    BY <1>6, Undecided DEF request_store_approval
  <2>2. Promise!Decide
    BY <2>1 DEF Promise!Decide, money, verdict, goods, goodsOf
  <2> QED BY <2>2 DEF Promise!Next
<1> QED BY <1>2, <1>3, <1>4, <1>5, <1>6 DEF Handler

LEMMA StepImplements ==
  IInv /\ [Next]_vars => [Promise!Next]_(Promise!vars)
<1> SUFFICES ASSUME IInv, [Next]_vars
             PROVE  Promise!Next \/ UNCHANGED Promise!vars
  OBVIOUS
<1>1. CASE createOrder
  BY <1>1, CreateHolds DEF Promise!Next
<1>2. CASE \/ submit_transaction_hash \/ cancel_payment
          \/ expire_awaiting_signature \/ confirm_payment_receipt
  BY <1>2, PaymentPays DEF submit_transaction_hash, cancel_payment,
     expire_awaiting_signature, confirm_payment_receipt, Promise!Next
<1>3. CASE operator_cancel_order \/ UNCHANGED vars
  BY <1>3, Mapped DEF operator_cancel_order, vars
<1>4. ASSUME NEW c \in Consumers, Consume(c)
      PROVE  Promise!Next \/ UNCHANGED Promise!vars
  BY <1>4, HandlerImplements, Mapped DEF Consume, Duplicate, Reject, Skip
<1>5. ASSUME NEW c \in Consumers, NEW m \in messages, Lose(c, m) \/ Redeliver(c, m)
      PROVE  UNCHANGED Promise!vars
  BY <1>5, Mapped DEF Lose, Redeliver, Skip
<1> QED BY <1>1, <1>2, <1>3, <1>4, <1>5 DEF Next

(* Every step of the contexts, the process manager and the projector is a  *)
(* step of the exchange between customer and store, or leaves it alone.    *)
THEOREM Implements == Spec => ImplementsExchange
<1>1. Init => Promise!Init
  BY DEF Init, Promise!Init, money, verdict, goods, goodsOf
<1>2. IInv /\ [Next]_vars => [Promise!Next]_(Promise!vars)
  BY StepImplements
<1> QED BY <1>1, <1>2, Invariance, PTL DEF Spec, ImplementsExchange, Promise!Spec

(* What the exchange itself comes to, whatever carries it out.             *)
ExchangeInv ==
  /\ goods \in [Lines -> {"free", "held", "given", "freed"}]
  /\ \A l \in Lines :
       /\ goods[l] = "given" => money = "taken" /\ verdict = "agreed"
       /\ goods[l] = "freed" => money = "never" \/ verdict = "refused"

(* The exchange gives goods only for money that stays, and the lines of an *)
(* order are never part given, part freed.                                 *)
THEOREM Fair == Promise!Spec => []Promise!FairExchange
<1>1. Promise!Init => ExchangeInv
  BY DEF Promise!Init, ExchangeInv
<1>2. ExchangeInv /\ [Promise!Next]_(Promise!vars) => ExchangeInv'
  <2> SUFFICES ASSUME ExchangeInv, [Promise!Next]_(Promise!vars) PROVE ExchangeInv'
    OBVIOUS
  <2> USE DEF ExchangeInv
  <2>1. CASE Promise!Hold
    BY <2>1 DEF Promise!Hold
  <2>2. CASE Promise!Pay \/ Promise!GiveUp \/ Promise!Decide \/ Promise!Return
    BY <2>2 DEF Promise!Pay, Promise!GiveUp, Promise!Decide, Promise!Return
  <2>3. ASSUME NEW l \in Lines, Promise!Give(l) \/ Promise!Free(l) PROVE ExchangeInv'
    BY <2>3 DEF Promise!Give, Promise!Free
  <2>4. CASE UNCHANGED Promise!vars
    BY <2>4 DEF Promise!vars
  <2> QED BY <2>1, <2>2, <2>3, <2>4 DEF Promise!Next
<1>3. ExchangeInv => Promise!FairExchange
  BY DEF ExchangeInv, Promise!FairExchange
<1> QED BY <1>1, <1>2, <1>3, PTL DEF Promise!Spec

(* So the saga, which implements it, is a fair exchange as well.           *)
COROLLARY SagaIsFair == Spec => []Promise!FairExchange
BY Implements, Fair, PTL DEF ImplementsExchange

-----------------------------------------------------------------------------
LEMMA OrderSteps == IInv /\ [Next]_vars => [order' \in After(order)]_order
<1> SUFFICES ASSUME IInv, Next, order' # order PROVE order' \in After(order)
  BY DEF vars
<1>1. order \in OrderStatus
  BY DEF IInv, TypeOK
<1>2. CASE createOrder
  BY <1>2 DEF createOrder, After, OrderStatus
<1>3. CASE operator_cancel_order
  BY <1>1, <1>3 DEF operator_cancel_order, After, OrderStatus
<1>4. ASSUME NEW m \in messages, cancel_order(m) PROVE order' \in After(order)
  <2>1. order # "NONE" /\ order' = "CANCELLED"
    BY <1>4 DEF IInv, Placed, cancel_order
  <2> QED BY <1>1, <2>1 DEF After, OrderStatus
<1>5. ASSUME NEW m \in messages, project(m) PROVE order' \in After(order)
  <2>1. Projectable(m.name) /\ order' = Projected(m.name)
    BY <1>5 DEF project
  <2> QED BY <2>1 DEF Projectable, Projected, After, OrderStatus
<1>6. ASSUME NEW c \in Consumers, Consume(c) PROVE order' \in After(order)
  <2>1. PICK m \in messages : Handler(c, m) \/ Duplicate(c, m) \/ Reject(c, m)
    BY <1>6 DEF Consume
  <2>2. cancel_order(m) \/ project(m)
    BY <2>1 DEF Handler, Duplicate, Reject, Skip, CheckoutProcessManager,
       release_inventory, confirm_inventory, Reservation, refund_payment,
       request_store_approval
  <2> QED BY <2>2, <1>4, <1>5
<1> QED BY <1>2, <1>3, <1>6 DEF Next, submit_transaction_hash, cancel_payment,
       expire_awaiting_signature, confirm_payment_receipt, PaymentMoves, Lose,
       Redeliver, Skip

(* Nothing reopens a cancelled order or takes an order back, in whatever   *)
(* order the projector and the cancellations run: Order.confirm_payment,   *)
(* approve and cancel.                                                     *)
THEOREM OrderForward == Spec => OrderMovesForward
  BY OrderSteps, Invariance, PTL DEF Spec, OrderMovesForward

-----------------------------------------------------------------------------
(* What is for good: a message that was published, a line that is sold or  *)
(* taken back, a verdict, money that never came or went back, a cancelled  *)
(* order.                                                                  *)

LEMMA SendGrows ==
  ASSUME NEW S, Send(S)
  PROVE  /\ messages \subseteq messages'
         /\ \A x \in S : \E y \in messages' : Id(y) = Id(x)
  BY DEF Send

LEMMA MessagesStay == [Next]_vars => messages \subseteq messages'
<1> SUFFICES ASSUME [Next]_vars PROVE messages \subseteq messages'
  OBVIOUS
<1>1. CASE UNCHANGED messages
  BY <1>1
<1>2. CASE \E S : Send(S)
  BY <1>2, SendGrows
<1>3. ASSUME NEW c \in Consumers, Consume(c)
      PROVE  UNCHANGED messages \/ \E S : Send(S)
  <2>1. PICK m \in messages : Handler(c, m) \/ Duplicate(c, m) \/ Reject(c, m)
    BY <1>3 DEF Consume
  <2>2. CASE request_store_approval(m)
    BY <2>2 DEF request_store_approval
  <2>3. CASE Handler(c, m) /\ ~ request_store_approval(m)
    BY <2>3 DEF Handler, CheckoutProcessManager, release_inventory,
       confirm_inventory, refund_payment, cancel_order, project
  <2> QED BY <2>1, <2>2, <2>3 DEF Duplicate, Reject, Skip
<1> QED BY <1>1, <1>2, <1>3 DEF Next, vars, createOrder, submit_transaction_hash,
       cancel_payment, expire_awaiting_signature, confirm_payment_receipt,
       PaymentMoves, operator_cancel_order, Lose, Redeliver, Skip

LEMMA ForGood ==
  ASSUME IInv, IInv', [Next]_vars
  PROVE  /\ approval # "NONE" => approval' = approval
         /\ payment \in Gone => payment' \in Gone
         /\ payment = "REFUNDED" => payment' = "REFUNDED"
         /\ \A l \in Lines : lines[l] \in {"CONFIRMED", "CANCELLED"} =>
                               lines'[l] = lines[l]
<1>1. [Promise!Next]_(Promise!vars)
  BY StepImplements
<1>2. verdict # "open" => verdict' = verdict
  BY <1>1 DEF Promise!Next, Promise!vars, Promise!Hold, Promise!Pay, Promise!GiveUp,
     Promise!Decide, Promise!Give, Promise!Free, Promise!Return
<1>3. money \in {"never", "returned"} => money' = money
  BY <1>1 DEF Promise!Next, Promise!vars, Promise!Hold, Promise!Pay, Promise!GiveUp,
     Promise!Decide, Promise!Give, Promise!Free, Promise!Return
<1>4. ASSUME NEW l \in Lines, goods[l] \in {"given", "freed"}
      PROVE  goods'[l] = goods[l]
  <2>1. CASE Promise!Hold
    BY <1>4, <2>1 DEF Promise!Hold
  <2>2. ASSUME NEW k \in Lines, Promise!Give(k) \/ Promise!Free(k)
        PROVE  goods'[l] = goods[l]
    <3>1. k # l /\ \E s : goods' = [goods EXCEPT ![k] = s]
      BY <1>4, <2>2 DEF Promise!Give, Promise!Free
    <3> QED BY <3>1
  <2>3. CASE UNCHANGED goods
    BY <2>3
  <2> QED BY <1>1, <2>1, <2>2, <2>3 DEF Promise!Next, Promise!vars, Promise!Pay,
         Promise!GiveUp, Promise!Decide, Promise!Return
<1>5. approval # "NONE" => approval' = approval
  BY <1>2 DEF verdict, IInv, TypeOK, ApprovalStatus
<1>6. /\ payment \in Gone => payment' \in Gone
      /\ payment = "REFUNDED" => payment' = "REFUNDED"
  BY <1>3 DEF money, Gone
<1>7. ASSUME NEW l \in Lines, lines[l] \in {"CONFIRMED", "CANCELLED"}
      PROVE  lines'[l] = lines[l]
  BY <1>4, <1>7 DEF goods, goodsOf
<1> QED BY <1>5, <1>6, <1>7

-----------------------------------------------------------------------------
(* What it takes for an order to be settled when everything is delivered:  *)
(* every outcome was reported, compensation carries what its receivers     *)
(* need, and a message a consumer is past has had its effect.              *)

Reported ==
  /\ payment \in Gone =>
       \E m \in messages : m.name \in {"PaymentFailed", "PaymentExpired"}
  /\ approval = "APPROVED" => \E m \in messages : m.name = "OrderApproved"

(* The rejection's payload is the one its commands carry, and without a    *)
(* rejection a cancellation carries what the payment's events carry.       *)
Carried(m) ==
  /\ m.name \in {"PaymentFailed", "PaymentExpired"} => m.carries = Fields
  /\ m.name = "CancelOrder" /\ approval # "REJECTED" => m.carries = Fields
  /\ \A n \in messages :
       /\ n.name = "OrderRejected"
       /\ m.name \in {"OrderRejected", "RefundPayment", "CancelOrder"}
       => m.carries = n.carries

(* A message refused for what it lacks.                                    *)
Malformed(i) == \E m \in messages : Id(m) = i /\ ~ WellFormed(m)

Settled(c, n, l) ==
  /\ c = "checkout" =>
       \A d \in CommandsByEvent(n) : \A k \in Targets(d) :
         \E m \in messages : Id(m) = <<d, k>>
  /\ c = "inventory" /\ n \in {"ReleaseInventory", "ConfirmInventory"} /\ l \in Lines =>
       lines[l] \in {"CONFIRMED", "CANCELLED"}
  /\ c = "order" => order = "CANCELLED" \/ Malformed(<<n, l>>)
  /\ c = "payment" /\ n = "RefundPayment" =>
       payment = "REFUNDED" \/ Malformed(<<n, l>>)

Met == handled \cup processed

CInv ==
  /\ Reported
  /\ \A m \in messages : Carried(m)
  /\ losses = 0 =>
       \A c \in Consumers, m \in Message :
         <<c, Id(m)>> \in Met /\ m.name \in Reads[c] => Settled(c, m.name, m.line)

LEMMA InitComplete == Init => CInv
  BY DEF Init, CInv, Reported, Met, Gone

LEMMA ReportedStays ==
  ASSUME IInv, IInv', [Next]_vars, Reported,
         payment \notin Gone /\ payment' \in Gone =>
           \E m \in messages' : m.name \in {"PaymentFailed", "PaymentExpired"},
         approval # "APPROVED" /\ approval' = "APPROVED" =>
           \E m \in messages' : m.name = "OrderApproved"
  PROVE  Reported'
  BY MessagesStay DEF Reported

LEMMA SettledStays ==
  ASSUME IInv, IInv', [Next]_vars, NEW c \in Consumers, NEW m \in Message,
         order = "CANCELLED" => order' = "CANCELLED",
         Settled(c, m.name, m.line)
  PROVE  Settled(c, m.name, m.line)'
<1>1. messages \subseteq messages'
  BY MessagesStay
<1>2. \A i : Malformed(i) => Malformed(i)'
  BY <1>1 DEF Malformed, WellFormed, Needs
<1>3. /\ payment = "REFUNDED" => payment' = "REFUNDED"
      /\ \A l \in Lines : lines[l] \in {"CONFIRMED", "CANCELLED"} =>
                            lines'[l] = lines[l]
  BY ForGood
<1> QED BY <1>1, <1>2, <1>3 DEF Settled

LEMMA CarriedStays ==
  ASSUME IInv, IInv', [Next]_vars, \A m \in messages : Carried(m),
         \A m \in messages' : m \in messages \/
           /\ m.name \notin {"OrderRejected", "RefundPayment", "CancelOrder"}
           /\ m.name \in {"PaymentFailed", "PaymentExpired"} => m.carries = Fields
  PROVE  \A m \in messages' : Carried(m)'
<1>1. approval = "REJECTED" => approval' = "REJECTED"
  BY ForGood
<1> QED BY <1>1 DEF Carried

(* What the consumers are past later they were past before, or is New.     *)
LEMMA AllSettled ==
  ASSUME IInv, IInv', [Next]_vars, CInv, NEW New,
         handled' \cup processed' \subseteq handled \cup processed \cup New,
         losses' = 0 => losses = 0,
         ASSUME NEW c \in Consumers, NEW m \in Message, losses = 0,
                <<c, Id(m)>> \in New, m.name \in Reads[c]
         PROVE  Settled(c, m.name, m.line)'
  PROVE  (losses = 0 =>
            \A c \in Consumers, m \in Message :
              <<c, Id(m)>> \in Met /\ m.name \in Reads[c] =>
                Settled(c, m.name, m.line))'
<1> SUFFICES ASSUME losses = 0, NEW c \in Consumers, NEW m \in Message,
                    <<c, Id(m)>> \in handled' \cup processed', m.name \in Reads[c]
             PROVE  Settled(c, m.name, m.line)'
  BY DEF Met, Id
<1>1. order = "CANCELLED" => order' = "CANCELLED"
  BY OrderSteps DEF After
<1>2. CASE <<c, Id(m)>> \in handled \cup processed
  BY <1>1, <1>2, SettledStays DEF CInv, Met
<1>3. CASE <<c, Id(m)>> \in New
  BY <1>3
<1> QED BY <1>2, <1>3

-----------------------------------------------------------------------------
(* A transaction of the API or of a payment.                               *)
LEMMA RequestCompletes ==
  ASSUME CheckoutConstants, IInv, IInv', CInv, Next,
         \/ createOrder \/ submit_transaction_hash \/ cancel_payment
         \/ expire_awaiting_signature \/ confirm_payment_receipt
         \/ operator_cancel_order
  PROVE  CInv'
<1> DEFINE New == {<<"inventory", <<"ReserveInventory", l>>>> : l \in Lines}
                    \cup {<<"payment", <<"InitiatePayment", None>>>>}
<1>1. /\ handled' = handled /\ losses' = losses /\ approval' = approval
      /\ processed' \subseteq processed \cup New
  BY DEF createOrder, submit_transaction_hash, cancel_payment,
     expire_awaiting_signature, confirm_payment_receipt, PaymentMoves,
     operator_cancel_order
<1>2. ASSUME NEW c \in Consumers, NEW m \in Message, <<c, Id(m)>> \in New
      PROVE  Settled(c, m.name, m.line)'
  BY <1>2 DEF Settled, Id
<1>3. PICK S : /\ Send(S)
               /\ \A m \in S :
                    /\ m.name \notin {"OrderRejected", "RefundPayment", "CancelOrder"}
                    /\ m.name \in {"PaymentFailed", "PaymentExpired"} => m.carries = Fields
               /\ payment \notin Gone /\ payment' \in Gone =>
                    \E m \in S : m.name \in {"PaymentFailed", "PaymentExpired"}
  <2>1. CASE createOrder
    <3> DEFINE S == {Msg("OrderCreated", None, {})}
                      \cup {Msg("InventoryReserved", l, {}) : l \in Lines}
    <3>1. Send(S) /\ payment' \notin Gone
      BY <2>1 DEF createOrder, Gone
    <3>2. \A m \in S : m.name \in {"OrderCreated", "InventoryReserved"}
      BY DEF Msg
    <3> HIDE DEF S
    <3> QED BY <3>1, <3>2
  <2>2. CASE operator_cancel_order
    <3> DEFINE S == {Msg("OrderCancelled", None, {})}
    <3>1. Send(S) /\ payment' = payment
      BY <2>2 DEF operator_cancel_order
    <3>2. \A m \in S : m.name = "OrderCancelled"
      BY DEF Msg
    <3> HIDE DEF S
    <3> QED BY <3>1, <3>2
  <2>3. CASE submit_transaction_hash
    BY <2>3 DEF submit_transaction_hash, PaymentMoves, Gone
  <2>4. CASE cancel_payment \/ expire_awaiting_signature
    <3> DEFINE S == {Msg("PaymentExpired", None, Fields)}
    <3>1. Send(S)
      BY <2>4 DEF cancel_payment, expire_awaiting_signature, PaymentMoves
    <3>2. /\ \A m \in S : m.name = "PaymentExpired" /\ m.carries = Fields
          /\ \E m \in S : m.name = "PaymentExpired"
      BY DEF Msg
    <3> HIDE DEF S
    <3> QED BY <3>1, <3>2
  <2>5. CASE confirm_payment_receipt
    <3> DEFINE S(n, f) == {Msg(n, None, f)}
    <3>1. \/ Send(S("PaymentConfirmed", {"paymentId"})) /\ payment' = "CONFIRMED"
          \/ Send(S("PaymentFailed", Fields))
      BY <2>5 DEF confirm_payment_receipt, PaymentMoves
    <3>2. \A n, f : /\ \A m \in S(n, f) : m.name = n /\ m.carries = f
                    /\ \E m \in S(n, f) : m.name = n
      BY DEF Msg
    <3> HIDE DEF S
    <3> QED BY <3>1, <3>2 DEF Gone
  <2> QED BY <2>1, <2>2, <2>3, <2>4, <2>5
<1>4. /\ \A m \in messages' : m \in messages \/ m \in S
      /\ \A m \in S : \E n \in messages' : n.name = m.name
  BY <1>3 DEF Send, Id
<1>5. Reported'
  BY <1>1, <1>3, <1>4, ReportedStays DEF CInv
<1>6. \A m \in messages' : Carried(m)'
  BY <1>3, <1>4, CarriedStays DEF CInv
<1> HIDE DEF New
<1> QED BY <1>1, <1>2, <1>5, <1>6, AllSettled DEF CInv

-----------------------------------------------------------------------------
(* A consumer's step, as far as payloads are concerned.                    *)
LEMMA DecisionsCarry ==
  ASSUME IInv, IInv', [Next]_vars, CInv, NEW m \in messages,
         CheckoutProcessManager(m)
  PROVE  \A x \in messages' : Carried(x)'
<1>1. /\ Send(Decisions(m)) /\ UNCHANGED <<payment, approval>>
      /\ m.name \in CheckoutEventName
  BY DEF CheckoutProcessManager, Fresh, Delivered, Reads, Consumers
<1>2. \A x \in messages' : x \in messages \/ x \in Decisions(m)
  BY <1>1 DEF Send
<1>3. \A d \in Decisions(m) : /\ d.carries = m.carries
                              /\ d.name \in CommandsByEvent(m.name)
  BY DEF Decisions, Msg
<1>4. CASE m.name \in {"PaymentFailed", "PaymentExpired"}
  <2>1. m.carries = Fields /\ approval # "REJECTED"
    BY <1>4 DEF CInv, Carried, IInv, Truthful, Decided, Gone, Paid
  <2>2. \A d \in Decisions(m) : d.carries = Fields /\ d.name \in CheckoutCommandName
    BY <1>3, <2>1 DEF CommandsByEvent
  <2>3. \A x \in messages' : x.name # "OrderRejected"
    BY <1>1, <2>1 DEF IInv, Truthful
  <2>4. \A x \in messages : Carried(x)
    BY DEF CInv
  <2>5. ASSUME NEW x \in messages' PROVE Carried(x)'
    <3>1. x \in messages \/ x.carries = Fields
      BY <1>2, <2>2
    <3> QED BY <1>1, <2>3, <2>4, <3>1 DEF Carried
  <2> QED BY <2>5
<1>5. CASE m.name = "OrderRejected"
  <2>1. approval = "REJECTED"
    BY <1>5 DEF IInv, Truthful
  <2>2. \A d \in Decisions(m) : /\ d.name \in CheckoutCommandName
                                /\ d.carries = m.carries
    BY <1>3 DEF CommandsByEvent
  <2>3. \A x \in messages : Carried(x)
    BY DEF CInv
  <2>4. \A n \in messages' : n.name = "OrderRejected" => n \in messages
    BY <1>2, <2>2 DEF CheckoutCommandName, InventoryCommands
  <2>5. \A n \in messages : n.name = "OrderRejected" => m.carries = n.carries
    BY <1>5, <2>3 DEF Carried
  <2>6. ASSUME NEW x \in messages' PROVE Carried(x)'
    <3>1. CASE x \in messages
      BY <1>1, <2>3, <2>4, <3>1 DEF Carried
    <3>2. CASE x \in Decisions(m)
      <4>1. x.name \notin {"PaymentFailed", "PaymentExpired"}
        BY <2>2, <3>2 DEF CheckoutCommandName, InventoryCommands
      <4>2. \A n \in messages' : n.name = "OrderRejected" => x.carries = n.carries
        BY <2>2, <2>4, <2>5, <3>2
      <4> QED BY <1>1, <2>1, <4>1, <4>2 DEF Carried
    <3> QED BY <1>2, <3>1, <3>2
  <2> QED BY <2>6
<1>6. CASE m.name \notin {"PaymentFailed", "PaymentExpired", "OrderRejected"}
  <2>1. \A d \in Decisions(m) :
          d.name \notin {"PaymentFailed", "PaymentExpired", "OrderRejected",
                         "RefundPayment", "CancelOrder"}
    BY <1>3, <1>6 DEF CommandsByEvent, CheckoutCommandName, InventoryCommands
  <2> QED BY <1>2, <2>1, CarriedStays DEF CInv
<1> QED BY <1>4, <1>5, <1>6

LEMMA VerdictCarries ==
  ASSUME IInv, IInv', [Next]_vars, CInv, NEW m \in messages,
         request_store_approval(m)
  PROVE  /\ \A x \in messages' : Carried(x)'
         /\ approval' = "APPROVED" => \E x \in messages' : x.name = "OrderApproved"
<1>1. approval = "NONE" /\ payment = "CONFIRMED"
  BY Undecided
<1>2. \A x \in messages : x.name \notin {"OrderRejected", "RefundPayment", "CancelOrder"}
  BY <1>1 DEF IInv, Truthful, Gone
<1>3. \A x \in messages : Carried(x)
  BY DEF CInv
<1>4. CASE approval' = "APPROVED" /\ Send({Msg("OrderApproved", None, {})})
  <2>1. \A x \in messages' : x \in messages \/ x.name = "OrderApproved"
    BY <1>4 DEF Send, Msg
  <2>2. \E x \in messages' : x.name = "OrderApproved"
    <3> DEFINE a == Msg("OrderApproved", None, {})
    <3>1. \E y \in messages' : Id(y) = Id(a)
      BY <1>4, SendGrows
    <3>2. Id(a)[1] = "OrderApproved" /\ \A y : Id(y)[1] = y.name
      BY DEF Id, Msg
    <3> HIDE DEF a
    <3> QED BY <3>1, <3>2
  <2> QED BY <1>3, <2>1, <2>2, CarriedStays
<1>5. ASSUME NEW f \in RejectionPayloads, approval' = "REJECTED",
             Send({Msg("OrderRejected", None, f)})
      PROVE  \A x \in messages' : Carried(x)'
  <2>1. \A x \in messages' :
          x \in messages \/ x = Msg("OrderRejected", None, f)
    BY <1>5 DEF Send
  <2> DEFINE r == Msg("OrderRejected", None, f)
  <2>2. r.name = "OrderRejected" /\ r.carries = f
    BY DEF Msg
  <2> HIDE DEF r
  <2> QED BY <1>2, <1>3, <1>5, <2>1, <2>2 DEF Carried, r
<1> QED BY <1>4, <1>5 DEF request_store_approval

LEMMA HandlerCarries ==
  ASSUME IInv, IInv', [Next]_vars, CInv, NEW c \in Consumers, NEW m \in messages,
         Handler(c, m)
  PROVE  \A x \in messages' : Carried(x)'
<1>1. CASE release_inventory(m) \/ refund_payment(m) \/ project(m)
  BY <1>1, CarriedStays DEF release_inventory, refund_payment, project, CInv
<1>2. CASE confirm_inventory(m) \/ cancel_order(m)
  <2>1. \A x \in messages' :
          x \in messages \/ x.name \in {"InventoryConfirmed", "OrderCancelled"}
    BY <1>2 DEF confirm_inventory, cancel_order, Send, Msg
  <2> QED BY <2>1, CarriedStays DEF CInv
<1> QED BY <1>1, <1>2, DecisionsCarry, VerdictCarries DEF Handler

-----------------------------------------------------------------------------
(* A consumer's step, as far as effects are concerned.                     *)
LEMMA HandlerSettles ==
  ASSUME IInv, IInv', [Next]_vars, NEW c \in Consumers, NEW m \in messages,
         Handler(c, m)
  PROVE  Settled(c, m.name, m.line)'
<1>1. CASE c = "checkout"
  <2>1. Send(Decisions(m))
    BY <1>1 DEF Handler, CheckoutProcessManager
  <2>2. ASSUME NEW d \in CommandsByEvent(m.name), NEW k \in Targets(d)
        PROVE  \E x \in messages' : Id(x) = <<d, k>>
    <3>1. Msg(d, k, m.carries) \in Decisions(m)
      BY DEF Decisions
    <3>2. Id(Msg(d, k, m.carries)) = <<d, k>>
      BY DEF Msg, Id
    <3>3. \E x \in messages' : Id(x) = Id(Msg(d, k, m.carries))
      BY <2>1, <3>1, SendGrows
    <3> QED BY <3>2, <3>3
  <2> QED BY <1>1, <2>2 DEF Settled
<1>2. CASE c = "inventory"
  <2>1. \E s \in {"CONFIRMED", "CANCELLED"} : lines' = [lines EXCEPT ![m.line] = s]
    BY <1>2 DEF Handler, release_inventory, confirm_inventory, Reservation
  <2>2. \A l \in Lines : l = m.line => lines'[l] \in {"CONFIRMED", "CANCELLED"}
    BY <2>1 DEF IInv, TypeOK
  <2> QED BY <1>2, <2>2 DEF Settled
<1>3. CASE c = "order"
  BY <1>3 DEF Handler, cancel_order, Settled
<1>4. CASE c = "payment"
  BY <1>4 DEF Handler, refund_payment, Settled
<1>5. CASE c \in {"store", "status"}
  BY <1>5 DEF Settled
<1> QED BY <1>1, <1>2, <1>3, <1>4, <1>5 DEF Consumers

LEMMA SkipSettles ==
  ASSUME IInv, IInv', [Next]_vars, CInv, losses = 0, NEW c \in Consumers,
         NEW m \in messages, Duplicate(c, m) \/ Reject(c, m)
  PROVE  Settled(c, m.name, m.line)'
<1>1. /\ m \in Message /\ Truthful(m) /\ m.name \in Reads[c]
      /\ UNCHANGED <<order, lines, payment, approval, messages>>
  BY DEF IInv, TypeOK, Duplicate, Reject, Delivered, Skip
<1>2. Settled(c, m.name, m.line) => Settled(c, m.name, m.line)'
  BY <1>1 DEF Settled, Malformed, WellFormed, Needs
<1>3. CASE Duplicate(c, m)
  BY <1>1, <1>2, <1>3 DEF CInv, Met, Duplicate
<1>4. CASE Reject(c, m) /\ ~ WellFormed(m)
  <2>1. Malformed(<<m.name, m.line>>)
    BY <1>4 DEF Malformed, Id
  <2>2. m.name \in {"RefundPayment", "CancelOrder"}
    BY <1>4 DEF WellFormed, Needs
  <2>3. c \in {"payment", "order"}
    BY <1>1, <2>2 DEF Reads, Consumers, CheckoutEventName, InventoryCommands
  <2> QED BY <1>2, <2>1, <2>3 DEF Settled
<1>5. CASE Reject(c, m) /\ WellFormed(m)
  <2>1. CASE c = "inventory"
    <3>1. m.line \in Lines => lines[m.line] \in {"CONFIRMED", "CANCELLED"}
      BY <1>5, <2>1 DEF Reject, Refused, Releasable, Confirmable, IInv, TypeOK,
         Placed, ReservationStatus
    <3> QED BY <1>2, <2>1, <3>1 DEF Settled
  <2>2. CASE c = "payment"
    <3>1. m.name = "RefundPayment" /\ payment # "CONFIRMED"
      BY <1>5, <2>2 DEF Reject, Refused
    <3>2. payment = "REFUNDED"
      BY <1>1, <3>1 DEF Truthful, IInv, Decided, Paid
    <3> QED BY <1>2, <2>2, <3>2 DEF Settled
  <2>3. CASE c \in {"store", "status"}
    BY <2>3 DEF Settled
  <2>4. c \notin {"checkout", "order"}
    BY <1>5 DEF Reject, Refused
  <2> QED BY <2>1, <2>2, <2>3, <2>4 DEF Consumers
<1> QED BY <1>3, <1>4, <1>5 DEF Reject

-----------------------------------------------------------------------------
LEMMA ConsumeCompletes ==
  ASSUME IInv, IInv', [Next]_vars, CInv, NEW c \in Consumers, NEW m \in messages,
         Handler(c, m) \/ Duplicate(c, m) \/ Reject(c, m)
  PROVE  CInv'
<1> DEFINE New == {<<c, Id(m)>>}
<1>1. /\ handled' = handled \cup New
      /\ processed' \subseteq processed \cup New
      /\ losses' = losses
  BY DEF Handler, Duplicate, Reject, Skip, Past, Done, CheckoutProcessManager,
     release_inventory, confirm_inventory, Reservation, refund_payment,
     request_store_approval, cancel_order, project
<1>2. ASSUME losses = 0 PROVE Settled(c, m.name, m.line)'
  BY <1>2, HandlerSettles, SkipSettles
<1>3. ASSUME NEW k \in Consumers, NEW x \in Message, losses = 0, <<k, Id(x)>> \in New
      PROVE  Settled(k, x.name, x.line)'
  <2>1. k = c /\ x.name = m.name /\ x.line = m.line
    BY <1>3 DEF Id
  <2> QED BY <1>2, <1>3, <2>1
<1>4. CASE ~ Handler(c, m)
  <2>1. UNCHANGED <<payment, approval, messages>>
    BY <1>4 DEF Duplicate, Reject, Skip
  <2>2. Reported'
    BY <2>1 DEF CInv, Reported
  <2>3. \A x \in messages' : Carried(x)'
    BY <2>1 DEF CInv, Carried
  <2> HIDE DEF New
  <2> QED BY <1>1, <1>3, <2>2, <2>3, AllSettled DEF CInv
<1>5. CASE Handler(c, m)
  <2>1. payment' \in Gone => payment \in Gone
    BY <1>5 DEF Handler, CheckoutProcessManager, release_inventory,
       confirm_inventory, Reservation, refund_payment, request_store_approval,
       cancel_order, project, Gone
  <2>2. approval' = "APPROVED" /\ approval # "APPROVED" =>
          \E x \in messages' : x.name = "OrderApproved"
    BY <1>5, VerdictCarries DEF Handler, CheckoutProcessManager, release_inventory,
       confirm_inventory, Reservation, refund_payment, cancel_order, project
  <2>3. Reported'
    BY <2>1, <2>2, ReportedStays DEF CInv
  <2>4. \A x \in messages' : Carried(x)'
    BY <1>5, HandlerCarries
  <2> HIDE DEF New
  <2> QED BY <1>1, <1>3, <2>3, <2>4, AllSettled DEF CInv
<1> QED BY <1>4, <1>5

LEMMA FaultCompletes ==
  ASSUME CheckoutConstants, IInv, IInv', [Next]_vars, CInv, NEW c \in Consumers,
         NEW m \in messages, Lose(c, m) \/ Redeliver(c, m)
  PROVE  CInv'
<1>1. UNCHANGED <<payment, approval, messages>>
  BY DEF Lose, Redeliver, Skip
<1>2. Reported' /\ \A x \in messages' : Carried(x)'
  BY <1>1 DEF CInv, Reported, Carried
<1>3. CASE Lose(c, m)
  <2>1. losses' # 0
    BY <1>3 DEF Lose, IInv, TypeOK
  <2> QED BY <1>2, <2>1 DEF CInv
<1>4. CASE Redeliver(c, m)
  <2> DEFINE New == {}
  <2>1. handled' \cup processed' \subseteq handled \cup processed \cup New
        /\ losses' = losses
    BY <1>4 DEF Redeliver
  <2>2. \A k \in Consumers, x \in Message : <<k, Id(x)>> \notin New
    OBVIOUS
  <2> HIDE DEF New
  <2> QED BY <1>2, <2>1, <2>2, AllSettled DEF CInv
<1> QED BY <1>3, <1>4

LEMMA StepCompletes ==
  CheckoutConstants /\ IInv /\ IInv' /\ CInv /\ [Next]_vars => CInv'
<1> SUFFICES ASSUME CheckoutConstants, IInv, IInv', CInv, [Next]_vars PROVE CInv'
  OBVIOUS
<1>1. CASE UNCHANGED vars
  BY <1>1 DEF vars, CInv, Reported, Carried, Settled, Met, Malformed, WellFormed,
     Needs
<1>2. ASSUME NEW c \in Consumers, Consume(c) PROVE CInv'
  BY <1>2, ConsumeCompletes DEF Consume
<1>3. ASSUME NEW c \in Consumers, NEW m \in messages, Lose(c, m) \/ Redeliver(c, m)
      PROVE  CInv'
  BY <1>3, FaultCompletes
<1> QED BY <1>1, <1>2, <1>3, RequestCompletes DEF Next

(* Outcomes are reported, payloads arrive, and what a consumer is past has *)
(* had its effect: process manager and receivers.                          *)
THEOREM Completion == Spec => []CInv
<1>1. Init => CInv
  BY InitComplete
<1>2. IInv /\ IInv' /\ CInv /\ [Next]_vars => CInv'
  BY CheckoutConstants, StepCompletes
<1> QED BY <1>1, <1>2, Invariance, PTL DEF Spec

-----------------------------------------------------------------------------
(* A message every consumer is past has had its effect.                    *)
LEMMA QuietSettles ==
  ASSUME IInv, CInv, Quiet, losses = 0, NEW c \in Consumers, NEW m \in messages,
         m.name \in Reads[c]
  PROVE  Settled(c, m.name, m.line)
<1>1. m \in Message /\ <<c, Id(m)>> \in handled
  BY DEF IInv, TypeOK, Quiet
<1> QED BY <1>1 DEF CInv, Met

LEMMA Commanded ==
  ASSUME IInv, CInv, Quiet, losses = 0, NEW e \in messages,
         e.name \in CheckoutEventName, NEW d \in CommandsByEvent(e.name),
         NEW k \in Targets(d)
  PROVE  \E m \in messages : m.name = d /\ m.line = k
<1>1. Settled("checkout", e.name, e.line)
  BY QuietSettles DEF Reads, Consumers
<1>2. PICK m \in messages : Id(m) = <<d, k>>
  BY <1>1 DEF Settled
<1> QED BY <1>2 DEF Id

(* All the lines of an order are moved by the commands for each of them.   *)
LEMMA LinesSettle ==
  ASSUME IInv, CInv, Quiet, losses = 0, NEW e \in messages,
         e.name \in CheckoutEventName,
         NEW d \in CommandsByEvent(e.name) \cap {"ReleaseInventory", "ConfirmInventory"}
  PROVE  \A l \in Lines : lines[l] \in {"CONFIRMED", "CANCELLED"}
<1> SUFFICES ASSUME NEW l \in Lines PROVE lines[l] \in {"CONFIRMED", "CANCELLED"}
  OBVIOUS
<1>1. l \in Targets(d)
  BY DEF Targets, InventoryCommands
<1>2. PICK m \in messages : m.name = d /\ m.line = l
  BY <1>1, Commanded
<1>3. Settled("inventory", d, l)
  BY <1>2, QuietSettles DEF Reads, Consumers, InventoryCommands
<1> QED BY <1>3 DEF Settled

(* A command every message of whose kind carries its fields is obeyed.     *)
LEMMA Obeyed ==
  ASSUME IInv, CInv, Quiet, losses = 0, NEW e \in messages,
         e.name \in CheckoutEventName,
         NEW c \in {"order", "payment"},
         NEW d \in CommandsByEvent(e.name) \cap {"CancelOrder", "RefundPayment"},
         c = (IF d = "CancelOrder" THEN "order" ELSE "payment"),
         \A m \in messages : m.name = d => m.carries = Fields
  PROVE  IF d = "CancelOrder" THEN order = "CANCELLED" ELSE payment = "REFUNDED"
<1>1. None \in Targets(d)
  BY DEF Targets, InventoryCommands
<1>2. PICK m \in messages : m.name = d /\ m.line = None
  BY <1>1, Commanded
<1>3. Settled(c, d, None)
  BY <1>2, QuietSettles DEF Reads, Consumers
<1>4. ~ Malformed(<<d, None>>)
  BY DEF Malformed, Id, WellFormed, Needs
<1> QED BY <1>3, <1>4 DEF Settled

(* A payment that came to nothing leaves neither stock reserved nor the    *)
(* order open, and an approved order has its stock sold, once everything   *)
(* is delivered: the process manager's table and the receivers together.   *)
THEOREM OutcomesComplete == Spec => []OutcomeIsComplete
<1>1. IInv /\ CInv => OutcomeIsComplete
  <2> SUFFICES ASSUME IInv, CInv, Quiet, losses = 0
               PROVE  /\ payment \in Gone =>
                           order = "CANCELLED" /\ \A l \in Lines : lines[l] = "CANCELLED"
                      /\ approval = "APPROVED" => \A l \in Lines : lines[l] = "CONFIRMED"
    BY DEF OutcomeIsComplete, Gone
  <2>1. ASSUME payment \in Gone
        PROVE  order = "CANCELLED" /\ \A l \in Lines : lines[l] = "CANCELLED"
    <3>1. approval = "NONE"
      BY <2>1 DEF IInv, Decided, Gone, Paid
    <3>2. PICK e \in messages : e.name \in {"PaymentFailed", "PaymentExpired"}
      BY <2>1 DEF CInv, Reported
    <3>3. /\ e.name \in CheckoutEventName
          /\ "ReleaseInventory" \in CommandsByEvent(e.name)
          /\ "CancelOrder" \in CommandsByEvent(e.name)
      BY <3>2 DEF CommandsByEvent, CheckoutEventName, CheckoutCommandName,
         InventoryCommands
    <3>4. \A l \in Lines : lines[l] \in {"CONFIRMED", "CANCELLED"}
      BY <3>3, LinesSettle
    <3>5. \A m \in messages : m.name = "CancelOrder" => m.carries = Fields
      BY <3>1 DEF CInv, Carried
    <3>6. order = "CANCELLED"
      BY <3>3, <3>5, Obeyed
    <3> QED BY <3>1, <3>4, <3>6 DEF IInv, Ledger
  <2>2. ASSUME approval = "APPROVED" PROVE \A l \in Lines : lines[l] = "CONFIRMED"
    <3>1. PICK e \in messages : e.name = "OrderApproved"
      BY <2>2 DEF CInv, Reported
    <3>2. /\ e.name \in CheckoutEventName
          /\ "ConfirmInventory" \in CommandsByEvent(e.name)
      BY <3>1 DEF CommandsByEvent, CheckoutEventName, CheckoutCommandName,
         InventoryCommands
    <3>3. \A l \in Lines : lines[l] \in {"CONFIRMED", "CANCELLED"}
      BY <3>2, LinesSettle
    <3> QED BY <2>2, <3>3 DEF IInv, Ledger, Decided, Gone, Paid
  <2> QED BY <2>1, <2>2
<1> QED BY <1>1, Invariance, Completion, PTL

(* A rejection with a complete payload is compensated once everything is   *)
(* delivered: release, refund and cancellation.                            *)
THEOREM RejectionsCompensated == Spec => []CompleteRejectionCompensated
<1>1. IInv /\ CInv => CompleteRejectionCompensated
  <2> DEFINE e == Msg("OrderRejected", None, Fields)
  <2> SUFFICES ASSUME IInv, CInv, Quiet, losses = 0, e \in messages
               PROVE  Compensated
    BY DEF CompleteRejectionCompensated
  <2>1. e.name = "OrderRejected" /\ e.carries = Fields
    BY DEF Msg
  <2> HIDE DEF e
  <2>2. approval = "REJECTED"
    BY <2>1 DEF IInv, Truthful
  <2>3. /\ e.name \in CheckoutEventName
        /\ {"ReleaseInventory", "CancelOrder", "RefundPayment"}
             \subseteq CommandsByEvent(e.name)
    BY <2>1 DEF CommandsByEvent, CheckoutEventName, CheckoutCommandName,
       InventoryCommands
  <2>4. \A m \in messages : m.name \in {"CancelOrder", "RefundPayment"} =>
                              m.carries = Fields
    BY <2>1 DEF CInv, Carried
  <2>5. order = "CANCELLED"
    BY <2>3, <2>4, Obeyed
  <2>6. payment = "REFUNDED"
    BY <2>3, <2>4, Obeyed
  <2>7. \A l \in Lines : lines[l] \in {"CONFIRMED", "CANCELLED"}
    BY <2>3, LinesSettle
  <2> QED BY <2>2, <2>5, <2>6, <2>7 DEF Compensated, IInv, Ledger
<1> QED BY <1>1, Invariance, Completion, PTL

-----------------------------------------------------------------------------
(* The tracking page.  Order and payment only move forward, so the rows of *)
(* a page, read one after the other, are behind the rows of the database.  *)

OrderAhead(s) ==
  CASE s = "NONE" -> OrderStatus
    [] s = "PENDING" -> {"PENDING", "PAID", "APPROVED", "CANCELLED"}
    [] s = "PAID" -> {"PAID", "APPROVED", "CANCELLED"}
    [] s = "APPROVED" -> {"APPROVED", "CANCELLED"}
    [] OTHER -> {s}

PaymentAhead(s) ==
  CASE s = "NONE" -> PaymentStatus
    [] s = "AWAITING_SIGNATURE" -> PaymentStatus \ {"NONE"}
    [] s = "SUBMITTED" -> {"SUBMITTED", "CONFIRMED", "FAILED", "REFUNDED"}
    [] s = "CONFIRMED" -> {"CONFIRMED", "REFUNDED"}
    [] OTHER -> {s}

Page == [order : OrderStatus, payment : PaymentStatus]

(* A page that names an approved order names a confirmed payment, and one  *)
(* that names an order names a payment.  Failed payments are never on a    *)
(* page, submitted and cancelled ones not on every.                        *)
Coherent(p) ==
  /\ p.order = "APPROVED" => p.payment = "CONFIRMED"
  /\ p.order = "NONE" <=> p.payment = "NONE"
  /\ p.payment # "FAILED"
  /\ p.payment = "SUBMITTED" => p.order \in {"PENDING", "PAID"}
  /\ p.payment = "CANCELLED" => p.order \notin {"PENDING", "PAID"}

PageInv ==
  /\ page \in Page /\ Coherent(page)
  /\ order \in OrderAhead(page.order)
  /\ payment \in PaymentAhead(page.payment)
  /\ order = "APPROVED" \/ page.order = "APPROVED" => approval = "APPROVED"
  /\ error = "SERVER_ERROR" => payment = "CANCELLED"
  /\ error = "VALIDATION_ERROR" => payment \in PaymentAhead("SUBMITTED")
  /\ poll # None =>
       /\ poll \in OrderStatus \ {"NONE"}
       /\ poll \in OrderAhead(page.order) /\ order \in OrderAhead(poll)
       /\ poll = "APPROVED" => approval = "APPROVED"

LEMMA AheadOfAhead ==
  /\ \A s, t, u \in OrderStatus :
       t \in OrderAhead(s) /\ u \in OrderAhead(t) => u \in OrderAhead(s)
  /\ \A s, t, u \in PaymentStatus :
       t \in PaymentAhead(s) /\ u \in PaymentAhead(t) => u \in PaymentAhead(s)
<1>1. ASSUME NEW s \in OrderStatus, NEW t \in OrderAhead(s), NEW u \in OrderAhead(t)
      PROVE  u \in OrderAhead(s)
  BY <1>1 DEF OrderAhead, OrderStatus
<1>2. ASSUME NEW s \in PaymentStatus, NEW t \in PaymentAhead(s),
             NEW u \in PaymentAhead(t)
      PROVE  u \in PaymentAhead(s)
  BY <1>2 DEF PaymentAhead, PaymentStatus
<1> QED BY <1>1, <1>2

LEMMA PaymentSteps ==
  \A s \in PaymentStatus :
    /\ s \in PaymentAhead(s) /\ s \in PaymentAhead("NONE")
    /\ s # "NONE" => s \in PaymentAhead("AWAITING_SIGNATURE")
    /\ s \in {"CONFIRMED", "FAILED"} => s \in PaymentAhead("SUBMITTED")
    /\ s = "REFUNDED" => s \in PaymentAhead("CONFIRMED")
<1> SUFFICES ASSUME NEW s \in PaymentStatus
             PROVE  /\ s \in PaymentAhead(s) /\ s \in PaymentAhead("NONE")
                    /\ s # "NONE" => s \in PaymentAhead("AWAITING_SIGNATURE")
                    /\ s \in {"CONFIRMED", "FAILED"} => s \in PaymentAhead("SUBMITTED")
                    /\ s = "REFUNDED" => s \in PaymentAhead("CONFIRMED")
  OBVIOUS
<1> QED BY DEF PaymentAhead, PaymentStatus

LEMMA RowsMoveAhead ==
  ASSUME IInv, IInv', [Next]_vars
  PROVE  order' \in OrderAhead(order) /\ payment' \in PaymentAhead(payment)
<1>1. order \in OrderStatus /\ order' \in OrderStatus
      /\ payment \in PaymentStatus /\ payment' \in PaymentStatus
  BY DEF IInv, TypeOK
<1>2. order' \in OrderAhead(order)
  BY <1>1, OrderSteps DEF After, OrderAhead, OrderStatus
<1> SUFFICES payment' \in PaymentAhead(payment)
  BY <1>2
<1>3. CASE payment' = payment
  BY <1>1, <1>3, PaymentSteps
<1>4. CASE createOrder
  <2>1. payment = "NONE"
    BY <1>4 DEF createOrder, IInv, Placed
  <2> QED BY <1>1, <2>1, PaymentSteps
<1>5. CASE submit_transaction_hash \/ cancel_payment \/ expire_awaiting_signature
           \/ confirm_payment_receipt
  <2>1. \/ payment = "AWAITING_SIGNATURE" /\ payment' # "NONE"
        \/ payment = "SUBMITTED" /\ payment' \in {"CONFIRMED", "FAILED"}
    BY <1>5 DEF submit_transaction_hash, cancel_payment, expire_awaiting_signature,
       confirm_payment_receipt, PaymentMoves
  <2> QED BY <1>1, <2>1, PaymentSteps
<1>6. ASSUME NEW c \in Consumers, Consume(c)
      PROVE  payment' \in PaymentAhead(payment)
  <2>1. \/ payment' = payment
        \/ payment = "CONFIRMED" /\ payment' = "REFUNDED"
    BY <1>6 DEF Consume, Handler, Duplicate, Reject, Skip, CheckoutProcessManager,
       release_inventory, confirm_inventory, Reservation, refund_payment,
       request_store_approval, cancel_order, project
  <2> QED BY <1>1, <1>3, <2>1, PaymentSteps
<1> QED BY <1>3, <1>4, <1>5, <1>6 DEF Next, vars, operator_cancel_order, Lose,
       Redeliver, Skip

LEMMA ApprovedByStore ==
  ASSUME IInv, [Next]_vars, order' = "APPROVED", order # "APPROVED"
  PROVE  approval = "APPROVED"
<1>1. ASSUME NEW c \in Consumers, Consume(c) PROVE approval = "APPROVED"
  <2>1. PICK m \in messages : Handler(c, m) \/ Duplicate(c, m) \/ Reject(c, m)
    BY <1>1 DEF Consume
  <2>2. project(m)
    BY <2>1 DEF Handler, Duplicate, Reject, Skip, CheckoutProcessManager,
       release_inventory, confirm_inventory, Reservation, refund_payment,
       request_store_approval, cancel_order
  <2>3. m.name = "OrderApproved"
    BY <2>2 DEF project, Projected
  <2> QED BY <2>3 DEF IInv, Truthful
<1> QED BY <1>1 DEF Next, vars, createOrder, submit_transaction_hash, cancel_payment,
       expire_awaiting_signature, confirm_payment_receipt, PaymentMoves,
       operator_cancel_order, Lose, Redeliver, Skip

LEMMA ApprovedIsPaid == IInv /\ approval = "APPROVED" => payment = "CONFIRMED"
  BY DEF IInv, Decided, Paid

LEMMA TrackingStepIsStep == [TrackingNext]_allvars => [Next]_vars
  BY DEF TrackingNext, allvars, ReadOrderRow, ReadPaymentRow, submit_and_show,
     OtherRequest, WorkerStep, Next

LEMMA TrackingInvariance == TrackingSpec => []IInv
<1>1. TrackingInit => IInv
  BY CheckoutConstants, InitHolds DEF TrackingInit
<1>2. IInv /\ [TrackingNext]_allvars => IInv'
  BY CheckoutConstants, StepKeeps, TrackingStepIsStep
<1> QED BY <1>1, <1>2, PTL DEF TrackingSpec

(* The saga moves while the page stays.                                    *)
LEMMA PageStays ==
  ASSUME IInv, IInv', [Next]_vars, PageInv, UNCHANGED tracking
  PROVE  PageInv'
<1>1. /\ order' \in OrderAhead(order) /\ payment' \in PaymentAhead(payment)
      /\ approval = "APPROVED" => approval' = "APPROVED"
      /\ order' = "APPROVED" => order = "APPROVED" \/ approval = "APPROVED"
  BY RowsMoveAhead, ForGood, ApprovedByStore
<1>2. /\ page' = page /\ poll' = poll /\ error' = error
      /\ page.order \in OrderStatus /\ page.payment \in PaymentStatus
      /\ poll # None => poll \in OrderStatus
  BY DEF tracking, PageInv, Page
<1>3. /\ order \in OrderStatus /\ order' \in OrderStatus
      /\ payment \in PaymentStatus /\ payment' \in PaymentStatus
  BY DEF IInv, TypeOK
<1>4. /\ order' \in OrderAhead(page.order)
      /\ payment' \in PaymentAhead(page.payment)
      /\ poll # None => order' \in OrderAhead(poll)
  BY <1>1, <1>2, <1>3, AheadOfAhead DEF PageInv
<1>5. /\ error = "SERVER_ERROR" => payment' = "CANCELLED"
      /\ error = "VALIDATION_ERROR" => payment' \in PaymentAhead("SUBMITTED")
  BY <1>1, <1>3, AheadOfAhead DEF PageInv, PaymentAhead, PaymentStatus
<1> QED BY <1>1, <1>2, <1>4, <1>5 DEF PageInv, Coherent

(* What a poll shows when its second statement has run, unless an error.   *)
LEMMA PollShows ==
  ASSUME IInv, PageInv, ReadPaymentRow, error' = "NONE"
  PROVE  /\ page' = [order |-> poll, payment |-> payment]
         /\ page' \in Page /\ Coherent(page') /\ page'.payment # "SUBMITTED"
         /\ page'.order \in OrderAhead(page.order)
         /\ page'.payment \in PaymentAhead(page.payment)
<1> DEFINE rows == [order |-> poll, payment |-> payment]
<1>1. page' = rows /\ poll # None /\ Error(rows) = "NONE"
  BY DEF ReadPaymentRow
<1>2. order # "NONE" /\ payment \in PaymentStatus \ {"NONE"} /\ poll \in OrderStatus
  BY <1>1 DEF PageInv, OrderAhead, OrderStatus, IInv, TypeOK, Placed
<1>3. poll = "APPROVED" => payment = "CONFIRMED"
  BY <1>1, ApprovedIsPaid DEF PageInv
<1>4. payment \notin {"SUBMITTED", "FAILED"}
  BY <1>1 DEF Error, HashWithoutReceipt
<1>5. poll \in {"PENDING", "PAID"} => payment # "CANCELLED"
  BY <1>1, <1>4 DEF Error, HashWithoutReceipt, PaymentStep
<1> QED BY <1>1, <1>2, <1>3, <1>4, <1>5 DEF PageInv, Page, Coherent

(* When the answer is an error, the page stays, and the payment is why.    *)
LEMMA PollErrs ==
  ASSUME IInv, ReadPaymentRow, error' # "NONE"
  PROVE  /\ page' = page
         /\ error' = "SERVER_ERROR" => payment = "CANCELLED"
         /\ error' = "VALIDATION_ERROR" => payment \in {"SUBMITTED", "FAILED"}
<1> DEFINE rows == [order |-> poll, payment |-> payment]
<1>1. page' = page /\ error' = Error(rows) /\ poll # None
  BY DEF ReadPaymentRow
<1>2. error' = "VALIDATION_ERROR" => payment \in {"SUBMITTED", "FAILED"}
  BY <1>1 DEF Error, HashWithoutReceipt
<1>3. ASSUME error' = "SERVER_ERROR"
      PROVE  payment = "CANCELLED"
  <2>1. payment \in PaymentStatus
    BY DEF IInv, TypeOK
  <2>2. payment \notin DOMAIN PaymentStep
    BY <1>1, <1>3 DEF Error
  <2> QED BY <2>1, <2>2 DEF PaymentStep, PaymentStatus
<1> QED BY <1>1, <1>2, <1>3

LEMMA ReadsKeepPage ==
  ASSUME IInv, PageInv, ReadOrderRow \/ ReadPaymentRow
  PROVE  PageInv'
<1>1. CASE ReadOrderRow
  <2>1. /\ poll' = order /\ order # "NONE" /\ UNCHANGED <<vars, page, error>>
        /\ order \in OrderStatus
    BY <1>1 DEF ReadOrderRow, IInv, TypeOK
  <2>2. order \in OrderAhead(order)
    BY <2>1 DEF OrderAhead, OrderStatus
  <2> QED BY <2>1, <2>2 DEF PageInv, Coherent, vars
<1>2. CASE ReadPaymentRow
  <2>1. UNCHANGED vars /\ poll # None /\ poll' = None
    BY <1>2 DEF ReadPaymentRow
  <2>2. CASE error' = "NONE"
    <3>1. payment \in PaymentAhead(payment)
      BY PaymentSteps DEF IInv, TypeOK
    <3>2. page' \in Page /\ Coherent(page') /\ page'.order = poll
          /\ page'.payment = payment
      BY <1>2, <2>2, PollShows
    <3> QED BY <2>1, <2>2, <3>1, <3>2 DEF PageInv, Coherent, vars
  <2>3. CASE error' # "NONE"
    <3>1. /\ page' = page
          /\ error' = "SERVER_ERROR" => payment = "CANCELLED"
          /\ error' = "VALIDATION_ERROR" => payment \in PaymentAhead("SUBMITTED")
      BY <1>2, <2>3, PollErrs DEF PaymentAhead
    <3> QED BY <2>1, <3>1 DEF PageInv, Coherent, vars
  <2> QED BY <2>2, <2>3
<1> QED BY <1>1, <1>2

(* The page that asks for a signature is of an order that is not approved. *)
LEMMA SigningPage ==
  ASSUME NEW p \in Page, Coherent(p), pending_action(p) = "SIGN_PAYMENT"
  PROVE  p.payment = "AWAITING_SIGNATURE" /\ p.order \in {"PENDING", "PAID"}
<1>1. current_step(p) = "AWAITING_SIGNATURE"
  BY DEF pending_action
<1>2. p.order \in {"PENDING", "PAID"}
  BY <1>1 DEF current_step, Page, OrderStatus
<1>3. current_step(p) = PaymentStep[p.payment] /\ p.payment \in DOMAIN PaymentStep
  BY <1>2 DEF current_step, Coherent, Page, PaymentStatus, PaymentStep
<1>4. p.payment = "AWAITING_SIGNATURE"
  BY <1>1, <1>3 DEF PaymentStep
<1> QED BY <1>2, <1>4

LEMMA SubmitKeepsPage ==
  ASSUME IInv, IInv', PageInv, submit_and_show
  PROVE  PageInv'
<1>1. [Next]_vars /\ poll' = poll /\ poll = None
  BY DEF submit_and_show, Next
<1>2. CASE page' = page
  <2>1. /\ order' \in OrderAhead(order) /\ payment' \in PaymentAhead(payment)
        /\ order' = order /\ approval' = approval /\ error' = "NONE"
    BY <1>1, RowsMoveAhead DEF submit_and_show, submit_transaction_hash, PaymentMoves
  <2>2. /\ page.payment \in PaymentStatus
        /\ payment \in PaymentStatus /\ payment' \in PaymentStatus
    BY DEF PageInv, Page, IInv, TypeOK
  <2>3. payment' \in PaymentAhead(page.payment)
    BY <2>1, <2>2, AheadOfAhead DEF PageInv
  <2> QED BY <1>1, <1>2, <2>1, <2>3 DEF PageInv, Coherent
<1>3. CASE page' # page
  <2>1. /\ pending_action(page) = "SIGN_PAYMENT"
        /\ page' = [page EXCEPT !.payment = "SUBMITTED"]
        /\ payment' = "SUBMITTED" /\ UNCHANGED <<order, approval>>
        /\ error' = "NONE"
    BY <1>3 DEF submit_and_show, submit_transaction_hash, PaymentMoves
  <2>2. page.order \in {"PENDING", "PAID"}
    BY <2>1, SigningPage DEF PageInv
  <2>3. page' \in Page /\ page'.order = page.order /\ page'.payment = "SUBMITTED"
    BY <2>1 DEF PageInv, Page, PaymentStatus
  <2>4. payment' \in PaymentAhead("SUBMITTED")
    BY <2>1 DEF PaymentAhead
  <2> QED BY <1>1, <2>1, <2>2, <2>3, <2>4 DEF PageInv, Coherent
<1> QED BY <1>2, <1>3

LEMMA PageInvariance == TrackingSpec => []PageInv
<1>1. TrackingInit => PageInv
  BY DEF TrackingInit, Init, PageInv, NoPage, Page, Coherent, OrderAhead,
     PaymentAhead, OrderStatus, PaymentStatus
<1>2. IInv /\ IInv' /\ PageInv /\ [TrackingNext]_allvars => PageInv'
  <2> SUFFICES ASSUME IInv, IInv', PageInv, [TrackingNext]_allvars PROVE PageInv'
    OBVIOUS
  <2>1. CASE OtherRequest \/ WorkerStep \/ UNCHANGED allvars
    BY <2>1, PageStays, TrackingStepIsStep DEF OtherRequest, WorkerStep, allvars
  <2> QED BY <2>1, ReadsKeepPage, SubmitKeepsPage DEF TrackingNext
<1> QED BY <1>1, <1>2, TrackingInvariance, PTL DEF TrackingSpec

(* The step shown for each pair of rows.                                   *)
LEMMA StepShown ==
  ASSUME NEW p \in Page, Coherent(p)
  PROVE  /\ p.order = "NONE" => current_step(p) = "NO_PAGE"
         /\ p.order = "APPROVED" => current_step(p) = "ORDER_APPROVED"
         /\ p.order = "CANCELLED" => current_step(p) = "ORDER_CANCELLED"
         /\ p.order \in {"PENDING", "PAID"} =>
              /\ p.payment \in {"AWAITING_SIGNATURE", "SUBMITTED", "CONFIRMED",
                                "EXPIRED", "REFUNDED"}
              /\ p.payment = "AWAITING_SIGNATURE" => current_step(p) = "AWAITING_SIGNATURE"
              /\ p.payment = "SUBMITTED" => current_step(p) = "RECEIPT_PENDING"
              /\ p.payment = "CONFIRMED" => current_step(p) = "PAYMENT_CONFIRMED"
              /\ p.payment = "EXPIRED" => current_step(p) = "PAYMENT_EXPIRED"
              /\ p.payment = "REFUNDED" => current_step(p) = "PAYMENT_REFUNDED"
<1>1. CASE p.order \in {"NONE", "APPROVED", "CANCELLED"}
  BY <1>1 DEF current_step
<1>2. CASE p.order \in {"PENDING", "PAID"}
  <2>1. current_step(p) = PaymentStep[p.payment]
    BY <1>2 DEF current_step
  <2>2. p.payment \in {"AWAITING_SIGNATURE", "SUBMITTED", "CONFIRMED",
                       "EXPIRED", "REFUNDED"}
    BY <1>2 DEF Coherent, Page, PaymentStatus
  <2> QED BY <1>2, <2>1, <2>2 DEF PaymentStep
<1> QED BY <1>1, <1>2 DEF Page, OrderStatus

(* However old the page is, what it says of the outcome holds, and so does *)
(* what the last error says: current_step of CheckoutTrackingSnapshot, from*)
(* rows read at two moments, and the errors of reading them.               *)
THEOREM PagesTruthful == TrackingSpec => []PageIsTruthful
<1>1. IInv /\ PageInv => PageIsTruthful
  <2> SUFFICES ASSUME IInv, PageInv PROVE PageIsTruthful
    OBVIOUS
  <2>1. page \in Page /\ Coherent(page) /\ payment \in PaymentAhead(page.payment)
    BY DEF PageInv
  <2>2. current_step(page) = "ORDER_APPROVED" =>
          payment = "CONFIRMED" /\ approval = "APPROVED"
    <3>1. current_step(page) = "ORDER_APPROVED" => page.order = "APPROVED"
      BY <2>1, StepShown DEF Page, OrderStatus
    <3> QED BY <3>1, ApprovedIsPaid DEF PageInv
  <2>3. current_step(page) = "PAYMENT_CONFIRMED" =>
          payment \in {"CONFIRMED", "REFUNDED"}
    <3>1. current_step(page) = "PAYMENT_CONFIRMED" => page.payment = "CONFIRMED"
      BY <2>1, StepShown DEF Page, OrderStatus
    <3> QED BY <2>1, <3>1 DEF PaymentAhead
  <2>4. ASSUME \/ current_step(page) \in {"PAYMENT_EXPIRED", "PAYMENT_REFUNDED"}
               \/ error = "SERVER_ERROR"
        PROVE  \A l \in Lines : lines[l] # "CONFIRMED"
    <3>1. page.payment \in {"EXPIRED", "REFUNDED"} \/ error = "SERVER_ERROR"
      BY <2>1, <2>4, StepShown DEF Page, OrderStatus
    <3>2. payment # "CONFIRMED"
      BY <2>1, <3>1 DEF PageInv, PaymentAhead
    <3>3. \A l \in Lines : lines[l] = "CONFIRMED" => approval = "APPROVED"
      BY DEF IInv, Ledger
    <3> QED BY <3>2, <3>3, ApprovedIsPaid
  <2>5. error = "VALIDATION_ERROR" =>
          payment \in HashWithoutReceipt \cup {"CONFIRMED", "REFUNDED"}
    BY DEF PageInv, PaymentAhead, HashWithoutReceipt
  <2> QED BY <2>2, <2>3, <2>4, <2>5 DEF PageIsTruthful
<1> QED BY <1>1, TrackingInvariance, PageInvariance, PTL

(* From a page to a later one.                                             *)
LEMMA LaterPage ==
  ASSUME NEW p \in Page, NEW q \in Page, Coherent(p), Coherent(q),
         q.order \in OrderAhead(p.order), q.payment \in PaymentAhead(p.payment),
         q.payment = "SUBMITTED" => p.payment = "AWAITING_SIGNATURE"
  PROVE  current_step(q) \in {current_step(p)} \cup Later(current_step(p))
<1>1. /\ q.order \in OrderStatus /\ q.payment \in PaymentStatus
      /\ q.order = "APPROVED" => q.payment = "CONFIRMED"
  BY DEF Page, Coherent
<1>2. CASE p.order = "NONE"
  <2>1. p.payment = "NONE" /\ current_step(p) = "NO_PAGE"
    BY <1>2, StepShown DEF Coherent
  <2>2. current_step(q) \in Settling \cup {"AWAITING_SIGNATURE", "PAYMENT_EXPIRED",
                                          "NO_PAGE"}
    BY <1>1, <2>1, StepShown DEF OrderStatus, Settling
  <2> QED BY <2>1, <2>2 DEF Later
<1>3. CASE p.order \in {"APPROVED", "CANCELLED"}
  <2>1. q.order = p.order \/ (p.order = "APPROVED" /\ q.order = "CANCELLED")
    BY <1>3 DEF OrderAhead
  <2> QED BY <1>3, <2>1, StepShown DEF Later
<1>4. CASE p.order \in {"PENDING", "PAID"} /\ q.order = "CANCELLED"
  <2>1. current_step(q) = "ORDER_CANCELLED"
    BY <1>4, StepShown
  <2>2. current_step(p) \in {"AWAITING_SIGNATURE", "RECEIPT_PENDING",
          "PAYMENT_CONFIRMED", "PAYMENT_EXPIRED", "PAYMENT_REFUNDED"}
    BY <1>4, StepShown
  <2> QED BY <2>1, <2>2 DEF Later, Settling
<1>5. CASE p.order \in {"PENDING", "PAID"} /\ q.order = "APPROVED"
  <2>1. current_step(q) = "ORDER_APPROVED" /\ q.payment = "CONFIRMED"
    BY <1>1, <1>5, StepShown
  <2>2. p.payment \in {"AWAITING_SIGNATURE", "SUBMITTED", "CONFIRMED"}
    BY <1>5, <2>1, StepShown DEF PaymentAhead
  <2>3. current_step(p) \in {"AWAITING_SIGNATURE", "RECEIPT_PENDING",
                             "PAYMENT_CONFIRMED"}
    BY <1>5, <2>2, StepShown
  <2> QED BY <2>1, <2>3 DEF Later, Settling
<1>6. CASE p.order \in {"PENDING", "PAID"} /\ q.order \in {"PENDING", "PAID"}
  <2>1. /\ p.payment \in {"AWAITING_SIGNATURE", "SUBMITTED", "CONFIRMED",
                          "EXPIRED", "REFUNDED"}
        /\ q.payment \in {"AWAITING_SIGNATURE", "SUBMITTED", "CONFIRMED",
                          "EXPIRED", "REFUNDED"}
    BY <1>6, StepShown
  <2>2. CASE p.payment = q.payment
    <3>1. current_step(q) = current_step(p)
      BY <1>6, <2>1, <2>2, StepShown
    <3> QED BY <3>1
  <2>3. CASE p.payment = "AWAITING_SIGNATURE"
    <3>1. current_step(p) = "AWAITING_SIGNATURE"
      BY <1>6, <2>3, StepShown
    <3>2. current_step(q) \in Settling \cup {"RECEIPT_PENDING", "PAYMENT_EXPIRED",
                                            "AWAITING_SIGNATURE"}
      BY <1>6, <2>1, StepShown DEF Settling
    <3> QED BY <3>1, <3>2 DEF Later
  <2>4. CASE p.payment \in {"SUBMITTED", "CONFIRMED"} /\ p.payment # q.payment
    <3>1. q.payment \in {"CONFIRMED", "REFUNDED"}
      BY <2>1, <2>4 DEF PaymentAhead
    <3>2. /\ current_step(p) \in {"RECEIPT_PENDING", "PAYMENT_CONFIRMED"}
          /\ current_step(q) \in {"PAYMENT_CONFIRMED", "PAYMENT_REFUNDED"}
      BY <1>6, <2>4, <3>1, StepShown
    <3> QED BY <3>2 DEF Later, Settling
  <2>5. p.payment \in {"EXPIRED", "REFUNDED"} => p.payment = q.payment
    BY DEF PaymentAhead
  <2> QED BY <2>1, <2>2, <2>3, <2>4, <2>5
<1> QED BY <1>1, <1>2, <1>3, <1>4, <1>5, <1>6 DEF Page, OrderStatus, OrderAhead

(* The step shown never goes back, from poll to poll and when the hash is  *)
(* sent, whatever errors come between: order and payment are read by two   *)
(* statements of each poll, and an error leaves the page as it is.         *)
THEOREM ShownStepsForward == TrackingSpec => StepsMoveForward
<1>1. IInv /\ PageInv /\ [TrackingNext]_allvars =>
        [current_step(page') \in
           {current_step(page)} \cup Later(current_step(page))]_page
  <2> SUFFICES ASSUME IInv, PageInv, TrackingNext, page' # page
               PROVE  current_step(page') \in
                        {current_step(page)} \cup Later(current_step(page))
    BY DEF allvars, tracking
  <2>1. page \in Page /\ Coherent(page)
    BY DEF PageInv
  <2>2. CASE ReadPaymentRow
    <3>1. error' = "NONE"
      BY <2>2, PollErrs
    <3>2. /\ page' \in Page /\ Coherent(page') /\ page'.payment # "SUBMITTED"
          /\ page'.order \in OrderAhead(page.order)
          /\ page'.payment \in PaymentAhead(page.payment)
      BY <2>2, <3>1, PollShows
    <3> QED BY <2>1, <3>2, LaterPage
  <2>3. CASE submit_and_show
    <3>1. /\ pending_action(page) = "SIGN_PAYMENT"
          /\ page' = [page EXCEPT !.payment = "SUBMITTED"]
      BY <2>3 DEF submit_and_show
    <3>2. /\ page.payment = "AWAITING_SIGNATURE"
          /\ page.order \in {"PENDING", "PAID"}
      BY <2>1, <3>1, SigningPage
    <3>3. /\ page' \in Page /\ Coherent(page')
          /\ page'.order \in OrderAhead(page.order)
          /\ page'.payment \in PaymentAhead(page.payment)
      BY <2>1, <3>1, <3>2 DEF Page, Coherent, OrderAhead, PaymentAhead, PaymentStatus
    <3> QED BY <2>1, <3>2, <3>3, LaterPage
  <2>4. CASE ReadOrderRow \/ OtherRequest \/ WorkerStep
    BY <2>4 DEF ReadOrderRow, OtherRequest, WorkerStep, tracking
  <2> QED BY <2>2, <2>3, <2>4 DEF TrackingNext
<1> QED BY <1>1, TrackingInvariance, PageInvariance, PTL DEF TrackingSpec,
       StepsMoveForward
=============================================================================
