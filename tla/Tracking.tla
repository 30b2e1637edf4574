------------------------------ MODULE Tracking ------------------------------
(***************************************************************************)
(* What the customer of a checkout is shown while the saga runs: the       *)
(* tracking query reads the order row and then the payment row, each by a  *)
(* statement of its own (READ COMMITTED), and CheckoutTrackingSnapshot     *)
(* derives status, current step and pending action from the two.  When a   *)
(* row cannot be read or has no step, the answer is an error, and the      *)
(* customer keeps the page of the last answer that had one.                *)
(*                                                                         *)
(* The API process serves one request at a time, so a poll overlaps the    *)
(* worker's transactions and no other request.                             *)
(***************************************************************************)
EXTENDS CheckoutSaga

VARIABLES
  poll,  \* the order's status as the poll's first statement read it, or None
  page,  \* the rows behind the last page the customer got, "NONE" before one
  error  \* the error the customer's last request was answered with, or "NONE"

tracking == <<poll, page, error>>
allvars == <<vars, tracking>>

NoPage == [order |-> "NONE", payment |-> "NONE"]

CheckoutCurrentStep ==
  {"ORDER_CREATED", "AWAITING_SIGNATURE", "RECEIPT_PENDING",
   "PAYMENT_CONFIRMED", "PAYMENT_FAILED", "PAYMENT_EXPIRED",
   "PAYMENT_REFUNDED", "ORDER_APPROVED", "ORDER_CANCELLED"}

(* The steps of a payment; CANCELLED has none.                             *)
PaymentStep ==
  [NONE      |-> "ORDER_CREATED",
   AWAITING_SIGNATURE |-> "AWAITING_SIGNATURE",
   SUBMITTED |-> "RECEIPT_PENDING",
   CONFIRMED |-> "PAYMENT_CONFIRMED",
   FAILED    |-> "PAYMENT_FAILED",
   EXPIRED   |-> "PAYMENT_EXPIRED",
   REFUNDED  |-> "PAYMENT_REFUNDED"]

(* A payment row with a hash needs a receipt to be read: the mapping of a  *)
(* submitted one, and of one that failed since, raises ValueError whatever *)
(* the order is.  A payment without a step raises KeyError, when the order *)
(* does not say the step.                                                  *)
HashWithoutReceipt == {"SUBMITTED", "FAILED"}

Error(p) ==
  CASE p.payment \in HashWithoutReceipt -> "VALIDATION_ERROR"
    [] p.order \in {"PENDING", "PAID"} /\ p.payment \notin DOMAIN PaymentStep
                                        -> "SERVER_ERROR"
    [] OTHER                            -> "NONE"

current_step(p) ==
  CASE p.order = "APPROVED"  -> "ORDER_APPROVED"
    [] p.order = "CANCELLED" -> "ORDER_CANCELLED"
    [] p.order = "NONE"      -> "NO_PAGE"
    [] OTHER                 -> PaymentStep[p.payment]

status(p) == IF p.order = "PENDING" THEN p.payment ELSE p.order

pending_action(p) ==
  CASE current_step(p) = "ORDER_CREATED"      -> "WAIT_FOR_PAYMENT_REQUEST"
    [] current_step(p) = "AWAITING_SIGNATURE" -> "SIGN_PAYMENT"
    [] current_step(p) = "RECEIPT_PENDING"    -> "WAIT_FOR_RECEIPT"
    [] current_step(p) = "PAYMENT_CONFIRMED" \/ p.order = "PAID"
                                              -> "WAIT_FOR_STORE_APPROVAL"
    [] current_step(p) \in {"PAYMENT_FAILED", "PAYMENT_EXPIRED"}
                                              -> "WAIT_FOR_COMPENSATION"
    [] OTHER                                  -> "NONE"

TrackingInit ==
  /\ Init
  /\ poll = None
  /\ page = NoPage
  /\ error = "NONE"

-----------------------------------------------------------------------------
ReadOrderRowOnce == \* mutant: the order's row is cached by the first poll
  /\ poll = None
  /\ order # "NONE"
  /\ poll' = IF page = NoPage THEN order ELSE page.order
  /\ UNCHANGED <<vars, page, error>>

(* get_by_order_id and get_by_tracking_id: the first statement.            *)
ReadOrderRow ==
  /\ poll = None
  /\ order # "NONE"
  /\ poll' = order
  /\ UNCHANGED <<vars, page, error>>

(* The payment's row, and the answer: a page or an error.                  *)
ReadPaymentRow ==
  LET rows == [order |-> poll, payment |-> payment] IN
  /\ poll # None
  /\ error' = Error(rows)
  /\ page' = IF error' = "NONE" THEN rows ELSE page
  /\ poll' = None
  /\ UNCHANGED vars

(* The customer sends the hash; the answer names the step that follows on  *)
(* the page that asked for the signature.                                  *)
submit_and_show ==
  /\ poll = None
  /\ submit_transaction_hash
  /\ page' = IF pending_action(page) = "SIGN_PAYMENT"
             THEN [page EXCEPT !.payment = "SUBMITTED"]
             ELSE page
  /\ error' = "NONE"
  /\ UNCHANGED poll

OtherRequest ==
  /\ poll = None
  /\ createOrder \/ cancel_payment \/ operator_cancel_order
  /\ UNCHANGED tracking

WorkerStep ==
  /\ \/ expire_awaiting_signature
     \/ confirm_payment_receipt
     \/ \E c \in Consumers : Consume(c)
     \/ \E c \in Consumers, m \in messages : Lose(c, m) \/ Redeliver(c, m)
  /\ UNCHANGED tracking

TrackingNext ==
  \/ ReadOrderRow \/ ReadPaymentRow \/ submit_and_show
  \/ OtherRequest \/ WorkerStep

TrackingSpec == TrackingInit /\ [][TrackingNext]_allvars

(* The saga's fairness, and a customer who polls until the page is final,  *)
(* errors or not.                                                          *)
Final(p) == status(p) \in {"APPROVED", "CANCELLED"}

Polling ==
  /\ WF_allvars(~ Final(page) /\ ReadOrderRow)
  /\ WF_allvars(ReadPaymentRow)

FairTracking == TrackingSpec /\ Fairness /\ Polling

-----------------------------------------------------------------------------
(* However old the page is, what it says of the outcome holds: an approved *)
(* order is paid for and its money not given back; a page that speaks of a *)
(* confirmed payment is of one that was received; one that speaks of an    *)
(* expired or returned payment, and the error of a cancelled one, are not  *)
(* of an order whose stock is sold.  The error for a row without a receipt *)
(* is only for a payment whose hash was sent.                              *)
PageIsTruthful ==
  /\ current_step(page) = "ORDER_APPROVED" =>
       payment = "CONFIRMED" /\ approval = "APPROVED"
  /\ current_step(page) = "PAYMENT_CONFIRMED" =>
       payment \in {"CONFIRMED", "REFUNDED"}
  /\ \/ current_step(page) \in {"PAYMENT_EXPIRED", "PAYMENT_REFUNDED"}
     \/ error = "SERVER_ERROR"
     => \A l \in Lines : lines[l] # "CONFIRMED"
  /\ error = "VALIDATION_ERROR" =>
       payment \in HashWithoutReceipt \cup {"CONFIRMED", "REFUNDED"}

(* The step the customer is shown never goes back, although the two rows   *)
(* of a page are read at two moments of the saga, and whatever errors come *)
(* between two pages.  No poll shows RECEIPT_PENDING, which only the answer*)
(* to the submission does, and none shows PAYMENT_FAILED.                  *)
Settling ==
  {"PAYMENT_CONFIRMED", "PAYMENT_REFUNDED", "ORDER_APPROVED", "ORDER_CANCELLED"}

Later(s) ==
  CASE s = "NO_PAGE" -> Settling \cup {"AWAITING_SIGNATURE", "PAYMENT_EXPIRED"}
    [] s = "AWAITING_SIGNATURE" ->
         Settling \cup {"RECEIPT_PENDING", "PAYMENT_EXPIRED"}
    [] s \in {"RECEIPT_PENDING", "PAYMENT_CONFIRMED"} -> Settling
    [] s \in {"PAYMENT_EXPIRED", "PAYMENT_REFUNDED", "ORDER_APPROVED"} ->
         {"ORDER_CANCELLED"}
    [] OTHER -> {}

StepsMoveForward ==
  [][current_step(page') \in {current_step(page)} \cup Later(current_step(page))]_page

(* Whoever polls gets the final page of an order that is final, and after  *)
(* the error of a cancelled payment the cancelled order, unless the payment*)
(* failed: its row is never readable again, and every poll is an error.    *)
PagesRecover ==
  error = "SERVER_ERROR" \/ order \in {"APPROVED", "CANCELLED"}
    ~> Final(page) \/ payment = "FAILED"
=============================================================================
