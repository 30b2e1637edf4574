------------------------------ MODULE Payment ------------------------------
(***************************************************************************)
(* The payment of one order: the Payment and PaymentAuthorization rows of  *)
(* contexts/payment and the transactions of PaymentCommandHandler.         *)
(*                                                                         *)
(* A command is one transaction: it looks up processed_commands, reads the *)
(* rows with a plain SELECT (no FOR UPDATE), may call the blockchain node, *)
(* and writes whole rows back with an unconditional upsert.  Nothing ties  *)
(* the write to the row as it is by then, so the last writer wins.  Save   *)
(* and COMMIT are one step here: nobody reads in between, and a second     *)
(* writer waits for the first one's row lock and then overwrites.          *)
(***************************************************************************)
EXTENDS Integers

CONSTANTS
  Api,         \* API server processes: each serves one request at a time
  Workers,     \* worker processes: Kafka, receipt polling, timeouts in turn
  Hashes,      \* transaction hashes a customer may submit
  Keys,        \* command ids of submissions (Idempotency-Keys or fallback)
  MaxRefunds,  \* bound on the refund transactions sent
  None

ASSUME PaymentConstants ==
  /\ MaxRefunds \in Nat
  /\ None \notin Hashes
  /\ Keys \cap {"Initiate", "Expire", "Refund", "None"} = {}

Processes == Api \cup Workers

PaymentStatus ==
  {"NONE", "AWAITING_SIGNATURE", "SUBMITTED", "CONFIRMING", "CONFIRMED",
   "FAILED", "EXPIRED", "CANCELLED", "REFUNDED"}

Final == {"CONFIRMED", "FAILED", "EXPIRED", "CANCELLED", "REFUNDED"}

(* receipt: the transaction whose receipt is stored; refunded: is there a  *)
(* refund receipt?                                                         *)
PaymentRow == [status: PaymentStatus, tx: Hashes \cup {None},
               receipt: Hashes \cup {None}, refunded: BOOLEAN]

AuthorizationRow == [status: {"REQUESTED", "AUTHORIZED", "EXPIRED"},
                     tx: Hashes \cup {None}]

(* late: the command's timestamp is past expires_at.                       *)
Command ==
  [op: {"initiate", "submit", "receipt", "cancel", "timeout", "refund"},
   id: Keys \cup {"Initiate", "Expire", "Refund", "None"},
   hash: Hashes \cup {None}, late: BOOLEAN]

EventNames ==
  {"PaymentProcessingStartedEvent", "PaymentConfirmedEvent",
   "PaymentFailedEvent", "PaymentExpiredEvent", "PaymentRefundedEvent"}

(* No receipt; the expected ERC-20 transfer; reverted or another transfer. *)
Answers == {"unknown", "transfer", "mismatch"}

Steps == {"idle", "check", "load", "loadAuth", "ask", "run"}

VARIABLES
  payment,        \* the committed row of payments
  authorization,  \* the committed row of payment_authorizations
  processed,      \* committed processed_commands
  events,         \* committed outbox events, with the hash they report
  expired,        \* has expires_at passed?
  chain,          \* what the blockchain says of every hash
  refunds,        \* refund transactions sent to the chain
  overlap,        \* history: have two transactions ever overlapped?
  pc, cmd,        \* where every process is, and with which command
  seen,           \* the payment row as it read it
  seenAuth,       \* the authorization row as it read it
  answer          \* what the node answered

rows   == <<payment, authorization, processed, events>>
world  == <<expired, chain, refunds, overlap>>
locals == <<pc, cmd, seen, seenAuth, answer>>
vars   == <<payment, authorization, processed, events, expired, chain,
            refunds, overlap, pc, cmd, seen, seenAuth, answer>>

NoPayment == [status |-> "NONE", tx |-> None, receipt |-> None,
              refunded |-> FALSE]
InitiatedPayment == [NoPayment EXCEPT !.status = "INITIATED"] \* mutant
NewPayment == [NoPayment EXCEPT !.status = "AWAITING_SIGNATURE"]
NewAuthorization == [status |-> "REQUESTED", tx |-> None]

-----------------------------------------------------------------------------
(* The aggregates.  X_ok is the condition under which X raises no          *)
(* ValueError; a payment in a final status mostly returns itself.          *)

submit_tx_hash_ok(p, h) ==
  \/ p.status = "SUBMITTED" /\ p.tx = h
  \/ p.status \in Final \cup {"AWAITING_SIGNATURE"}

submit_revives(p, h) == \* mutant: a final payment is submitted again
  [p EXCEPT !.status = "SUBMITTED", !.tx = h]

submit_tx_hash(p, h) ==
  IF p.status = "AWAITING_SIGNATURE"
  THEN [p EXCEPT !.status = "SUBMITTED", !.tx = h] ELSE p

authorize_tx_hash_ok(a, h, late) ==
  \/ a.status = "AUTHORIZED" /\ a.tx = h
  \/ a.status = "EXPIRED"
  \/ a.status = "REQUESTED" /\ ~ late

authorize_tx_hash(a, h) ==
  IF a.status = "REQUESTED" THEN [status |-> "AUTHORIZED", tx |-> h] ELSE a

mark_confirming_ok(p) == p.status \notin {"NONE", "AWAITING_SIGNATURE", "CANCELLED"}

mark_confirming(p) ==
  IF p.status = "SUBMITTED" THEN [p EXCEPT !.status = "CONFIRMING"] ELSE p

(* With record_confirmed, which raises unless the payment is CONFIRMED.    *)
confirm_payment_ok(p) == p.status \in {"SUBMITTED", "CONFIRMING", "CONFIRMED"}

confirm_without_receipt(p) == [p EXCEPT !.status = "CONFIRMED"] \* mutant

confirm_payment(p) == [p EXCEPT !.status = "CONFIRMED", !.receipt = p.tx]

(* With record_failed, which raises unless the payment is FAILED.          *)
fail_payment_ok(p) == p.status \notin Final \ {"FAILED"}

fail_payment(p) == [p EXCEPT !.status = "FAILED"]

(* With record_expired, which raises unless EXPIRED or CANCELLED.          *)
expire_unguarded_ok(p, force, late) == force \/ late \* mutant

expire_awaiting_signature_ok(p, force, late) ==
  \/ p.status \in {"EXPIRED", "CANCELLED"}
  \/ p.status = "AWAITING_SIGNATURE" /\ (force \/ late)

expire_awaiting_signature(p, force) ==
  IF p.status \in {"EXPIRED", "CANCELLED"} THEN p
  ELSE [p EXCEPT !.status = IF force THEN "CANCELLED" ELSE "EXPIRED"]

expire_authorization(a) ==
  IF a.status = "REQUESTED" THEN [a EXCEPT !.status = "EXPIRED"] ELSE a

(* A REFUNDED payment has another refund receipt already; FAILED and       *)
(* EXPIRED ones return themselves, and record_refunded raises.             *)
refund_payment_ok(p) == p.status = "CONFIRMED"

refund_payment(p) == [p EXCEPT !.status = "REFUNDED", !.refunded = TRUE]

-----------------------------------------------------------------------------
Request(op, id, h, late) == [op |-> op, id |-> id, hash |-> h, late |-> late]

NoCommand == Request("initiate", "Initiate", None, FALSE)

Init ==
  /\ payment = NoPayment
  /\ authorization = NewAuthorization
  /\ processed = {}
  /\ events = {}
  /\ expired = FALSE
  /\ chain = [h \in Hashes |-> "unknown"]
  /\ refunds = 0
  /\ overlap = FALSE
  /\ pc = [t \in Processes |-> "idle"]
  /\ cmd = [t \in Processes |-> NoCommand]
  /\ seen = [t \in Processes |-> NoPayment]
  /\ seenAuth = [t \in Processes |-> NewAuthorization]
  /\ answer = [t \in Processes |-> "unknown"]

(* The environment.  A hash is mined as the expected transfer, or reverted *)
(* or mined as something else, or stays unknown.                           *)
Tick ==
  /\ ~ expired
  /\ expired' = TRUE
  /\ UNCHANGED <<rows, chain, refunds, overlap, locals>>

Mine(h) ==
  /\ chain[h] = "unknown"
  /\ \E outcome \in {"transfer", "mismatch"} :
       chain' = [chain EXCEPT ![h] = outcome]
  /\ UNCHANGED <<rows, expired, refunds, overlap, locals>>

(* The commands that may reach a process now.                              *)
(* Timeout candidates are AWAITING_SIGNATURE rows past expires_at; receipt *)
(* candidates are SUBMITTED and CONFIRMING rows, and their command ids are *)
(* new in every poll.                                                      *)
Timeouts ==
  IF expired /\ payment.status = "AWAITING_SIGNATURE"
  THEN {Request("timeout", "Expire", None, TRUE)} ELSE {}

OnlySubmittedPolls == \* mutant: CONFIRMING payments are not polled again
  IF payment.status = "SUBMITTED"
  THEN {Request("receipt", "None", None, expired)} ELSE {}

ReceiptPolls ==
  IF payment.status \in {"SUBMITTED", "CONFIRMING"}
  THEN {Request("receipt", "None", None, expired)} ELSE {}

(* createOrder initiates the payment once.  Other requests name a tracking *)
(* id, which is resolved first, by the query that answers a poll: it cannot*)
(* read a payment that has a hash and no receipt, and the request fails.   *)
Resolvable(p) == p.tx # None => p.receipt # None

ApiRequests ==
  IF payment.status = "NONE"
  THEN {Request("initiate", "Initiate", None, FALSE)}
  ELSE IF Resolvable(payment)
  THEN {Request("submit", k, h, expired) : k \in Keys, h \in Hashes}
         \cup {Request("cancel", "Expire", None, expired)}
  ELSE {}

(* Kafka may deliver a command any number of times: InitiatePaymentCommand *)
(* after InventoryReservedEvent, which createOrder commits as well, and    *)
(* RefundPaymentCommand for an order that was paid and then rejected.      *)
KafkaDeliveries ==
  (IF payment.status # "NONE"
   THEN {Request("initiate", "Initiate", None, FALSE)} ELSE {})
  \cup (IF \E h \in Hashes : <<"PaymentConfirmedEvent", h>> \in events
        THEN {Request("refund", "Refund", None, FALSE)} ELSE {})

Begin(t, commands) ==
  /\ pc[t] = "idle"
  /\ \E c \in commands : cmd' = [cmd EXCEPT ![t] = c]
  /\ pc' = [pc EXCEPT ![t] = "check"]
  /\ overlap' = (overlap \/ \E u \in Processes : pc[u] # "idle")
  /\ UNCHANGED <<rows, expired, chain, refunds, seen, seenAuth, answer>>

BeginRequest(t)  == t \in Api /\ Begin(t, ApiRequests)
BeginDelivery(t) == t \in Workers /\ Begin(t, KafkaDeliveries)
BeginPoll(t)     == t \in Workers /\ Begin(t, ReceiptPolls)
BeginTimeout(t)  == t \in Workers /\ Begin(t, Timeouts)

-----------------------------------------------------------------------------
(* A transaction reads.                                                    *)

End(t) ==
  /\ pc' = [pc EXCEPT ![t] = "idle"]
  /\ cmd' = [cmd EXCEPT ![t] = NoCommand]
  /\ seen' = [seen EXCEPT ![t] = NoPayment]
  /\ seenAuth' = [seenAuth EXCEPT ![t] = NewAuthorization]
  /\ answer' = [answer EXCEPT ![t] = "unknown"]

Duplicate(t) ==
  /\ pc[t] = "check"
  /\ cmd[t].id \in processed
  /\ End(t)
  /\ UNCHANGED <<rows, world>>

NotDuplicate(t) ==
  /\ pc[t] = "check"
  /\ cmd[t].id \notin processed
  /\ pc' = [pc EXCEPT ![t] = IF cmd[t].op = "initiate" THEN "run" ELSE "load"]
  /\ UNCHANGED <<rows, world, cmd, seen, seenAuth, answer>>

AsksTheNode == {"receipt", "refund"}

LoadPayment(t) ==
  /\ pc[t] = "load"
  /\ seen' = [seen EXCEPT ![t] = payment]
  /\ pc' = [pc EXCEPT ![t] =
              IF cmd[t].op \in AsksTheNode THEN "ask" ELSE "loadAuth"]
  /\ UNCHANGED <<rows, world, cmd, seenAuth, answer>>

LoadAuthorization(t) ==
  /\ pc[t] = "loadAuth"
  /\ seenAuth' = [seenAuth EXCEPT ![t] = authorization]
  /\ pc' = [pc EXCEPT ![t] = "run"]
  /\ UNCHANGED <<rows, world, cmd, seen, answer>>

(* eth_getTransactionReceipt of the hash that was loaded.                  *)
AskReceipt(t) ==
  /\ pc[t] = "ask"
  /\ cmd[t].op = "receipt"
  /\ seen[t].tx # None
  /\ answer' = [answer EXCEPT ![t] = chain[seen[t].tx]]
  /\ pc' = [pc EXCEPT ![t] = "run"]
  /\ UNCHANGED <<rows, world, cmd, seen, seenAuth>>

(* eth_sendTransaction of the refund, before the payment's status is       *)
(* looked at; its receipt may not be there yet, which raises.              *)
SendRefund(t) ==
  /\ pc[t] = "ask"
  /\ cmd[t].op = "refund"
  /\ seen[t].tx # None
  /\ refunds < MaxRefunds
  /\ refunds' = refunds + 1
  /\ \/ /\ pc' = [pc EXCEPT ![t] = "run"]
        /\ UNCHANGED <<cmd, seen, seenAuth, answer>>
     \/ End(t)
  /\ UNCHANGED <<rows, expired, chain, overlap>>

-----------------------------------------------------------------------------
(* A transaction writes.                                                   *)

Save(t, p, a, e) ==
  /\ payment' = p
  /\ authorization' = a
  /\ events' = events \cup e
  /\ processed' = processed \cup ({cmd[t].id} \ {"None"})
  /\ End(t)
  /\ UNCHANGED world

Running(t, op) == pc[t] = "run" /\ cmd[t].op = op

initiate_payment(t) ==
  /\ Running(t, "initiate")
  /\ Save(t, NewPayment, NewAuthorization,
          {<<"PaymentProcessingStartedEvent", None>>})

SubmitUnauthorized(t) == \* mutant: the authorization's refusal is ignored
  LET h == cmd[t].hash IN
  /\ Running(t, "submit")
  /\ submit_tx_hash_ok(seen[t], h)
  /\ Save(t, submit_tx_hash(seen[t], h),
          IF authorize_tx_hash_ok(seenAuth[t], h, cmd[t].late)
          THEN authorize_tx_hash(seenAuth[t], h) ELSE seenAuth[t], {})

submit_transaction_hash(t) ==
  LET h == cmd[t].hash IN
  /\ Running(t, "submit")
  /\ submit_tx_hash_ok(seen[t], h)
  /\ authorize_tx_hash_ok(seenAuth[t], h, cmd[t].late)
  /\ Save(t, submit_tx_hash(seen[t], h), authorize_tx_hash(seenAuth[t], h), {})

(* The receipt handler does not touch the authorization row.               *)
no_receipt_yet(t) ==
  /\ Running(t, "receipt")
  /\ answer[t] = "unknown"
  /\ mark_confirming_ok(seen[t])
  /\ Save(t, mark_confirming(seen[t]), authorization, {})

confirm_unverified(t) == \* mutant: the receipt is not verified
  /\ Running(t, "receipt")
  /\ answer[t] # "unknown"
  /\ confirm_payment_ok(seen[t])
  /\ Save(t, confirm_payment(seen[t]), authorization,
          {<<"PaymentConfirmedEvent", seen[t].tx>>})

receipt_confirms(t) ==
  /\ Running(t, "receipt")
  /\ answer[t] = "transfer"
  /\ confirm_payment_ok(seen[t])
  /\ Save(t, confirm_payment(seen[t]), authorization,
          {<<"PaymentConfirmedEvent", seen[t].tx>>})

receipt_mismatch(t) ==
  /\ Running(t, "receipt")
  /\ answer[t] = "mismatch"
  /\ fail_payment_ok(seen[t])
  /\ Save(t, fail_payment(seen[t]), authorization,
          {<<"PaymentFailedEvent", seen[t].tx>>})

expire_signature_request(t) ==
  LET force == cmd[t].op = "cancel" IN
  /\ pc[t] = "run"
  /\ cmd[t].op \in {"cancel", "timeout"}
  /\ expire_awaiting_signature_ok(seen[t], force, cmd[t].late)
  /\ Save(t, expire_awaiting_signature(seen[t], force),
          expire_authorization(seenAuth[t]), {<<"PaymentExpiredEvent", None>>})

(* The receipt of the refund sent by this transaction.                     *)
refund(t) ==
  /\ Running(t, "refund")
  /\ refund_payment_ok(seen[t])
  /\ Save(t, refund_payment(seen[t]), authorization,
          {<<"PaymentRefundedEvent", None>>})

(* A ValueError of the domain, a node that does not answer, a crash, a     *)
(* lost connection: the transaction is rolled back.  What was sent to the  *)
(* chain stays sent.                                                       *)
Rollback(t) ==
  /\ pc[t] # "idle"
  /\ End(t)
  /\ UNCHANGED <<rows, world>>

Write(t) ==
  \/ initiate_payment(t) \/ submit_transaction_hash(t) \/ no_receipt_yet(t)
  \/ receipt_confirms(t) \/ receipt_mismatch(t)
  \/ expire_signature_request(t) \/ refund(t)

Read(t) ==
  \/ Duplicate(t) \/ NotDuplicate(t) \/ LoadPayment(t) \/ LoadAuthorization(t)
  \/ AskReceipt(t)

Next ==
  \/ Tick
  \/ \E h \in Hashes : Mine(h)
  \/ \E t \in Processes :
       \/ BeginRequest(t) \/ BeginDelivery(t) \/ BeginPoll(t)
       \/ BeginTimeout(t) \/ Read(t) \/ SendRefund(t) \/ Write(t)
       \/ Rollback(t)

Spec == Init /\ [][Next]_vars

(* Time passes and submitted transactions are mined some day.  Processes   *)
(* finish what they began.  WorkerRuntime.run_once runs all workers in     *)
(* turn, so polling and timeouts come round again and again, and failures  *)
(* do not stop every attempt at the same step.                             *)
Attempt(t) == cmd[t].op \in {"receipt", "timeout"}

Fairness ==
  /\ WF_vars(Tick)
  /\ \A h \in Hashes : WF_vars(Mine(h))
  /\ \A t \in Processes :
       WF_vars(Read(t) \/ SendRefund(t) \/ Write(t) \/ Rollback(t))
  /\ \A t \in Workers :
       /\ SF_vars(BeginPoll(t) \/ BeginTimeout(t))
       /\ SF_vars(Attempt(t) /\ NotDuplicate(t))
       /\ SF_vars(Attempt(t) /\ LoadPayment(t))
       /\ SF_vars(Attempt(t) /\ (LoadAuthorization(t) \/ AskReceipt(t)))
       /\ SF_vars(Attempt(t) /\ Write(t))

FairSpec == Spec /\ Fairness

-----------------------------------------------------------------------------
(* Types of all variables.                                                 *)
TypeOK ==
  /\ payment \in PaymentRow
  /\ authorization \in AuthorizationRow
  /\ processed \subseteq Keys \cup {"Initiate", "Expire", "Refund"}
  /\ events \subseteq EventNames \X (Hashes \cup {None})
  /\ expired \in BOOLEAN
  /\ chain \in [Hashes -> Answers]
  /\ refunds \in 0 .. MaxRefunds
  /\ overlap \in BOOLEAN
  /\ pc \in [Processes -> Steps]
  /\ cmd \in [Processes -> Command]
  /\ seen \in [Processes -> PaymentRow]
  /\ seenAuth \in [Processes -> AuthorizationRow]
  /\ answer \in [Processes -> Answers]

(* Payment.__post_init__ accepts a row: _validate_status_shape would raise *)
(* on any other one, and every later command on the payment with it.       *)
PaymentShape(p) ==
  /\ p.tx # None => p.status \notin {"NONE", "AWAITING_SIGNATURE"}
  /\ p.receipt # None /\ p.tx # None => p.receipt = p.tx
  /\ p.status \in {"SUBMITTED", "CONFIRMING", "CONFIRMED"} => p.tx # None
  /\ p.status \in {"CONFIRMED", "REFUNDED"} => p.receipt # None
  /\ p.status = "REFUNDED" => p.refunded

AuthorizationShape(a) ==
  /\ a.status = "REQUESTED"  => a.tx = None
  /\ a.status = "AUTHORIZED" => a.tx # None

(* However the transactions of both processes interleave and overwrite     *)
(* each other, the committed rows can be loaded.                           *)
PaymentLoadable ==
  /\ PaymentShape(payment)
  /\ AuthorizationShape(authorization)

(* The outcome that the outbox tells the checkout is the blockchain's: no  *)
(* PaymentConfirmedEvent without the expected transfer, and none that says *)
(* failed of a transfer that was made.                                     *)
ReportedOutcomeIsOnChain ==
  \A h \in Hashes \cup {None} :
    /\ <<"PaymentConfirmedEvent", h>> \in events =>
         h \in Hashes /\ chain[h] = "transfer"
    /\ <<"PaymentFailedEvent", h>> \in events =>
         h \in Hashes /\ chain[h] = "mismatch"

(* As long as transactions follow one another, whichever process runs them *)
(* and however often each is repeated or rolled back:                      *)

(* not two of confirmed, failed and expired are reported.  The process     *)
(* manager would both ask the store for its approval and compensate;       *)
OneOutcome ==
  ~ overlap =>
    \A e, f \in events :
      /\ {e[1], f[1]} \subseteq {"PaymentConfirmedEvent", "PaymentFailedEvent",
                                "PaymentExpiredEvent"}
      => e = f

(* payment and authorization, written by two statements of one transaction *)
(* from two reads, tell the same story;                                    *)
AuthorizationAgrees ==
  ~ overlap =>
    /\ authorization.tx = payment.tx
    /\ authorization.status = "EXPIRED" <=>
         payment.status \in {"EXPIRED", "CANCELLED"}

(* The payment's state machine.                                            *)
Moves == {<<"NONE", "AWAITING_SIGNATURE">>,
          <<"AWAITING_SIGNATURE", "SUBMITTED">>,
          <<"AWAITING_SIGNATURE", "EXPIRED">>,
          <<"AWAITING_SIGNATURE", "CANCELLED">>,
          <<"SUBMITTED", "CONFIRMING">>, <<"SUBMITTED", "CONFIRMED">>,
          <<"SUBMITTED", "FAILED">>, <<"CONFIRMING", "CONFIRMED">>,
          <<"CONFIRMING", "FAILED">>, <<"CONFIRMED", "REFUNDED">>}

(* every write moves the payment along an edge of its state machine, and   *)
(* neither a submitted hash nor a stored receipt changes again.            *)
PaymentMovesForward ==
  [][~ overlap =>
       /\ payment'.status # payment.status =>
            <<payment.status, payment'.status>> \in Moves
       /\ payment.tx # None => payment'.tx = payment.tx
       /\ payment.receipt # None => payment'.receipt = payment.receipt]_payment

(* A payment that was requested reaches a final status: it expires, or the *)
(* chain's answer is picked up.                                            *)
PaymentSettles == payment.status # "NONE" ~> payment.status \in Final

(* What the documents say, and the transactions do not keep:               *)

(* A refund is not executed twice when its message is processed again.     *)
RefundedOnce == refunds <= 1
=============================================================================
