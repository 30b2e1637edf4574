--------------------------- MODULE PaymentProofs ---------------------------
(***************************************************************************)
(* Theorems about Payment, for any number of processes, hashes and keys.   *)
(* They hold although a write may overwrite what others committed since it *)
(* read: every write saves a row that is well formed by itself, and what a *)
(* process was told by the chain stays true of the chain.                  *)
(* As long as no two transactions have overlapped, more is true: a process *)
(* writes over the very rows it read, and rows and events tell one story.  *)
(***************************************************************************)
EXTENDS Payment, TLAPS

(* A row is well formed, and it has no receipt without a hash: the second  *)
(* makes submit_tx_hash keep the first.                                    *)
PaymentOK(p) == PaymentShape(p) /\ (p.tx = None => p.receipt = None)

RowsShape == PaymentOK(payment) /\ AuthorizationShape(authorization)

(* The rows as a process read them are well formed.                        *)
SeenShape ==
  \A t \in Processes : PaymentOK(seen[t]) /\ AuthorizationShape(seenAuth[t])

(* The answer a process holds is the chain's, about the hash it read.      *)
AnswersTrue ==
  \A t \in Processes :
    answer[t] # "unknown" =>
      /\ pc[t] = "run"
      /\ seen[t].tx \in Hashes
      /\ chain[seen[t].tx] = answer[t]

(* A submission names a hash.                                              *)
SubmitsHash ==
  \A t \in Processes : cmd[t].op = "submit" => cmd[t].hash \in Hashes

(* The inductive invariant.                                                *)
IInv ==
  /\ TypeOK
  /\ RowsShape
  /\ ReportedOutcomeIsOnChain
  /\ SeenShape
  /\ AnswersTrue
  /\ SubmitsHash

LEMMA Defaults ==
  /\ NoPayment \in PaymentRow /\ PaymentOK(NoPayment)
  /\ NewPayment \in PaymentRow /\ PaymentOK(NewPayment)
  /\ NewAuthorization \in AuthorizationRow
  /\ AuthorizationShape(NewAuthorization)
  /\ NoCommand \in Command /\ NoCommand.op # "submit"
  BY PaymentConstants
     DEF NoPayment, NewPayment, NewAuthorization, PaymentRow, PaymentStatus,
         AuthorizationRow, PaymentOK, PaymentShape, AuthorizationShape,
         NoCommand,
         Request, Command

LEMMA InitIInv == Init => IInv
<1> SUFFICES ASSUME Init PROVE IInv
  OBVIOUS
<1> USE PaymentConstants
<1>1. TypeOK
  <2>1. /\ payment \in PaymentRow
        /\ authorization \in AuthorizationRow
        /\ processed \subseteq Keys \cup {"Initiate", "Expire", "Refund"}
        /\ events \subseteq EventNames \X (Hashes \cup {None})
    BY Defaults DEF Init
  <2>2. expired \in BOOLEAN
    BY DEF Init
  <2>5. chain \in [Hashes -> Answers]
    BY DEF Init, Answers
  <2>6. refunds \in 0 .. MaxRefunds
    BY PaymentConstants DEF Init
  <2>7. overlap \in BOOLEAN
    BY DEF Init
  <2>3. /\ pc \in [Processes -> Steps]
        /\ cmd \in [Processes -> Command]
        /\ answer \in [Processes -> Answers]
    BY Defaults DEF Init, Answers, Steps
  <2>4. /\ seen \in [Processes -> PaymentRow]
        /\ seenAuth \in [Processes -> AuthorizationRow]
    BY Defaults DEF Init
  <2> QED BY <2>1, <2>2, <2>3, <2>4, <2>5, <2>6, <2>7 DEF TypeOK
<1>2. RowsShape /\ SeenShape
  BY Defaults DEF Init, RowsShape, SeenShape
<1>3. ReportedOutcomeIsOnChain /\ AnswersTrue /\ SubmitsHash
  BY Defaults DEF Init, ReportedOutcomeIsOnChain, AnswersTrue, SubmitsHash
<1> QED BY <1>1, <1>2, <1>3 DEF IInv

(* The parts of the invariant about the locals of the processes.           *)
LocalTypes ==
  /\ pc \in [Processes -> Steps]
  /\ cmd \in [Processes -> Command]
  /\ seen \in [Processes -> PaymentRow]
  /\ seenAuth \in [Processes -> AuthorizationRow]
  /\ answer \in [Processes -> Answers]

LocalsOK == LocalTypes /\ SeenShape /\ AnswersTrue /\ SubmitsHash

RowTypes ==
  /\ payment \in PaymentRow
  /\ authorization \in AuthorizationRow
  /\ processed \subseteq Keys \cup {"Initiate", "Expire", "Refund"}
  /\ events \subseteq EventNames \X (Hashes \cup {None})

RowsOK == RowTypes /\ RowsShape /\ ReportedOutcomeIsOnChain

WorldTypes ==
  /\ expired \in BOOLEAN
  /\ chain \in [Hashes -> Answers]
  /\ refunds \in 0 .. MaxRefunds
  /\ overlap \in BOOLEAN

LEMMA IInvParts == IInv <=> RowsOK /\ WorldTypes /\ LocalsOK
  BY DEF IInv, TypeOK, RowsOK, RowTypes, WorldTypes, LocalsOK, LocalTypes

LEMMA IInvPartsNext == IInv' <=> RowsOK' /\ WorldTypes' /\ LocalsOK'
  BY DEF IInv, TypeOK, RowsOK, RowTypes, WorldTypes, LocalsOK, LocalTypes

(* A process that ends forgets what it read.                               *)
LEMMA EndLocals ==
  ASSUME LocalsOK, NEW t \in Processes, End(t), UNCHANGED chain
  PROVE  LocalsOK'
<1> USE Defaults DEF End, LocalsOK
<1>1. LocalTypes'
  BY DEF LocalTypes, Answers, Steps
<1>2. SeenShape'
  <2> SUFFICES ASSUME NEW u \in Processes
               PROVE  PaymentOK(seen'[u]) /\ AuthorizationShape(seenAuth'[u])
    BY DEF SeenShape
  <2>1. CASE u = t
    BY <2>1 DEF LocalTypes
  <2>2. CASE u # t
    <3>1. seen'[u] = seen[u] /\ seenAuth'[u] = seenAuth[u]
      BY <2>2 DEF LocalTypes
    <3> QED BY <3>1 DEF SeenShape
  <2> QED BY <2>1, <2>2
<1>3. AnswersTrue'
  BY DEF LocalTypes, AnswersTrue
<1>4. SubmitsHash'
  BY DEF LocalTypes, SubmitsHash
<1> QED BY <1>1, <1>2, <1>3, <1>4

(* A write keeps the invariant if the rows it saves are well formed and    *)
(* the events it adds are the chain's.                                     *)
LEMMA SaveKeeps ==
  ASSUME IInv, NEW t \in Processes,
         NEW p \in PaymentRow, NEW a \in AuthorizationRow,
         NEW e \in SUBSET (EventNames \X (Hashes \cup {None})),
         PaymentOK(p), AuthorizationShape(a),
         \A h : <<"PaymentConfirmedEvent", h>> \in e =>
                  h \in Hashes /\ chain[h] = "transfer",
         \A h : <<"PaymentFailedEvent", h>> \in e =>
                  h \in Hashes /\ chain[h] = "mismatch",
         Save(t, p, a, e)
  PROVE  IInv'
<1>1. RowsOK /\ WorldTypes /\ LocalsOK
  BY IInvParts
<1>2. LocalsOK'
  BY <1>1, EndLocals DEF Save, world
<1>3. WorldTypes'
  BY <1>1 DEF Save, world, WorldTypes
<1>4. RowTypes'
  <2>1. cmd[t].id \in Keys \cup {"Initiate", "Expire", "Refund", "None"}
    BY <1>1 DEF LocalsOK, LocalTypes, Command
  <2> QED BY <1>1, <2>1 DEF Save, RowsOK, RowTypes
<1>5. RowsShape'
  BY DEF Save, RowsShape
<1>6. ReportedOutcomeIsOnChain'
  BY <1>1 DEF Save, world, RowsOK, ReportedOutcomeIsOnChain
<1> QED BY <1>2, <1>3, <1>4, <1>5, <1>6, IInvPartsNext DEF RowsOK

(* A transaction that is given up, or has nothing to do.                   *)
LEMMA EndKeeps ==
  ASSUME IInv, NEW t \in Processes, End(t), UNCHANGED rows,
         UNCHANGED <<expired, chain, overlap>>, refunds' \in 0 .. MaxRefunds
  PROVE  IInv'
<1>1. RowsOK /\ WorldTypes /\ LocalsOK
  BY IInvParts
<1>2. LocalsOK'
  BY <1>1, EndLocals
<1>3. WorldTypes'
  BY <1>1 DEF WorldTypes
<1>4. RowsOK'
  BY <1>1 DEF rows, RowsOK, RowTypes, RowsShape, ReportedOutcomeIsOnChain
<1> QED BY <1>2, <1>3, <1>4, IInvPartsNext

(* A step that leaves the rows and the chain alone.                        *)
LEMMA LocalStep ==
  ASSUME IInv, LocalsOK', UNCHANGED <<rows, expired, chain>>,
         refunds' \in 0 .. MaxRefunds, overlap' \in BOOLEAN
  PROVE  IInv'
<1>1. RowsOK /\ WorldTypes
  BY IInvParts
<1>2. WorldTypes'
  BY <1>1 DEF WorldTypes
<1>3. RowsOK'
  BY <1>1 DEF rows, RowsOK, RowTypes, RowsShape, ReportedOutcomeIsOnChain
<1> QED BY <1>2, <1>3, IInvPartsNext

LEMMA MineStep == ASSUME IInv, NEW h \in Hashes, Mine(h) PROVE IInv'
<1>1. RowsOK /\ WorldTypes /\ LocalsOK
  BY IInvParts
<1>2. PICK outcome \in {"transfer", "mismatch"} :
        chain' = [chain EXCEPT ![h] = outcome]
  BY DEF Mine
<1>3. WorldTypes'
  BY <1>1, <1>2 DEF Mine, WorldTypes, Answers
<1>4. \A g \in Hashes : chain[g] # "unknown" => chain'[g] = chain[g]
  BY <1>1, <1>2 DEF Mine, WorldTypes
<1>5. RowsOK'
  <2>1. RowTypes' /\ RowsShape'
    BY <1>1 DEF Mine, rows, RowsOK, RowTypes, RowsShape
  <2>2. ReportedOutcomeIsOnChain'
    BY <1>1, <1>4 DEF Mine, rows, RowsOK, ReportedOutcomeIsOnChain
  <2> QED BY <2>1, <2>2 DEF RowsOK
<1>6. LocalsOK'
  <2>1. LocalTypes' /\ SeenShape' /\ SubmitsHash'
    BY <1>1 DEF Mine, locals, LocalsOK, LocalTypes, SeenShape, SubmitsHash
  <2>2. AnswersTrue'
    BY <1>1, <1>4 DEF Mine, locals, LocalsOK, AnswersTrue
  <2> QED BY <2>1, <2>2 DEF LocalsOK
<1> QED BY <1>3, <1>5, <1>6, IInvPartsNext

(* Every command that may reach a process is one.                          *)
LEMMA RequestSound ==
  ASSUME NEW op \in {"initiate", "submit", "receipt", "cancel", "timeout",
                     "refund"},
         NEW id \in Keys \cup {"Initiate", "Expire", "Refund", "None"},
         NEW h \in Hashes \cup {None}, NEW late \in BOOLEAN,
         op = "submit" => h \in Hashes
  PROVE  LET c == Request(op, id, h, late)
         IN  c \in Command /\ (c.op = "submit" => c.hash \in Hashes)
  BY DEF Request, Command

Sound(C) ==
  C \subseteq Command /\ \A c \in C : c.op = "submit" => c.hash \in Hashes

LEMMA CommandsSound ==
  ASSUME expired \in BOOLEAN
  PROVE  /\ Sound(ApiRequests) /\ Sound(KafkaDeliveries)
         /\ Sound(ReceiptPolls) /\ Sound(Timeouts)
<1>1. Sound({Request("submit", k, h, expired) : k \in Keys, h \in Hashes})
  BY RequestSound DEF Sound
<1>2. /\ Sound({Request("cancel", "Expire", None, expired)})
      /\ Sound({Request("initiate", "Initiate", None, FALSE)})
      /\ Sound({Request("refund", "Refund", None, FALSE)})
      /\ Sound({Request("receipt", "None", None, expired)})
      /\ Sound({Request("timeout", "Expire", None, TRUE)})
      /\ Sound({})
  BY RequestSound DEF Sound
<1>3. \A A, B : Sound(A) /\ Sound(B) => Sound(A \cup B)
  BY DEF Sound
<1>4. Sound(ApiRequests)
  BY <1>1, <1>2, <1>3 DEF ApiRequests
<1>5. Sound(KafkaDeliveries)
  BY <1>2, <1>3 DEF KafkaDeliveries
<1>6. Sound(ReceiptPolls) /\ Sound(Timeouts)
  BY <1>2 DEF ReceiptPolls, Timeouts
<1> QED BY <1>4, <1>5, <1>6

LEMMA BeginStep ==
  ASSUME IInv, NEW t \in Processes, NEW commands, Sound(commands),
         Begin(t, commands)
  PROVE  IInv'
<1>1. RowsOK /\ WorldTypes /\ LocalsOK
  BY IInvParts
<1>2. PICK c \in commands : cmd' = [cmd EXCEPT ![t] = c]
  BY DEF Begin
<1>3. LocalTypes' /\ SubmitsHash'
  BY <1>1, <1>2 DEF Begin, Sound, LocalsOK, LocalTypes, SubmitsHash, Steps
<1>4. SeenShape' /\ AnswersTrue'
  BY <1>1 DEF Begin, LocalsOK, LocalTypes, SeenShape, AnswersTrue
<1>5. LocalsOK'
  BY <1>3, <1>4 DEF LocalsOK
<1>6. refunds' \in 0 .. MaxRefunds /\ overlap' \in BOOLEAN
  BY <1>1 DEF Begin, WorldTypes
<1> QED BY <1>5, <1>6, LocalStep DEF Begin

(* What a process reads is well formed, and what the chain tells it is so. *)
LEMMA ReadStep == ASSUME IInv, NEW t \in Processes, Read(t) PROVE IInv'
<1>1. RowsOK /\ WorldTypes /\ LocalsOK
  BY IInvParts
<1>2. refunds \in 0 .. MaxRefunds /\ overlap \in BOOLEAN
  BY <1>1 DEF WorldTypes
<1>3. CASE Duplicate(t)
  BY <1>2, <1>3, EndKeeps DEF Duplicate, world
<1>4. CASE NotDuplicate(t)
  <2>1. LocalsOK'
    BY <1>1, <1>4 DEF NotDuplicate, world, LocalsOK, LocalTypes, Steps,
                      SeenShape, AnswersTrue, SubmitsHash
  <2> QED BY <1>2, <1>4, <2>1, LocalStep DEF NotDuplicate, world
<1>5. CASE LoadPayment(t)
  <2>1. LocalTypes' /\ SubmitsHash'
    BY <1>1, <1>5 DEF LoadPayment, rows, RowsOK, RowTypes, LocalsOK,
                      LocalTypes, Steps, SubmitsHash
  <2>2. SeenShape'
    BY <1>1, <1>5 DEF LoadPayment, RowsOK, RowsShape, LocalsOK,
                      LocalTypes, SeenShape
  <2>3. AnswersTrue'
    BY <1>1, <1>5 DEF LoadPayment, world, LocalsOK, LocalTypes, AnswersTrue
  <2>4. LocalsOK'
    BY <2>1, <2>2, <2>3 DEF LocalsOK
  <2> QED BY <1>2, <1>5, <2>4, LocalStep DEF LoadPayment, world
<1>6. CASE LoadAuthorization(t)
  <2>1. LocalsOK'
    BY <1>1, <1>6 DEF LoadAuthorization, world, RowsOK, RowTypes,
                      RowsShape, LocalsOK, LocalTypes, Steps, SeenShape,
                      AnswersTrue, SubmitsHash
  <2> QED BY <1>2, <1>6, <2>1, LocalStep DEF LoadAuthorization, world
<1>7. CASE AskReceipt(t)
  <2>1. seen[t].tx \in Hashes /\ chain[seen[t].tx] \in Answers
    BY <1>1, <1>7 DEF AskReceipt, LocalsOK, LocalTypes, PaymentRow, WorldTypes
  <2>2. LocalsOK'
    BY <1>1, <1>7, <2>1 DEF AskReceipt, world, LocalsOK, LocalTypes, Steps,
                            SeenShape, AnswersTrue, SubmitsHash
  <2> QED BY <1>2, <1>7, <2>2, LocalStep DEF AskReceipt, world
<1> QED BY <1>3, <1>4, <1>5, <1>6, <1>7 DEF Read

LEMMA SendRefundStep ==
  ASSUME IInv, NEW t \in Processes, SendRefund(t) PROVE IInv'
<1>1. RowsOK /\ WorldTypes /\ LocalsOK
  BY IInvParts
<1>2. refunds' \in 0 .. MaxRefunds /\ overlap' \in BOOLEAN
  BY <1>1, PaymentConstants DEF SendRefund, WorldTypes
<1>3. CASE End(t)
  BY <1>2, <1>3, EndKeeps DEF SendRefund
<1>4. CASE pc' = [pc EXCEPT ![t] = "run"] /\ UNCHANGED <<cmd, seen, seenAuth, answer>>
  <2>1. LocalsOK'
    BY <1>1, <1>4 DEF SendRefund, LocalsOK, LocalTypes, Steps, SeenShape,
                      AnswersTrue, SubmitsHash
  <2> QED BY <1>2, <2>1, LocalStep DEF SendRefund
<1> QED BY <1>3, <1>4 DEF SendRefund

(* The aggregates return well-formed rows from well-formed rows.           *)
LEMMA AggregatesSound ==
  ASSUME NEW p \in PaymentRow, PaymentOK(p),
         NEW a \in AuthorizationRow, AuthorizationShape(a)
  PROVE  /\ \A h \in Hashes :
              /\ submit_tx_hash(p, h) \in PaymentRow
              /\ PaymentOK(submit_tx_hash(p, h))
              /\ authorize_tx_hash(a, h) \in AuthorizationRow
              /\ AuthorizationShape(authorize_tx_hash(a, h))
         /\ mark_confirming(p) \in PaymentRow
         /\ PaymentOK(mark_confirming(p))
         /\ confirm_payment_ok(p) =>
              /\ confirm_payment(p) \in PaymentRow
              /\ PaymentOK(confirm_payment(p))
         /\ p.tx # None =>
              /\ fail_payment(p) \in PaymentRow
              /\ PaymentOK(fail_payment(p))
         /\ \A force \in BOOLEAN, late \in BOOLEAN :
              expire_awaiting_signature_ok(p, force, late) =>
                /\ expire_awaiting_signature(p, force) \in PaymentRow
                /\ PaymentOK(expire_awaiting_signature(p, force))
         /\ expire_authorization(a) \in AuthorizationRow
         /\ AuthorizationShape(expire_authorization(a))
         /\ refund_payment_ok(p) =>
              /\ refund_payment(p) \in PaymentRow
              /\ PaymentOK(refund_payment(p))
<1> USE PaymentConstants DEF PaymentRow, PaymentStatus, PaymentOK, PaymentShape
<1>1. \A h \in Hashes : /\ submit_tx_hash(p, h) \in PaymentRow
                        /\ PaymentOK(submit_tx_hash(p, h))
  BY DEF submit_tx_hash
<1>2. /\ \A h \in Hashes : /\ authorize_tx_hash(a, h) \in AuthorizationRow
                           /\ AuthorizationShape(authorize_tx_hash(a, h))
      /\ expire_authorization(a) \in AuthorizationRow
      /\ AuthorizationShape(expire_authorization(a))
  BY DEF AuthorizationRow, AuthorizationShape, authorize_tx_hash,
         expire_authorization
<1>3. mark_confirming(p) \in PaymentRow /\ PaymentOK(mark_confirming(p))
  BY DEF mark_confirming
<1>4. confirm_payment_ok(p) => /\ confirm_payment(p) \in PaymentRow
                               /\ PaymentOK(confirm_payment(p))
  BY DEF confirm_payment_ok, confirm_payment
<1>5. p.tx # None => /\ fail_payment(p) \in PaymentRow
                     /\ PaymentOK(fail_payment(p))
  BY DEF fail_payment
<1>6. \A force \in BOOLEAN, late \in BOOLEAN :
        expire_awaiting_signature_ok(p, force, late) =>
          /\ expire_awaiting_signature(p, force) \in PaymentRow
          /\ PaymentOK(expire_awaiting_signature(p, force))
  BY DEF expire_awaiting_signature_ok, expire_awaiting_signature
<1>7. refund_payment_ok(p) => /\ refund_payment(p) \in PaymentRow
                              /\ PaymentOK(refund_payment(p))
  BY DEF refund_payment_ok, refund_payment
<1> QED BY <1>1, <1>2, <1>3, <1>4, <1>5, <1>6, <1>7

LEMMA WriteStep == ASSUME IInv, NEW t \in Processes, Write(t) PROVE IInv'
<1>1. RowsOK /\ WorldTypes /\ LocalsOK
  BY IInvParts
<1>2. /\ seen[t] \in PaymentRow /\ PaymentOK(seen[t])
      /\ seenAuth[t] \in AuthorizationRow /\ AuthorizationShape(seenAuth[t])
      /\ authorization \in AuthorizationRow /\ AuthorizationShape(authorization)
      /\ cmd[t] \in Command /\ answer[t] \in Answers
  BY <1>1 DEF RowsOK, RowTypes, RowsShape, LocalsOK, LocalTypes, SeenShape
<1>3. CASE initiate_payment(t)
  BY <1>3, Defaults, SaveKeeps DEF initiate_payment, EventNames
<1>4. CASE submit_transaction_hash(t)
  <2>1. cmd[t].hash \in Hashes
    BY <1>1, <1>4 DEF submit_transaction_hash, Running, LocalsOK, SubmitsHash
  <2> QED BY <1>2, <1>4, <2>1, AggregatesSound, SaveKeeps
          DEF submit_transaction_hash
<1>5. CASE no_receipt_yet(t)
  BY <1>2, <1>5, AggregatesSound, SaveKeeps DEF no_receipt_yet
<1>6. CASE receipt_confirms(t)
  <2>1. seen[t].tx \in Hashes /\ chain[seen[t].tx] = "transfer"
    BY <1>1, <1>6 DEF receipt_confirms, LocalsOK, AnswersTrue
  <2> DEFINE e == {<<"PaymentConfirmedEvent", seen[t].tx>>}
  <2>2. /\ e \in SUBSET (EventNames \X (Hashes \cup {None}))
        /\ \A h : <<"PaymentConfirmedEvent", h>> \in e =>
                    h \in Hashes /\ chain[h] = "transfer"
        /\ \A h : <<"PaymentFailedEvent", h>> \notin e
    BY <2>1 DEF EventNames
  <2>3. /\ confirm_payment(seen[t]) \in PaymentRow
        /\ PaymentOK(confirm_payment(seen[t]))
    BY <1>2, <1>6, AggregatesSound DEF receipt_confirms
  <2>4. Save(t, confirm_payment(seen[t]), authorization, e)
    BY <1>6 DEF receipt_confirms
  <2> HIDE DEF e
  <2> QED BY <1>2, <2>2, <2>3, <2>4, SaveKeeps
<1>7. CASE receipt_mismatch(t)
  <2>1. seen[t].tx \in Hashes /\ chain[seen[t].tx] = "mismatch"
    BY <1>1, <1>7 DEF receipt_mismatch, LocalsOK, AnswersTrue
  <2> DEFINE e == {<<"PaymentFailedEvent", seen[t].tx>>}
  <2>2. /\ e \in SUBSET (EventNames \X (Hashes \cup {None}))
        /\ \A h : <<"PaymentFailedEvent", h>> \in e =>
                    h \in Hashes /\ chain[h] = "mismatch"
        /\ \A h : <<"PaymentConfirmedEvent", h>> \notin e
    BY <2>1 DEF EventNames
  <2>3. /\ fail_payment(seen[t]) \in PaymentRow
        /\ PaymentOK(fail_payment(seen[t]))
    BY <1>2, <2>1, PaymentConstants, AggregatesSound
  <2>4. Save(t, fail_payment(seen[t]), authorization, e)
    BY <1>7 DEF receipt_mismatch
  <2> HIDE DEF e
  <2> QED BY <1>2, <2>2, <2>3, <2>4, SaveKeeps
<1>8. CASE expire_signature_request(t)
  <2> DEFINE force == cmd[t].op = "cancel"
             e == {<<"PaymentExpiredEvent", None>>}
  <2>1. /\ e \in SUBSET (EventNames \X (Hashes \cup {None}))
        /\ \A h : <<"PaymentConfirmedEvent", h>> \notin e
        /\ \A h : <<"PaymentFailedEvent", h>> \notin e
    BY DEF EventNames
  <2>2. force \in BOOLEAN /\ cmd[t].late \in BOOLEAN
    BY <1>2 DEF Command
  <2>3. /\ expire_awaiting_signature_ok(seen[t], force, cmd[t].late)
        /\ Save(t, expire_awaiting_signature(seen[t], force),
                expire_authorization(seenAuth[t]), e)
    BY <1>8 DEF expire_signature_request
  <2> HIDE DEF e, force
  <2>4. /\ expire_awaiting_signature(seen[t], force) \in PaymentRow
        /\ PaymentOK(expire_awaiting_signature(seen[t], force))
        /\ expire_authorization(seenAuth[t]) \in AuthorizationRow
        /\ AuthorizationShape(expire_authorization(seenAuth[t]))
    BY <1>2, <2>2, <2>3, AggregatesSound
  <2> QED BY <2>1, <2>3, <2>4, SaveKeeps
<1>9. CASE refund(t)
  <2>1. /\ refund_payment(seen[t]) \in PaymentRow
        /\ PaymentOK(refund_payment(seen[t]))
    BY <1>2, <1>9, AggregatesSound DEF refund
  <2> QED BY <1>2, <1>9, <2>1, SaveKeeps DEF refund, EventNames
<1> QED BY <1>3, <1>4, <1>5, <1>6, <1>7, <1>8, <1>9 DEF Write

LEMMA NextIInv == IInv /\ [Next]_vars => IInv'
<1> SUFFICES ASSUME IInv, [Next]_vars PROVE IInv'
  OBVIOUS
<1>1. RowsOK /\ WorldTypes /\ LocalsOK
  BY IInvParts
<1>2. refunds \in 0 .. MaxRefunds /\ expired \in BOOLEAN
  BY <1>1 DEF WorldTypes
<1>3. CASE Tick
  BY <1>1, <1>3, IInvPartsNext
     DEF Tick, rows, locals, RowsOK, RowTypes, WorldTypes, LocalsOK,
         LocalTypes, RowsShape, ReportedOutcomeIsOnChain, SeenShape,
         AnswersTrue, SubmitsHash
<1>4. CASE \E h \in Hashes : Mine(h)
  BY <1>4, MineStep
<1>5. CASE \E t \in Processes : \/ BeginRequest(t) \/ BeginDelivery(t)
                                \/ BeginPoll(t) \/ BeginTimeout(t)
  BY <1>2, <1>5, BeginStep, CommandsSound
     DEF BeginRequest, BeginDelivery, BeginPoll, BeginTimeout
<1>6. CASE \E t \in Processes : Read(t) \/ SendRefund(t) \/ Write(t)
  BY <1>6, ReadStep, SendRefundStep, WriteStep
<1>7. CASE \E t \in Processes : Rollback(t)
  BY <1>2, <1>7, EndKeeps DEF Rollback, world
<1>8. CASE UNCHANGED vars
  BY <1>1, <1>8, IInvPartsNext
     DEF vars, RowsOK, RowTypes, WorldTypes, LocalsOK, LocalTypes,
         RowsShape, ReportedOutcomeIsOnChain, SeenShape, AnswersTrue,
         SubmitsHash
<1> QED BY <1>3, <1>4, <1>5, <1>6, <1>7, <1>8 DEF Next

-----------------------------------------------------------------------------
(* While transactions have not overlapped.                                 *)

(* Payment, authorization, events and processed commands tell one story.   *)
Story(p, a, ev, done) ==
  /\ a.tx = p.tx
  /\ a.status = "EXPIRED" <=> p.status \in {"EXPIRED", "CANCELLED"}
  /\ "Initiate" \notin done => p.status = "NONE"
  /\ p.status = "FAILED" => p.tx # None
  /\ \A x : <<"PaymentConfirmedEvent", x>> \in ev =>
              p.status \in {"CONFIRMED", "REFUNDED"} /\ x = p.tx
  /\ \A x : <<"PaymentFailedEvent", x>> \in ev => p.status = "FAILED" /\ x = p.tx
  /\ \A x : <<"PaymentExpiredEvent", x>> \in ev =>
              p.status \in {"EXPIRED", "CANCELLED"} /\ x = None

(* One process is in a transaction at most, and the rows it read are the   *)
(* committed ones.                                                         *)
Alone ==
  \A t, u \in Processes : pc[t] # "idle" /\ pc[u] # "idle" => t = u

Current ==
  \A t \in Processes :
    /\ pc[t] \in {"ask", "loadAuth"} => seen[t] = payment
    /\ pc[t] = "run" /\ cmd[t].op # "initiate" => seen[t] = payment
    /\ pc[t] = "run" /\ cmd[t].op \in {"submit", "cancel", "timeout"} =>
         seenAuth[t] = authorization
    /\ pc[t] \notin {"idle", "check"} => cmd[t].id \notin processed

InitiatesById ==
  \A t \in Processes : cmd[t].op = "initiate" => cmd[t].id = "Initiate"

Serial == Alone /\ Current /\ Story(payment, authorization, events, processed)

SerialInv == InitiatesById /\ (~ overlap => Serial)

Forward(p, q) ==
  /\ q.status # p.status => <<p.status, q.status>> \in Moves
  /\ p.tx # None => q.tx = p.tx
  /\ p.receipt # None => q.receipt = p.receipt

(* What each aggregate does to a story.                                    *)
LEMMA StoryGrows ==
  ASSUME NEW p \in PaymentRow, PaymentOK(p),
         NEW a \in AuthorizationRow, AuthorizationShape(a),
         NEW ev, NEW done, Story(p, a, ev, done), NEW more
  PROVE  /\ \A h \in Hashes, late \in BOOLEAN :
              submit_tx_hash_ok(p, h) /\ authorize_tx_hash_ok(a, h, late) =>
                /\ Story(submit_tx_hash(p, h), authorize_tx_hash(a, h), ev,
                         done \cup more)
                /\ Forward(p, submit_tx_hash(p, h))
         /\ mark_confirming_ok(p) =>
              /\ Story(mark_confirming(p), a, ev, done \cup more)
              /\ Forward(p, mark_confirming(p))
         /\ confirm_payment_ok(p) =>
              /\ Story(confirm_payment(p), a,
                       ev \cup {<<"PaymentConfirmedEvent", p.tx>>}, done \cup more)
              /\ Forward(p, confirm_payment(p))
         /\ p.tx # None /\ fail_payment_ok(p) =>
              /\ Story(fail_payment(p), a,
                       ev \cup {<<"PaymentFailedEvent", p.tx>>}, done \cup more)
              /\ Forward(p, fail_payment(p))
         /\ \A force \in BOOLEAN, late \in BOOLEAN :
              expire_awaiting_signature_ok(p, force, late) =>
                /\ Story(expire_awaiting_signature(p, force),
                         expire_authorization(a),
                         ev \cup {<<"PaymentExpiredEvent", None>>}, done \cup more)
                /\ Forward(p, expire_awaiting_signature(p, force))
         /\ refund_payment_ok(p) =>
              /\ Story(refund_payment(p), a,
                       ev \cup {<<"PaymentRefundedEvent", None>>}, done \cup more)
              /\ Forward(p, refund_payment(p))
<1> USE PaymentConstants
    DEF PaymentRow, AuthorizationRow, PaymentStatus, PaymentOK, PaymentShape,
        AuthorizationShape, Story, Forward, Moves, Final
<1>1. \A h \in Hashes, late \in BOOLEAN :
        submit_tx_hash_ok(p, h) /\ authorize_tx_hash_ok(a, h, late) =>
          /\ Story(submit_tx_hash(p, h), authorize_tx_hash(a, h), ev, done \cup more)
          /\ Forward(p, submit_tx_hash(p, h))
  <2> SUFFICES ASSUME NEW h \in Hashes, NEW late \in BOOLEAN,
                      submit_tx_hash_ok(p, h), authorize_tx_hash_ok(a, h, late)
               PROVE  /\ Story(submit_tx_hash(p, h), authorize_tx_hash(a, h), ev,
                               done \cup more)
                      /\ Forward(p, submit_tx_hash(p, h))
    OBVIOUS
  <2>1. CASE p.status = "AWAITING_SIGNATURE"
    BY <2>1 DEF submit_tx_hash, authorize_tx_hash
  <2>2. CASE p.status # "AWAITING_SIGNATURE"
    <3>1. p.status # "NONE" /\ (p.tx = None => a.status = "EXPIRED")
      BY <2>2 DEF submit_tx_hash_ok
    <3>2. submit_tx_hash(p, h) = p /\ authorize_tx_hash(a, h) = a
      BY <2>2, <3>1 DEF submit_tx_hash, authorize_tx_hash
    <3> QED BY <3>1, <3>2
  <2> QED BY <2>1, <2>2
<1>2. mark_confirming_ok(p) =>
        /\ Story(mark_confirming(p), a, ev, done \cup more)
        /\ Forward(p, mark_confirming(p))
  BY DEF mark_confirming_ok, mark_confirming
<1>3. confirm_payment_ok(p) =>
        /\ Story(confirm_payment(p), a,
                 ev \cup {<<"PaymentConfirmedEvent", p.tx>>}, done \cup more)
        /\ Forward(p, confirm_payment(p))
  BY DEF confirm_payment_ok, confirm_payment
<1>4. p.tx # None /\ fail_payment_ok(p) =>
        /\ Story(fail_payment(p), a,
                 ev \cup {<<"PaymentFailedEvent", p.tx>>}, done \cup more)
        /\ Forward(p, fail_payment(p))
  BY DEF fail_payment_ok, fail_payment
<1>5. \A force \in BOOLEAN, late \in BOOLEAN :
        expire_awaiting_signature_ok(p, force, late) =>
          /\ Story(expire_awaiting_signature(p, force), expire_authorization(a),
                   ev \cup {<<"PaymentExpiredEvent", None>>}, done \cup more)
          /\ Forward(p, expire_awaiting_signature(p, force))
  BY DEF expire_awaiting_signature_ok, expire_awaiting_signature,
         expire_authorization
<1>6. refund_payment_ok(p) =>
        /\ Story(refund_payment(p), a,
                 ev \cup {<<"PaymentRefundedEvent", None>>}, done \cup more)
        /\ Forward(p, refund_payment(p))
  BY DEF refund_payment_ok, refund_payment
<1> QED BY <1>1, <1>2, <1>3, <1>4, <1>5, <1>6

(* A write by a process that is alone goes on with the story.              *)
LEMMA WriteForward ==
  ASSUME IInv, Serial, InitiatesById, NEW t \in Processes, Write(t)
  PROVE  /\ Story(payment, authorization, events, processed)'
         /\ Forward(payment, payment')
<1> DEFINE id == {cmd[t].id} \ {"None"}
<1>1. RowsOK /\ LocalsOK
  BY IInvParts
<1>2. /\ payment \in PaymentRow /\ PaymentOK(payment)
      /\ authorization \in AuthorizationRow /\ AuthorizationShape(authorization)
      /\ cmd[t] \in Command
  BY <1>1 DEF RowsOK, RowTypes, RowsShape, LocalsOK, LocalTypes
<1>3. Story(payment, authorization, events, processed)
  BY DEF Serial
<1>4. CASE initiate_payment(t)
  <2>1. /\ payment' = NewPayment /\ authorization' = NewAuthorization
        /\ events' = events \cup {<<"PaymentProcessingStartedEvent", None>>}
        /\ processed' = processed \cup id
        /\ cmd[t].id = "Initiate" /\ "Initiate" \notin processed
    BY <1>4 DEF initiate_payment, Running, Save, Serial, Current, InitiatesById
  <2>2. payment.status = "NONE"
    BY <1>3, <2>1 DEF Story
  <2>3. Story(payment, authorization, events, processed)'
    BY <1>2, <1>3, <2>1, <2>2
       DEF Story, NewPayment, NoPayment, NewAuthorization, PaymentRow,
           PaymentOK, PaymentShape
  <2>4. Forward(payment, payment')
    BY <1>2, <2>1, <2>2
       DEF Forward, Moves, NewPayment, NoPayment, PaymentOK, PaymentShape
  <2> QED BY <2>3, <2>4
<1>5. CASE ~ initiate_payment(t)
  <2>1. pc[t] = "run" /\ cmd[t].op # "initiate" /\ seen[t] = payment
    BY <1>5 DEF Write, submit_transaction_hash, no_receipt_yet, receipt_confirms,
                receipt_mismatch, expire_signature_request, refund, Running,
                Serial, Current
  <2>2. \A op : Running(t, op) => cmd[t].op = op
    BY DEF Running
  <2>3. CASE submit_transaction_hash(t)
    <3>1. seenAuth[t] = authorization /\ cmd[t].hash \in Hashes
      BY <2>1, <2>3 DEF submit_transaction_hash, Running, Serial, Current, IInv,
                        SubmitsHash
    <3>2. /\ cmd[t].late \in BOOLEAN
          /\ submit_tx_hash_ok(payment, cmd[t].hash)
          /\ authorize_tx_hash_ok(authorization, cmd[t].hash, cmd[t].late)
          /\ payment' = submit_tx_hash(payment, cmd[t].hash)
          /\ authorization' = authorize_tx_hash(authorization, cmd[t].hash)
          /\ events' = events /\ processed' = processed \cup id
      BY <1>2, <2>1, <2>3, <3>1 DEF submit_transaction_hash, Save, Command
    <3> HIDE DEF id
    <3> QED BY <1>2, <1>3, <3>1, <3>2, StoryGrows
  <2>4. CASE no_receipt_yet(t)
    <3>1. /\ mark_confirming_ok(payment)
          /\ payment' = mark_confirming(payment) /\ authorization' = authorization
          /\ events' = events /\ processed' = processed \cup id
      BY <2>1, <2>4 DEF no_receipt_yet, Save
    <3> HIDE DEF id
    <3> QED BY <1>2, <1>3, <3>1, StoryGrows
  <2>5. CASE receipt_confirms(t)
    <3>1. /\ confirm_payment_ok(payment)
          /\ payment' = confirm_payment(payment) /\ authorization' = authorization
          /\ events' = events \cup {<<"PaymentConfirmedEvent", payment.tx>>}
          /\ processed' = processed \cup id
      BY <2>1, <2>5 DEF receipt_confirms, Save
    <3> HIDE DEF id
    <3> QED BY <1>2, <1>3, <3>1, StoryGrows
  <2>6. CASE receipt_mismatch(t)
    <3>1. /\ fail_payment_ok(payment)
          /\ payment' = fail_payment(payment) /\ authorization' = authorization
          /\ events' = events \cup {<<"PaymentFailedEvent", payment.tx>>}
          /\ processed' = processed \cup id
      BY <2>1, <2>6 DEF receipt_mismatch, Save
    <3>2. payment.tx # None
      BY <2>1, <2>6, PaymentConstants DEF receipt_mismatch, IInv, AnswersTrue
    <3> HIDE DEF id
    <3> QED BY <1>2, <1>3, <3>1, <3>2, StoryGrows
  <2>7. CASE expire_signature_request(t)
    <3>1. seenAuth[t] = authorization
      BY <2>1, <2>7 DEF expire_signature_request, Serial, Current
    <3>2. PICK force \in BOOLEAN :
          /\ expire_awaiting_signature_ok(payment, force, cmd[t].late)
          /\ payment' = expire_awaiting_signature(payment, force)
          /\ authorization' = expire_authorization(authorization)
          /\ events' = events \cup {<<"PaymentExpiredEvent", None>>}
          /\ processed' = processed \cup id
      BY <2>1, <2>7, <3>1 DEF expire_signature_request, Save
    <3>3. cmd[t].late \in BOOLEAN
      BY <1>2 DEF Command
    <3> HIDE DEF id
    <3> QED BY <1>2, <1>3, <3>2, <3>3, StoryGrows
  <2>8. CASE refund(t)
    <3>1. /\ refund_payment_ok(payment)
          /\ payment' = refund_payment(payment) /\ authorization' = authorization
          /\ events' = events \cup {<<"PaymentRefundedEvent", None>>}
          /\ processed' = processed \cup id
      BY <2>1, <2>8 DEF refund, Save
    <3> HIDE DEF id
    <3> QED BY <1>2, <1>3, <3>1, StoryGrows
  <2> QED BY <1>5, <2>3, <2>4, <2>5, <2>6, <2>7, <2>8 DEF Write
<1> QED BY <1>4, <1>5

(* The first command of a process that is not idle is about its own id.    *)
LEMMA InitiatesStep ==
  ASSUME IInv, InitiatesById, [Next]_vars PROVE InitiatesById'
<1>1. LocalTypes
  BY IInvParts DEF LocalsOK
<1>2. CASE UNCHANGED cmd
  BY <1>2 DEF InitiatesById
<1>3. ASSUME NEW t \in Processes, End(t) PROVE InitiatesById'
  BY <1>1, <1>3 DEF End, LocalTypes, InitiatesById, NoCommand, Request
<1>4. ASSUME NEW t \in Processes, NEW commands, Begin(t, commands),
             \A c \in commands : c.op = "initiate" => c.id = "Initiate"
      PROVE  InitiatesById'
  BY <1>1, <1>4 DEF Begin, LocalTypes, InitiatesById
<1>5. \A C \in {ApiRequests, KafkaDeliveries, ReceiptPolls, Timeouts} :
        \A c \in C : c.op = "initiate" => c.id = "Initiate"
  BY DEF ApiRequests, KafkaDeliveries, ReceiptPolls, Timeouts, Request
<1>6. CASE \E t \in Processes : \/ BeginRequest(t) \/ BeginDelivery(t)
                                \/ BeginPoll(t) \/ BeginTimeout(t)
  BY <1>4, <1>5, <1>6 DEF BeginRequest, BeginDelivery, BeginPoll, BeginTimeout
<1>7. CASE \E t \in Processes : Read(t)
  BY <1>2, <1>3, <1>7 DEF Read, Duplicate, NotDuplicate, LoadPayment,
     LoadAuthorization, AskReceipt
<1>8. CASE \E t \in Processes : SendRefund(t) \/ Rollback(t)
  BY <1>2, <1>3, <1>8 DEF SendRefund, Rollback
<1>9. CASE \E t \in Processes : Write(t)
  BY <1>3, <1>9 DEF Write, Save, initiate_payment, submit_transaction_hash,
     no_receipt_yet, receipt_confirms, receipt_mismatch,
     expire_signature_request, refund
<1>10. CASE Tick \/ (\E h \in Hashes : Mine(h)) \/ UNCHANGED vars
  BY <1>2, <1>10 DEF Tick, Mine, locals, vars
<1> QED BY <1>6, <1>7, <1>8, <1>9, <1>10 DEF Next

(* A process that ends leaves all of them idle.                            *)
LEMMA EndsIdle ==
  ASSUME LocalTypes, Alone, NEW t \in Processes, pc[t] # "idle", End(t)
  PROVE  Alone' /\ Current'
<1>1. \A u \in Processes : pc'[u] = "idle"
  BY DEF LocalTypes, Alone, End
<1> QED BY <1>1 DEF Alone, Current

(* A step of the one process in a transaction leaves the others idle.      *)
LEMMA OnlyMover ==
  ASSUME LocalTypes, Alone, NEW t \in Processes, pc[t] # "idle", NEW l,
         pc' = [pc EXCEPT ![t] = l]
  PROVE  /\ Alone' /\ pc'[t] = l
         /\ \A u \in Processes \ {t} : pc'[u] = "idle"
  BY DEF LocalTypes, Alone

LEMMA SerialStep ==
  ASSUME IInv, SerialInv, [Next]_vars, ~ overlap'
  PROVE  Serial'
<1>1. LocalTypes /\ overlap \in BOOLEAN
  BY IInvParts DEF LocalsOK, WorldTypes
<1>2. ~ overlap
  BY <1>1 DEF Next, vars, world, Tick, Mine, BeginRequest, BeginDelivery,
     BeginPoll, BeginTimeout, Begin, Read, Duplicate, NotDuplicate, LoadPayment,
     LoadAuthorization, AskReceipt, SendRefund, Write, Save, initiate_payment,
     submit_transaction_hash, no_receipt_yet, receipt_confirms, receipt_mismatch,
     expire_signature_request, refund, Rollback
<1>3. /\ Serial /\ Alone /\ Current /\ InitiatesById
      /\ Story(payment, authorization, events, processed)
  BY <1>2 DEF SerialInv, Serial
<1>4. UNCHANGED rows => Story(payment, authorization, events, processed)'
  BY <1>3 DEF rows
<1>5. CASE Tick \/ (\E h \in Hashes : Mine(h)) \/ UNCHANGED vars
  <2>1. UNCHANGED <<rows, locals>>
    BY <1>5 DEF Tick, Mine, vars, rows, locals
  <2>2. Alone' /\ Current'
    BY <1>3, <2>1 DEF rows, locals, Alone, Current
  <2> QED BY <1>4, <2>1, <2>2 DEF Serial
<1>6. CASE \E t \in Processes : \/ BeginRequest(t) \/ BeginDelivery(t)
                                \/ BeginPoll(t) \/ BeginTimeout(t)
  <2>1. PICK t \in Processes :
          /\ pc' = [pc EXCEPT ![t] = "check"]
          /\ overlap' = (overlap \/ \E u \in Processes : pc[u] # "idle")
          /\ UNCHANGED rows
    BY <1>6 DEF BeginRequest, BeginDelivery, BeginPoll, BeginTimeout, Begin
  <2>2. \A u \in Processes : pc[u] = "idle"
    BY <2>1
  <2>3. /\ pc'[t] = "check" /\ \A u \in Processes \ {t} : pc'[u] = "idle"
    BY <1>1, <2>1, <2>2 DEF LocalTypes
  <2>4. Alone' /\ Current'
    BY <2>3 DEF Alone, Current
  <2> QED BY <1>4, <2>1, <2>4 DEF Serial
<1>7. ASSUME NEW t \in Processes, pc[t] # "idle", End(t), UNCHANGED rows
      PROVE  Serial'
  BY <1>1, <1>3, <1>4, <1>7, EndsIdle DEF Serial
<1>8. ASSUME NEW t \in Processes, Read(t) PROVE Serial'
  <2>1. CASE Duplicate(t)
    BY <1>7, <2>1 DEF Duplicate
  <2>2. CASE NotDuplicate(t)
    <3>1. PICK l \in {"run", "load"} :
            /\ pc' = [pc EXCEPT ![t] = l]
            /\ cmd[t].id \notin processed
            /\ l = "run" => cmd[t].op = "initiate"
            /\ pc[t] # "idle"
            /\ UNCHANGED <<rows, cmd, seen, seenAuth>>
      BY <2>2 DEF NotDuplicate
    <3>2. Alone' /\ pc'[t] = l /\ \A u \in Processes \ {t} : pc'[u] = "idle"
      BY <1>1, <1>3, <3>1, OnlyMover
    <3>3. Current'
      BY <3>1, <3>2 DEF rows, Current
    <3> QED BY <1>4, <3>1, <3>2, <3>3 DEF Serial
  <2>3. CASE LoadPayment(t)
    <3>1. PICK l \in {"ask", "loadAuth"} :
            /\ pc' = [pc EXCEPT ![t] = l] /\ pc[t] = "load"
            /\ seen' = [seen EXCEPT ![t] = payment]
            /\ UNCHANGED <<rows, cmd, seenAuth>>
      BY <2>3 DEF LoadPayment
    <3>2. Alone' /\ pc'[t] = l /\ \A u \in Processes \ {t} : pc'[u] = "idle"
      BY <1>1, <1>3, <3>1, OnlyMover
    <3>3. seen'[t] = payment /\ cmd[t].id \notin processed
      BY <1>1, <1>3, <3>1 DEF LocalTypes, Current
    <3>4. Current'
      BY <3>1, <3>2, <3>3 DEF rows, Current
    <3> QED BY <1>4, <3>1, <3>2, <3>4 DEF Serial
  <2>4. CASE LoadAuthorization(t)
    <3>1. /\ pc' = [pc EXCEPT ![t] = "run"] /\ pc[t] = "loadAuth"
          /\ seenAuth' = [seenAuth EXCEPT ![t] = authorization]
          /\ UNCHANGED <<rows, cmd, seen>>
      BY <2>4 DEF LoadAuthorization
    <3>2. Alone' /\ pc'[t] = "run" /\ \A u \in Processes \ {t} : pc'[u] = "idle"
      BY <1>1, <1>3, <3>1, OnlyMover
    <3>3. /\ seenAuth'[t] = authorization /\ seen[t] = payment
          /\ cmd[t].id \notin processed
      BY <1>1, <1>3, <3>1 DEF LocalTypes, Current
    <3>4. Current'
      BY <3>1, <3>2, <3>3 DEF rows, Current
    <3> QED BY <1>4, <3>1, <3>2, <3>4 DEF Serial
  <2>5. CASE AskReceipt(t)
    <3>1. /\ pc' = [pc EXCEPT ![t] = "run"] /\ pc[t] = "ask" /\ cmd[t].op = "receipt"
          /\ UNCHANGED <<rows, cmd, seen, seenAuth>>
      BY <2>5 DEF AskReceipt
    <3>2. Alone' /\ pc'[t] = "run" /\ \A u \in Processes \ {t} : pc'[u] = "idle"
      BY <1>1, <1>3, <3>1, OnlyMover
    <3>3. Current'
      BY <1>3, <3>1, <3>2 DEF rows, Current
    <3> QED BY <1>4, <3>1, <3>2, <3>3 DEF Serial
  <2> QED BY <1>8, <2>1, <2>2, <2>3, <2>4, <2>5 DEF Read
<1>9. ASSUME NEW t \in Processes, SendRefund(t) PROVE Serial'
  <2>1. pc[t] = "ask" /\ cmd[t].op = "refund" /\ UNCHANGED rows
    BY <1>9 DEF SendRefund
  <2>2. CASE End(t)
    BY <1>7, <2>1, <2>2
  <2>3. CASE pc' = [pc EXCEPT ![t] = "run"] /\ UNCHANGED <<cmd, seen, seenAuth, answer>>
    <3>1. Alone' /\ pc'[t] = "run" /\ \A u \in Processes \ {t} : pc'[u] = "idle"
      BY <1>1, <1>3, <2>1, <2>3, OnlyMover
    <3>2. Current'
      BY <1>3, <2>1, <2>3, <3>1 DEF rows, Current
    <3> QED BY <1>4, <2>1, <3>1, <3>2 DEF Serial
  <2> QED BY <1>9, <2>2, <2>3 DEF SendRefund
<1>10. ASSUME NEW t \in Processes, Write(t) PROVE Serial'
  <2>1. pc[t] # "idle" /\ End(t)
    BY <1>10 DEF Write, Save, Running, initiate_payment, submit_transaction_hash,
       no_receipt_yet, receipt_confirms, receipt_mismatch,
       expire_signature_request, refund
  <2> QED BY <1>1, <1>3, <1>10, <2>1, EndsIdle, WriteForward DEF Serial
<1>11. ASSUME NEW t \in Processes, Rollback(t) PROVE Serial'
  BY <1>7, <1>11 DEF Rollback
<1> QED BY <1>5, <1>6, <1>8, <1>9, <1>10, <1>11 DEF Next

(* The inductive invariant holds in every behaviour.                       *)
THEOREM Invariance == Spec => []IInv
<1>1. Init => IInv
  BY InitIInv
<1>2. IInv /\ [Next]_vars => IInv'
  BY NextIInv
<1> QED BY <1>1, <1>2, PTL DEF Spec

(* Type correctness.                                                       *)
THEOREM TypeCorrect == Spec => []TypeOK
<1>1. IInv => TypeOK
  BY DEF IInv
<1> QED BY <1>1, Invariance, PTL

(* The committed rows can always be loaded, lost updates or not.           *)
THEOREM AlwaysLoadable == Spec => []PaymentLoadable
<1>1. IInv => PaymentLoadable
  BY DEF IInv, RowsShape, PaymentOK, PaymentLoadable
<1> QED BY <1>1, Invariance, PTL

(* No outcome is reported that is not on the chain.                        *)
THEOREM ReportsTruthful == Spec => []ReportedOutcomeIsOnChain
<1>1. IInv => ReportedOutcomeIsOnChain
  BY DEF IInv
<1> QED BY <1>1, Invariance, PTL

(* The part of the inductive invariant about histories without overlap.    *)
THEOREM Serially == Spec => []SerialInv
<1>1. Init => SerialInv
  <2> SUFFICES ASSUME Init PROVE InitiatesById /\ Serial
    BY DEF SerialInv
  <2>1. \A t \in Processes : pc[t] = "idle"
    BY DEF Init
  <2>2. InitiatesById /\ Alone /\ Current
    BY <2>1 DEF Init, InitiatesById, NoCommand, Request, Alone, Current
  <2>3. Story(payment, authorization, events, processed)
    BY DEF Init, Story, NoPayment, NewAuthorization
  <2> QED BY <2>2, <2>3 DEF Serial
<1>2. IInv /\ SerialInv /\ [Next]_vars => SerialInv'
  BY InitiatesStep, SerialStep DEF SerialInv
<1> QED BY <1>1, <1>2, Invariance, PTL DEF Spec

(* Without overlap, a payment has one outcome.                             *)
THEOREM OutcomeIsOne == Spec => []OneOutcome
<1>1. IInv /\ SerialInv => OneOutcome
  <2> SUFFICES ASSUME IInv, SerialInv, ~ overlap, NEW e \in events, NEW f \in events,
                      {e[1], f[1]} \subseteq {"PaymentConfirmedEvent",
                        "PaymentFailedEvent", "PaymentExpiredEvent"}
               PROVE  e = f
    BY DEF OneOutcome
  <2>1. e = <<e[1], e[2]>> /\ f = <<f[1], f[2]>>
    BY DEF IInv, TypeOK
  <2>2. Story(payment, authorization, events, processed)
    BY DEF SerialInv, Serial
  <2>3. /\ e[1] \in {"PaymentConfirmedEvent", "PaymentFailedEvent", "PaymentExpiredEvent"}
        /\ f[1] \in {"PaymentConfirmedEvent", "PaymentFailedEvent", "PaymentExpiredEvent"}
    OBVIOUS
  <2>4. PICK x, y : x = e[2] /\ y = f[2] /\ <<e[1], x>> \in events /\ <<f[1], y>> \in events
    BY <2>1
  <2>5. e[1] = f[1] /\ x = y
    BY <2>2, <2>3, <2>4 DEF Story
  <2> QED BY <2>1, <2>4, <2>5
<1> QED BY <1>1, Invariance, Serially, PTL

(* Without overlap, payment and authorization agree.                       *)
THEOREM RowsAgree == Spec => []AuthorizationAgrees
<1>1. SerialInv => AuthorizationAgrees
  BY DEF SerialInv, Serial, Story, AuthorizationAgrees
<1> QED BY <1>1, Serially, PTL

(* Without overlap, every write is a step of the state machine.            *)
THEOREM MovesForward == Spec => PaymentMovesForward
<1>1. IInv /\ SerialInv /\ [Next]_vars =>
        [~ overlap =>
           /\ payment'.status # payment.status =>
                <<payment.status, payment'.status>> \in Moves
           /\ payment.tx # None => payment'.tx = payment.tx
           /\ payment.receipt # None => payment'.receipt = payment.receipt]_payment
  <2> SUFFICES ASSUME IInv, SerialInv, [Next]_vars, ~ overlap, payment' # payment
               PROVE  Forward(payment, payment')
    BY DEF Forward
  <2>1. PICK t \in Processes : Write(t)
    BY DEF Next, vars, rows, Tick, Mine, BeginRequest, BeginDelivery, BeginPoll,
       BeginTimeout, Begin, Read, Duplicate, NotDuplicate, LoadPayment,
       LoadAuthorization, AskReceipt, SendRefund, Rollback
  <2> QED BY <2>1, WriteForward DEF SerialInv
<1> QED BY <1>1, Invariance, Serially, PTL DEF Spec, PaymentMovesForward
=============================================================================
