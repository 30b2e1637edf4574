----------------------------- MODULE Messaging -----------------------------
(***************************************************************************)
(* From a committed outbox row to its effect in a consumer: the outbox     *)
(* table and OutboxRelay (shared/adapter), one Kafka topic partition, and  *)
(* one KafkaConsumerLoop whose listener records processed_messages in the  *)
(* transaction of its effect.                                              *)
(*                                                                         *)
(* WorkerRuntime.run_once runs the relay's batch and the consumer's batch  *)
(* in one thread, one after the other; every statement of the relay and    *)
(* every listener call is a transaction of its own.  Kafka and its client  *)
(* are external: a poll moves the consumer's position past everything it   *)
(* returns, and commit() commits that position.                            *)
(***************************************************************************)
EXTENDS Integers, FiniteSets, SequencesExt

CONSTANTS
  Messages,    \* outbox identities
  Malformed,   \* those a listener refuses as MalformedKafkaMessage
  BatchLimit,  \* rows claimed, or records polled, at once
  MaxLog,      \* bound on the topic: how often a publication is repeated
  MaxRestarts, \* bound on the worker's restarts
  Faults,      \* what may go wrong
  None

ASSUME MessagingConstants ==
  /\ IsFiniteSet(Messages)
  /\ Malformed \subseteq Messages
  /\ BatchLimit \in Nat \ {0}
  /\ MaxLog \in Nat
  /\ MaxRestarts \in Nat
  /\ Faults \subseteq {"restart", "mark", "publish", "handle", "commit"}
  /\ None \notin Messages

VARIABLES
  outbox,    \* status of every outbox row, "NONE" before it is inserted
  created,   \* created_at of every row, 0 before it is inserted
  topic,     \* the partition's records
  committed, \* the consumer group's committed offset
  processed, \* committed processed_messages
  effects,   \* how often the effect of a message was committed
  pc,        \* what the worker is doing
  batch,     \* rows the relay claimed and has not dealt with
  sent,      \* the row it has published and not marked
  polled,    \* records the loop polled and has not dealt with
  position,  \* the consumer's position
  restarts

store  == <<outbox, created, topic, committed, processed, effects>>
worker == <<pc, batch, sent, polled, position>>
vars   == <<outbox, created, topic, committed, processed, effects,
            pc, batch, sent, polled, position, restarts>>

OutboxPublishStatus == {"READY", "PUBLISHING", "PUBLISHED", "FAILED"}

Init ==
  /\ outbox = [m \in Messages |-> "NONE"]
  /\ created = [m \in Messages |-> 0]
  /\ topic = <<>>
  /\ committed = 0
  /\ processed = {}
  /\ effects = [m \in Messages |-> 0]
  /\ pc = "idle"
  /\ batch = {}
  /\ sent = None
  /\ polled = <<>>
  /\ position = 0
  /\ restarts = 0

(* A business transaction commits with its outbox row.  A second insert of *)
(* the identity does nothing.                                              *)
save(m) ==
  /\ outbox[m] = "NONE"
  /\ outbox' = [outbox EXCEPT ![m] = "READY"]
  /\ created' = [created EXCEPT ![m] =
                   1 + Cardinality({n \in Messages : outbox[n] # "NONE"})]
  /\ UNCHANGED <<topic, committed, processed, effects, worker, restarts>>

-----------------------------------------------------------------------------
(* OutboxRelay.publish_batch.                                              *)

ClaimOnlyReady == \* mutant: FAILED rows are not claimed again
  {m \in Messages : outbox[m] = "READY"}

Claimable == {m \in Messages : outbox[m] \in {"READY", "FAILED"}}

Oldest(S) ==
  /\ S # {}
  /\ Cardinality(S) <= BatchLimit
  /\ S = Claimable \/ Cardinality(S) = BatchLimit
  /\ \A m \in S, n \in Claimable \ S : created[m] < created[n]

ClaimWithoutUpdate == \* mutant: the rows are selected and not updated
  /\ pc = "idle"
  /\ \E S \in SUBSET Claimable : Oldest(S) /\ batch' = S
  /\ pc' = "relay"
  /\ UNCHANGED <<store, sent, polled, position, restarts>>

(* UPDATE ... RETURNING hands the rows back in no particular order.        *)
claim_ready_batch ==
  /\ pc = "idle"
  /\ \E S \in SUBSET Claimable :
       /\ Oldest(S)
       /\ batch' = S
       /\ outbox' = [m \in Messages |->
                       IF m \in S THEN "PUBLISHING" ELSE outbox[m]]
  /\ pc' = "relay"
  /\ UNCHANGED <<created, topic, committed, processed, effects, sent, polled,
                 position, restarts>>

Unsent(m) == pc = "relay" /\ sent = None /\ m \in batch

MarkBeforePublish(m) == \* mutant: the send is not waited for
  /\ Unsent(m)
  /\ \E arrives \in BOOLEAN :
       topic' = IF arrives THEN Append(topic, m) ELSE topic
  /\ sent' = m
  /\ UNCHANGED <<outbox, created, committed, processed, effects, pc, batch,
                 polled, position, restarts>>

publish(m) ==
  /\ Unsent(m)
  /\ topic' = Append(topic, m)
  /\ sent' = m
  /\ UNCHANGED <<outbox, created, committed, processed, effects, pc, batch,
                 polled, position, restarts>>

mark_published ==
  /\ pc = "relay"
  /\ sent # None
  /\ outbox' = [outbox EXCEPT ![sent] = "PUBLISHED"]
  /\ batch' = batch \ {sent}
  /\ sent' = None
  /\ UNCHANGED <<created, topic, committed, processed, effects, pc, polled,
                 position, restarts>>

(* The producer raises.  On a timeout the record may have arrived.         *)
PublishFails(m) ==
  /\ "publish" \in Faults
  /\ Unsent(m)
  /\ Len(topic) < MaxLog
  /\ \E arrives \in BOOLEAN :
       topic' = IF arrives THEN Append(topic, m) ELSE topic
  /\ outbox' = [outbox EXCEPT ![m] = "FAILED"]
  /\ batch' = batch \ {m}
  /\ UNCHANGED <<created, committed, processed, effects, pc, sent, polled,
                 position, restarts>>

BatchDone ==
  /\ pc = "relay"
  /\ batch = {}
  /\ pc' = "idle"
  /\ UNCHANGED <<store, batch, sent, polled, position, restarts>>

(* mark_published or mark_failed raises: publish_batch ends and forgets    *)
(* the rows it had claimed.                                                *)
MarkFails ==
  /\ "mark" \in Faults
  /\ pc = "relay"
  /\ batch # {}
  /\ batch' = {}
  /\ sent' = None
  /\ pc' = "idle"
  /\ UNCHANGED <<store, polled, position, restarts>>

-----------------------------------------------------------------------------
(* KafkaConsumerLoop.run_batch.                                            *)

poll ==
  /\ pc = "idle"
  /\ position < Len(topic)
  /\ position' = IF Len(topic) - position < BatchLimit
                 THEN Len(topic) ELSE position + BatchLimit
  /\ polled' = SubSeq(topic, position + 1, position')
  /\ pc' = "handle"
  /\ UNCHANGED <<store, batch, sent, restarts>>

HandleAgain == \* mutant: was_processed is not consulted
  /\ pc = "handle"
  /\ polled # <<>>
  /\ LET m == Head(polled)
         new == {m} \ Malformed
     IN /\ processed' = processed \cup new
        /\ effects' = [x \in Messages |->
                         IF x \in new THEN effects[x] + 1 ELSE effects[x]]
  /\ pc' = "commit"
  /\ UNCHANGED <<outbox, created, topic, committed, batch, sent, polled,
                 position, restarts>>

HandleUnrecorded == \* mutant: the effect is committed, its record is not
  /\ pc = "handle"
  /\ polled # <<>>
  /\ LET new == {Head(polled)} \ (Malformed \cup processed)
     IN effects' = [x \in Messages |->
                      IF x \in new THEN effects[x] + 1 ELSE effects[x]]
  /\ pc' = "commit"
  /\ UNCHANGED <<outbox, created, topic, committed, processed, batch, sent,
                 polled, position, restarts>>

(* The listener's transaction commits; a duplicate is ignored, a malformed *)
(* record is logged and passed over.                                       *)
handle_record ==
  /\ pc = "handle"
  /\ polled # <<>>
  /\ LET m == Head(polled)
         new == {m} \ (Malformed \cup processed)
     IN /\ processed' = processed \cup new
        /\ effects' = [x \in Messages |->
                         IF x \in new THEN effects[x] + 1 ELSE effects[x]]
  /\ pc' = "commit"
  /\ UNCHANGED <<outbox, created, topic, committed, batch, sent, polled,
                 position, restarts>>

(* Any other exception ends run_batch; WorkerRuntime logs it and goes on.  *)
HandleRaises ==
  /\ "handle" \in Faults
  /\ pc = "handle"
  /\ polled # <<>>
  /\ Head(polled) \notin Malformed
  /\ polled' = <<>>
  /\ pc' = "idle"
  /\ UNCHANGED <<store, batch, sent, position, restarts>>

CommitOneTooFar == \* mutant: the offset of the next record but one
  /\ pc = "commit"
  /\ committed' = position + 1
  /\ polled' = Tail(polled)
  /\ pc' = IF Len(polled) = 1 THEN "idle" ELSE "handle"
  /\ UNCHANGED <<outbox, created, topic, processed, effects, batch, sent,
                 position, restarts>>

commit ==
  /\ pc = "commit"
  /\ committed' = position
  /\ polled' = Tail(polled)
  /\ pc' = IF Len(polled) = 1 THEN "idle" ELSE "handle"
  /\ UNCHANGED <<outbox, created, topic, processed, effects, batch, sent,
                 position, restarts>>

(* The broker refuses the offset: run_batch ends, a later commit covers    *)
(* what it passed over.                                                    *)
CommitRaises ==
  /\ "commit" \in Faults
  /\ pc = "commit"
  /\ polled' = <<>>
  /\ pc' = "idle"
  /\ UNCHANGED <<store, batch, sent, position, restarts>>

-----------------------------------------------------------------------------
(* The worker process dies and is started again.                           *)
Restart ==
  /\ "restart" \in Faults
  /\ restarts < MaxRestarts
  /\ restarts' = restarts + 1
  /\ pc' = "idle"
  /\ batch' = {}
  /\ sent' = None
  /\ polled' = <<>>
  /\ position' = committed
  /\ UNCHANGED store

Relay ==
  \/ claim_ready_batch \/ mark_published \/ BatchDone
  \/ \E m \in Messages : publish(m)

Consume == poll \/ handle_record \/ commit

Next ==
  \/ \E m \in Messages : save(m) \/ PublishFails(m)
  \/ Relay \/ Consume
  \/ MarkFails \/ HandleRaises \/ CommitRaises \/ Restart

Spec == Init /\ [][Next]_vars

(* run_once runs the relay and the consumer in turn, round after round, so *)
(* neither starves the other; a publication does not fail forever.         *)
Fairness ==
  /\ WF_vars(Relay \/ Consume)
  /\ SF_vars(claim_ready_batch)
  /\ SF_vars(poll)
  /\ SF_vars(\E m \in Messages : publish(m))

FairSpec == Spec /\ Fairness

-----------------------------------------------------------------------------
(* Where the consumer is in the topic: the record whose listener call was  *)
(* committed counts as passed before its offset does.                      *)
Offset == position - Len(polled) + IF pc = "commit" THEN 1 ELSE 0

(* The messages of a log s with no copy behind its k-th record.            *)
PassedIn(s, k) == {m \in ToSet(s) : \A i \in DOMAIN s : s[i] = m => i <= k}

(* What the consumer may expect, whatever fails, and however often.        *)
Mail == INSTANCE Mailbox WITH
  sent <- {m \in Messages : outbox[m] # "NONE"},
  past <- PassedIn(topic, Offset)

(* Every step of relay, broker and consumer loop is one that Mailbox       *)
(* allows: no effect of a message that is not saved, that was passed or    *)
(* refused, or that had it before, although a record may be published      *)
(* twice, its offset forgotten, or committed too early.                    *)
ImplementsMailbox == Mail!Spec

-----------------------------------------------------------------------------
(* Types of all variables; the offsets stay within the log.                *)
TypeOK ==
  /\ outbox \in [Messages -> OutboxPublishStatus \cup {"NONE"}]
  /\ created \in [Messages -> Nat]
  /\ topic \in Seq(Messages)
  /\ committed \in 0 .. position
  /\ processed \subseteq Messages
  /\ effects \in [Messages -> Nat]
  /\ pc \in {"idle", "relay", "handle", "commit"}
  /\ batch \subseteq Messages
  /\ sent \in Messages \cup {None}
  /\ polled \in Seq(Messages)
  /\ position \in 0 .. Len(topic)
  /\ restarts \in 0 .. MaxRestarts

(* However often a record is published or delivered, its effect is         *)
(* committed at most once, and only that of a message someone saved.       *)
EffectOnce ==
  \A m \in Messages : effects[m] > 0 => effects[m] = 1 /\ outbox[m] # "NONE"

(* A row the outbox calls PUBLISHED is in the topic, and a record of the   *)
(* topic has a row that was claimed.                                       *)
PublishedIsInTopic ==
  /\ \A m \in Messages : outbox[m] = "PUBLISHED" => m \in ToSet(topic)
  /\ \A i \in 1 .. Len(topic) : outbox[topic[i]] \notin {"NONE", "READY"}

(* The batch and the row being marked are rows the table says are claimed: *)
(* mark_published and mark_failed find their PUBLISHING row.               *)
ClaimsAreMarkable ==
  /\ \A m \in batch : outbox[m] = "PUBLISHING"
  /\ sent # None => sent \in batch

(* A saved message takes effect in the end, unless one of the two places   *)
(* where the code lets go of it did: its row was claimed and the claim     *)
(* forgotten, or the consumer's position went past its record.             *)
Forgotten(m) == outbox[m] = "PUBLISHING" /\ m \notin batch

PassedOver(m) ==
  \E i \in 1 .. position - Len(polled) : topic[i] = m

EveryMessageIsAccountedFor ==
  \A m \in Messages \ Malformed :
    outbox[m] = "READY" ~> effects[m] = 1 \/ Forgotten(m) \/ PassedOver(m)

(* What the documents say, and the code does not keep:                     *)

(* Delivery is at least once: a saved message is published some day.       *)
AtLeastOnce ==
  \A m \in Messages : outbox[m] = "READY" ~> m \in ToSet(topic)
=============================================================================
