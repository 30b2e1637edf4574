-------------------------- MODULE MessagingProofs --------------------------
(***************************************************************************)
(* Theorems about Messaging, for any finite set of messages, any batch     *)
(* size and every combination of faults.                                   *)
(***************************************************************************)
EXTENDS Messaging, SequenceTheorems, FiniteSetTheorems, TLAPS

(* processed_messages and the effects are committed together, and only a   *)
(* message that was saved is processed.                                    *)
EffectsMatch ==
  /\ \A m \in Messages : effects[m] = IF m \in processed THEN 1 ELSE 0
  /\ \A m \in processed : outbox[m] # "NONE"

(* Everything that was polled is a saved message.                          *)
PolledSaved ==
  /\ \A i \in 1 .. Len(polled) : outbox[polled[i]] # "NONE"
  /\ pc = "commit" => polled # <<>>

(* What is in the topic, of a row that is published or being marked.       *)
InTopic ==
  /\ sent # None => sent \in ToSet(topic)
  /\ PublishedIsInTopic

(* The inductive invariant.                                                *)
IInv ==
  /\ TypeOK
  /\ EffectsMatch
  /\ PolledSaved
  /\ InTopic
  /\ ClaimsAreMarkable
  /\ pc # "relay" => batch = {} /\ sent = None

USE MessagingConstants

LEMMA InitIInv == Init => IInv
<1> SUFFICES ASSUME Init PROVE IInv
  OBVIOUS
<1>1. TypeOK
  <2>1. /\ outbox \in [Messages -> OutboxPublishStatus \cup {"NONE"}]
        /\ created \in [Messages -> Nat]
        /\ effects \in [Messages -> Nat]
    BY DEF Init
  <2>2. /\ topic \in Seq(Messages) /\ polled \in Seq(Messages)
        /\ committed \in 0 .. position /\ position \in 0 .. Len(topic)
    BY DEF Init
  <2>3. /\ processed \subseteq Messages /\ batch \subseteq Messages
        /\ sent \in Messages \cup {None}
        /\ pc \in {"idle", "relay", "handle", "commit"}
        /\ restarts \in 0 .. MaxRestarts
    BY DEF Init
  <2> QED BY <2>1, <2>2, <2>3 DEF TypeOK
<1>2. EffectsMatch /\ PolledSaved /\ ClaimsAreMarkable
  BY DEF Init, EffectsMatch, PolledSaved, ClaimsAreMarkable
<1>3. InTopic
  BY DEF Init, InTopic, PublishedIsInTopic
<1> QED BY <1>1, <1>2, <1>3 DEF IInv, Init

LEMMA ToSetAppend ==
  ASSUME NEW S, NEW s \in Seq(S), NEW e \in S
  PROVE  /\ ToSet(Append(s, e)) = ToSet(s) \cup {e}
         /\ Append(s, e) \in Seq(S)
         /\ Len(Append(s, e)) = Len(s) + 1
         /\ \A i \in 1 .. Len(s) + 1 :
              Append(s, e)[i] = IF i = Len(s) + 1 THEN e ELSE s[i]
<1>1. /\ Append(s, e) \in Seq(S)
      /\ Len(Append(s, e)) = Len(s) + 1
      /\ \A i \in 1 .. Len(s) + 1 :
           Append(s, e)[i] = IF i = Len(s) + 1 THEN e ELSE s[i]
  BY AppendProperties
<1>2. DOMAIN s = 1 .. Len(s) /\ DOMAIN Append(s, e) = 1 .. Len(s) + 1
  BY <1>1, LenProperties
<1>3. ASSUME NEW x PROVE x \in ToSet(Append(s, e)) <=> x \in ToSet(s) \cup {e}
  <2>1. Len(s) \in Nat
    BY LenProperties
  <2> QED BY <1>1, <1>2, <2>1 DEF ToSet
<1> QED BY <1>1, <1>3

LEMMA SaveStep == ASSUME IInv, NEW m \in Messages, save(m) PROVE IInv'
<1> USE DEF IInv, save, worker
<1>1. Cardinality({n \in Messages : outbox[n] # "NONE"}) \in Nat
  BY FS_Subset, FS_CardinalityType
<1>2. TypeOK'
  BY <1>1 DEF TypeOK, OutboxPublishStatus
<1>3. EffectsMatch' /\ PolledSaved' /\ ClaimsAreMarkable'
  BY DEF TypeOK, EffectsMatch, PolledSaved, ClaimsAreMarkable
<1>4. InTopic'
  BY DEF TypeOK, InTopic, PublishedIsInTopic
<1> QED BY <1>2, <1>3, <1>4

LEMMA ClaimStep == ASSUME IInv, claim_ready_batch PROVE IInv'
<1>1. PICK S \in SUBSET Claimable :
        /\ batch' = S
        /\ outbox' = [m \in Messages |->
                        IF m \in S THEN "PUBLISHING" ELSE outbox[m]]
  BY DEF claim_ready_batch
<1>2. /\ \A m \in Messages : outbox'[m] = IF m \in S THEN "PUBLISHING"
                                          ELSE outbox[m]
      /\ \A m \in S : m \in Messages /\ outbox[m] # "NONE"
      /\ pc = "idle" /\ sent = None
  BY <1>1 DEF Claimable, claim_ready_batch, IInv
<1> USE DEF IInv, claim_ready_batch
<1>3. TypeOK'
  BY <1>1, <1>2 DEF TypeOK, OutboxPublishStatus
<1>4. EffectsMatch' /\ PolledSaved'
  BY <1>1, <1>2 DEF TypeOK, EffectsMatch, PolledSaved
<1>5. InTopic' /\ ClaimsAreMarkable'
  BY <1>1, <1>2 DEF TypeOK, InTopic, PublishedIsInTopic, ClaimsAreMarkable
<1> QED BY <1>2, <1>3, <1>4, <1>5

(* The record of m is appended, for a row of the batch.                    *)
LEMMA PublishStep ==
  ASSUME IInv, NEW m \in Messages, publish(m) PROVE IInv'
<1> USE DEF IInv, publish, Unsent
<1>1. topic \in Seq(Messages) /\ m \in batch /\ pc = "relay"
  BY DEF TypeOK
<1>2. TypeOK'
  BY <1>1, ToSetAppend DEF TypeOK
<1>3. EffectsMatch' /\ PolledSaved' /\ ClaimsAreMarkable'
  BY <1>1 DEF EffectsMatch, PolledSaved, ClaimsAreMarkable
<1>4. InTopic'
  <2>1. outbox[m] = "PUBLISHING"
    BY <1>1 DEF ClaimsAreMarkable
  <2>2. /\ \A i \in 1 .. Len(topic') : outbox'[topic'[i]] \notin {"NONE", "READY"}
    BY <1>1, <2>1, ToSetAppend DEF InTopic, PublishedIsInTopic
  <2>3. ToSet(topic') = ToSet(topic) \cup {m}
    BY <1>1, ToSetAppend
  <2> QED BY <2>2, <2>3 DEF InTopic, PublishedIsInTopic
<1> QED BY <1>1, <1>2, <1>3, <1>4

LEMMA MarkPublishedStep == ASSUME IInv, mark_published PROVE IInv'
<1> USE DEF IInv, mark_published
<1>1. sent \in Messages /\ sent \in batch /\ sent \in ToSet(topic)
  BY DEF TypeOK, InTopic, ClaimsAreMarkable
<1>2. TypeOK'
  BY <1>1 DEF TypeOK, OutboxPublishStatus
<1>3. EffectsMatch' /\ PolledSaved' /\ ClaimsAreMarkable'
  BY <1>1 DEF TypeOK, EffectsMatch, PolledSaved, ClaimsAreMarkable
<1>4. InTopic'
  BY <1>1 DEF TypeOK, InTopic, PublishedIsInTopic
<1> QED BY <1>2, <1>3, <1>4

LEMMA PublishFailsStep ==
  ASSUME IInv, NEW m \in Messages, PublishFails(m) PROVE IInv'
<1> USE DEF IInv, PublishFails, Unsent
<1>1. topic \in Seq(Messages) /\ m \in batch /\ pc = "relay"
  BY DEF TypeOK
<1>2. topic' = topic \/ topic' = Append(topic, m)
  OBVIOUS
<1>3. /\ topic' \in Seq(Messages)
      /\ Len(topic') >= Len(topic)
      /\ ToSet(topic) \subseteq ToSet(topic')
      /\ \A i \in 1 .. Len(topic') :
           \/ topic'[i] = m
           \/ i \in 1 .. Len(topic) /\ topic'[i] = topic[i]
      /\ Len(topic') \in Nat /\ Len(topic) \in Nat
  <2>1. CASE topic' = topic
    BY <1>1, <2>1, LenProperties
  <2>2. CASE topic' = Append(topic, m)
    <3>1. Len(topic) \in Nat
      BY <1>1, LenProperties
    <3>2. /\ topic' \in Seq(Messages)
          /\ Len(topic') = Len(topic) + 1
          /\ ToSet(topic') = ToSet(topic) \cup {m}
          /\ \A i \in 1 .. Len(topic) + 1 :
               topic'[i] = IF i = Len(topic) + 1 THEN m ELSE topic[i]
      BY <1>1, <2>2, ToSetAppend
    <3> HIDE DEF PublishFails, IInv
    <3> QED BY <3>1, <3>2
  <2> QED BY <1>2, <2>1, <2>2
<1>4. TypeOK'
  <2>1. position' \in 0 .. Len(topic')
    BY <1>3 DEF TypeOK
  <2> HIDE DEF PublishFails
  <2>2. outbox' = [outbox EXCEPT ![m] = "FAILED"] /\ batch' = batch \ {m}
        /\ UNCHANGED <<created, committed, processed, effects, pc, sent,
                       polled, position, restarts>>
    BY DEF PublishFails
  <2> QED BY <1>3, <2>1, <2>2 DEF TypeOK, OutboxPublishStatus
<1>5. EffectsMatch' /\ PolledSaved' /\ ClaimsAreMarkable'
  BY <1>1 DEF TypeOK, EffectsMatch, PolledSaved, ClaimsAreMarkable
<1>6. InTopic'
  <2>1. \A n \in Messages : outbox'[n] = IF n = m THEN "FAILED" ELSE outbox[n]
    BY DEF TypeOK
  <2>2. \A i \in 1 .. Len(topic') : topic'[i] \in Messages
    BY <1>3, ElementOfSeq
  <2> HIDE DEF PublishFails
  <2>3. sent' = None
    BY DEF PublishFails
  <2> QED BY <1>3, <2>1, <2>2, <2>3 DEF InTopic, PublishedIsInTopic
<1> QED BY <1>1, <1>4, <1>5, <1>6

(* The worker forgets what it was doing.                                   *)
LEMMA ForgetStep ==
  ASSUME IInv, UNCHANGED store, pc' = "idle", batch' = {}, sent' = None,
         polled' \in {<<>>, polled}, position' \in {position, committed},
         restarts' \in 0 .. MaxRestarts
  PROVE  IInv'
<1> USE DEF IInv, store
<1>1. TypeOK'
  <2>1. polled' \in Seq(Messages)
    <3>1. <<>> \in Seq(Messages)
      BY ONLY EmptySeq
    <3>2. polled \in Seq(Messages)
      BY DEF TypeOK
    <3> QED BY ONLY <3>1, <3>2, polled' \in {<<>>, polled}
  <2>2. /\ committed' \in 0 .. position'
        /\ position' \in 0 .. Len(topic')
    BY DEF TypeOK
  <2>3. /\ UNCHANGED <<outbox, created, topic, processed, effects>>
        /\ pc' = "idle" /\ batch' = {} /\ sent' = None
        /\ restarts' \in 0 .. MaxRestarts
    OBVIOUS
  <2> QED BY <2>1, <2>2, <2>3 DEF TypeOK
<1>2. EffectsMatch' /\ ClaimsAreMarkable' /\ InTopic'
  BY DEF EffectsMatch, ClaimsAreMarkable, InTopic, PublishedIsInTopic
<1>3. PolledSaved'
  BY DEF PolledSaved
<1> QED BY <1>1, <1>2, <1>3

(* The records of a poll are the next of the topic.                        *)
LEMMA PollRecords ==
  ASSUME IInv, poll
  PROVE  /\ polled' \in Seq(Messages)
         /\ Len(polled') = position' - position
         /\ \A i \in 1 .. position' - position : polled'[i] = topic[position + i]
         /\ position \in Nat /\ position' \in Nat
         /\ position < position' /\ position' <= Len(topic)
<1>1. /\ position \in Nat /\ position' \in Nat
      /\ position < position' /\ position' <= Len(topic)
      /\ topic \in Seq(Messages)
  BY DEF IInv, poll, TypeOK
<1>2. \A i \in position + 1 .. position' : topic[i] \in Messages
  BY <1>1, ElementOfSeq
<1>3. polled' = SubSeq(topic, position + 1, position')
  BY DEF poll
<1>4. /\ polled' \in Seq(Messages)
      /\ Len(polled') = position' - position
      /\ \A i \in 1 .. position' - position : polled'[i] = topic[position + i]
  <2> DEFINE first == position + 1
  <2>1. first \in Int /\ position' \in Int /\ first <= position'
    BY <1>1
  <2>2. \A i \in first .. position' : topic[i] \in Messages
    BY <1>2
  <2> HIDE DEF first
  <2>3. /\ SubSeq(topic, first, position') \in Seq(Messages)
        /\ Len(SubSeq(topic, first, position')) = position' - first + 1
        /\ \A i \in 1 .. position' - first + 1 :
             SubSeq(topic, first, position')[i] = topic[first + i - 1]
    <3> DEFINE last == position'
    <3> HIDE DEF last
    <3>1. /\ SubSeq(topic, first, last) \in Seq(Messages)
          /\ Len(SubSeq(topic, first, last)) =
               IF first <= last THEN last - first + 1 ELSE 0
          /\ \A i \in 1 .. last - first + 1 :
               SubSeq(topic, first, last)[i] = topic[first + i - 1]
      <4>1. first \in Int /\ last \in Int
        BY <2>1 DEF last
      <4>2. \A i \in first .. last : topic[i] \in Messages
        BY <2>2 DEF last
      <4> QED BY ONLY <4>1, <4>2, SubSeqProperties
    <3> QED BY <2>1, <3>1 DEF last
  <2>4. first = position + 1
    BY DEF first
  <2>5. position' - first + 1 = position' - position
    BY <1>1, <2>4
  <2>6. \A i \in 1 .. position' - position : first + i - 1 = position + i
    BY <1>1, <2>4
  <2> QED BY <1>3, <2>3, <2>4, <2>5, <2>6
<1> QED
  BY <1>1, <1>4

LEMMA PollStep == ASSUME IInv, poll PROVE IInv'
<1>1. /\ position \in Nat /\ position' \in Nat
      /\ position < position' /\ position' <= Len(topic)
      /\ topic \in Seq(Messages)
  BY PollRecords DEF IInv, TypeOK
<1>4. /\ polled' \in Seq(Messages)
      /\ Len(polled') = position' - position
      /\ \A i \in 1 .. position' - position : polled'[i] = topic[position + i]
  BY PollRecords
<1> USE DEF IInv, poll, store
<1>7. TypeOK'
  <2>1. /\ committed' \in 0 .. position' /\ position' \in 0 .. Len(topic')
        /\ pc' \in {"idle", "relay", "handle", "commit"}
    BY <1>1 DEF TypeOK
  <2>2. polled' \in Seq(Messages)
    BY <1>4
  <2> HIDE DEF poll
  <2>3. UNCHANGED <<store, batch, sent, restarts>>
    BY DEF poll
  <2> QED BY <2>1, <2>2, <2>3 DEF TypeOK
<1>5. PolledSaved'
  BY <1>1, <1>4 DEF InTopic, PublishedIsInTopic, PolledSaved
<1>6. EffectsMatch' /\ ClaimsAreMarkable' /\ InTopic'
  BY DEF EffectsMatch, ClaimsAreMarkable, InTopic, PublishedIsInTopic
<1> QED BY <1>5, <1>6, <1>7

LEMMA HandleStep == ASSUME IInv, handle_record PROVE IInv'
<1> DEFINE new == {Head(polled)} \ (Malformed \cup processed)
<1>1. Head(polled) \in Messages /\ outbox[Head(polled)] # "NONE"
  <2>1. polled \in Seq(Messages) /\ polled # <<>>
    BY DEF IInv, TypeOK, handle_record
  <2>2. Head(polled) = polled[1] /\ 1 \in 1 .. Len(polled)
    BY <2>1
  <2> QED BY <2>1, <2>2, ElementOfSeq DEF IInv, PolledSaved
<1>2. /\ processed' = processed \cup new
      /\ effects' = [x \in Messages |->
                       IF x \in new THEN effects[x] + 1 ELSE effects[x]]
  BY DEF handle_record
<1>3. /\ new \subseteq Messages \ processed
      /\ \A m \in new : outbox[m] # "NONE"
  BY <1>1
<1> HIDE DEF new
<1> USE DEF IInv, handle_record
<1>4. TypeOK'
  BY <1>2, <1>3 DEF TypeOK
<1>5. EffectsMatch'
  BY <1>2, <1>3 DEF TypeOK, EffectsMatch
<1>6. PolledSaved' /\ ClaimsAreMarkable' /\ InTopic'
  BY DEF PolledSaved, ClaimsAreMarkable, InTopic, PublishedIsInTopic
<1> QED BY <1>4, <1>5, <1>6

LEMMA CommitStep == ASSUME IInv, commit PROVE IInv'
<1> USE DEF IInv, commit
<1>1. polled \in Seq(Messages) /\ polled # <<>>
  BY DEF TypeOK, PolledSaved
<1>2. /\ Tail(polled) \in Seq(Messages)
      /\ Len(Tail(polled)) = Len(polled) - 1
      /\ \A i \in 1 .. Len(Tail(polled)) : Tail(polled)[i] = polled[i + 1]
      /\ Len(polled) \in Nat
  BY <1>1, HeadTailProperties, LenProperties
<1>3. TypeOK'
  BY <1>2 DEF TypeOK
<1>4. PolledSaved'
  BY <1>2 DEF PolledSaved
<1>5. EffectsMatch' /\ ClaimsAreMarkable' /\ InTopic'
  BY DEF EffectsMatch, ClaimsAreMarkable, InTopic, PublishedIsInTopic
<1> QED BY <1>3, <1>4, <1>5

LEMMA NextIInv == IInv /\ [Next]_vars => IInv'
<1> SUFFICES ASSUME IInv, [Next]_vars PROVE IInv'
  OBVIOUS
<1>1. CASE \E m \in Messages : save(m) \/ PublishFails(m)
  BY <1>1, SaveStep, PublishFailsStep
<1>2. CASE Relay
  <2>1. CASE BatchDone
    <3>1. batch' = {} /\ sent' = None /\ restarts' \in 0 .. MaxRestarts
      BY <2>1 DEF BatchDone, IInv, TypeOK, ClaimsAreMarkable
    <3> QED BY <2>1, <3>1, ForgetStep DEF BatchDone
  <2> QED BY <1>2, <2>1, ClaimStep, MarkPublishedStep, PublishStep DEF Relay
<1>3. CASE Consume
  BY <1>3, PollStep, HandleStep, CommitStep DEF Consume
<1>4. CASE MarkFails
  BY <1>4, ForgetStep DEF MarkFails, IInv, TypeOK
<1>5. CASE HandleRaises
  <2>1. batch' = {} /\ sent' = None
    BY <1>5 DEF HandleRaises, IInv
  <2> QED BY <1>5, <2>1, ForgetStep DEF HandleRaises, IInv, TypeOK
<1>8. CASE CommitRaises
  <2>1. batch' = {} /\ sent' = None
    BY <1>8 DEF CommitRaises, IInv
  <2> QED BY <1>8, <2>1, ForgetStep DEF CommitRaises, IInv, TypeOK
<1>6. CASE Restart
  BY <1>6, ForgetStep DEF Restart, IInv, TypeOK
<1>7. CASE UNCHANGED vars
  BY <1>7 DEF vars, IInv, TypeOK, EffectsMatch, PolledSaved, InTopic,
              PublishedIsInTopic, ClaimsAreMarkable
<1> QED BY <1>1, <1>2, <1>3, <1>4, <1>5, <1>6, <1>7, <1>8 DEF Next

(* The inductive invariant holds in every behaviour.                       *)
THEOREM Invariance == Spec => []IInv
<1>1. Init => IInv
  BY InitIInv
<1>2. IInv /\ [Next]_vars => IInv'
  BY NextIInv
<1> QED BY <1>1, <1>2, PTL DEF Spec

(* Type correctness, and offsets within the log.                           *)
THEOREM TypeCorrect == Spec => []TypeOK
<1>1. IInv => TypeOK
  BY DEF IInv
<1> QED BY <1>1, Invariance, PTL

(* Effects are committed at most once, under every fault.                  *)
THEOREM AtMostOnce == Spec => []EffectOnce
<1>1. IInv => EffectOnce
  BY DEF IInv, EffectsMatch, EffectOnce
<1> QED BY <1>1, Invariance, PTL

(* PUBLISHED rows are in the topic, topic records have claimed rows.       *)
THEOREM PublishedTruthful == Spec => []PublishedIsInTopic
<1>1. IInv => PublishedIsInTopic
  BY DEF IInv, InTopic
<1> QED BY <1>1, Invariance, PTL

(* The relay marks only rows that are PUBLISHING.                          *)
THEOREM MarksFindTheirRow == Spec => []ClaimsAreMarkable
<1>1. IInv => ClaimsAreMarkable
  BY DEF IInv
<1> QED BY <1>1, Invariance, PTL

-----------------------------------------------------------------------------
(* The refinement.  A message is past when no copy of it lies behind       *)
(* Offset; so what polled holds must be what lies there.                   *)

(* The consumer holds the records before its position, and none while the  *)
(* relay runs.                                                             *)
PolledNext ==
  /\ pc \in {"idle", "relay"} => polled = <<>>
  /\ Len(polled) <= position
  /\ \A i \in 1 .. Len(polled) : polled[i] = topic[position - Len(polled) + i]

LEMMA PolledSteps ==
  ASSUME IInv, PolledNext, [Next]_vars
  PROVE  PolledNext'
<1>0. position \in Nat /\ committed \in Nat /\ topic \in Seq(Messages)
      /\ polled \in Seq(Messages) /\ Len(polled) \in Nat
  BY DEF IInv, TypeOK
<1>1. CASE /\ polled' = <<>> /\ position' \in Nat
  BY <1>1 DEF PolledNext
<1>2. CASE /\ UNCHANGED <<topic, polled, position>>
           /\ pc' \in {"idle", "relay"} => pc \in {"idle", "relay"}
  BY <1>2 DEF PolledNext
<1>3. CASE poll
  <2>1. /\ Len(polled') = position' - position
        /\ \A i \in 1 .. position' - position : polled'[i] = topic[position + i]
        /\ position' \in Nat
    BY <1>3, PollRecords
  <2>2. pc' = "handle" /\ topic' = topic
    BY <1>3 DEF poll, store
  <2>3. position' - Len(polled') = position
    <3> DEFINE to == position'
    <3>1. to - (to - position) = position
      <4>1. to \in Int /\ position \in Int
        BY <1>0, <2>1
      <4> HIDE DEF to
      <4> QED
        BY ONLY <4>1
    <3> QED
      BY <2>1, <3>1, Zenon
  <2>4. \A i \in 1 .. Len(polled') :
          polled'[i] = topic'[position' - Len(polled') + i]
    BY <2>1, <2>2, <2>3
  <2>5. Len(polled') <= position'
    BY <1>0, <2>1
  <2> QED
    BY <2>2, <2>4, <2>5 DEF PolledNext
<1>4. CASE commit
  <2>1. polled # <<>>
    BY <1>4 DEF commit, IInv, PolledSaved
  <2>2. /\ Len(Tail(polled)) = Len(polled) - 1
        /\ \A i \in 1 .. Len(Tail(polled)) : Tail(polled)[i] = polled[i + 1]
    BY <1>0, <2>1, HeadTailProperties
  <2>3. polled' = Tail(polled) /\ topic' = topic /\ position' = position
    BY <1>4 DEF commit
  <2>4. pc' \in {"idle", "relay"} => polled' = <<>>
    <3>1. pc' \in {"idle", "relay"} => Len(polled) = 1
      BY <1>4 DEF commit
    <3>2. Len(polled) = 1 => Len(Tail(polled)) = 0
      BY <2>2
    <3>3. Tail(polled) \in Seq(Messages)
      BY <1>0, <2>1, HeadTailProperties
    <3>4. Len(Tail(polled)) = 0 => Tail(polled) = <<>>
      BY <3>3, EmptySeq
    <3> QED
      BY <2>3, <3>1, <3>2, <3>4
  <2>5. \A i \in 1 .. Len(polled') :
          polled'[i] = topic'[position' - Len(polled') + i]
    <3> SUFFICES ASSUME NEW i \in 1 .. Len(Tail(polled))
                 PROVE  Tail(polled)[i] = topic[position - Len(Tail(polled)) + i]
      BY <2>3
    <3> DEFINE n == Len(polled)
               l == Len(Tail(polled))
    <3>0. /\ n \in Nat /\ l = n - 1 /\ i \in 1 .. l /\ position \in Nat
          /\ \A j \in 1 .. n : polled[j] = topic[position - n + j]
          /\ Tail(polled)[i] = polled[i + 1]
      BY <1>0, <2>2 DEF PolledNext
    <3> HIDE DEF n, l
    <3>1. i + 1 \in 1 .. n /\ position - n + (i + 1) = position - l + i
      BY <3>0
    <3>2. Tail(polled)[i] = topic[position - l + i]
      BY <3>0, <3>1
    <3> QED
      BY <3>2 DEF l
  <2>6. Len(polled') <= position'
    BY <1>0, <2>2, <2>3 DEF PolledNext
  <2> QED
    BY <2>4, <2>5, <2>6 DEF PolledNext
<1>5. CASE \E m \in Messages : publish(m) \/ PublishFails(m)
  BY <1>0, <1>1, <1>5 DEF publish, PublishFails, Unsent, PolledNext
<1>6. CASE claim_ready_batch \/ BatchDone \/ MarkFails
  BY <1>0, <1>1, <1>6 DEF claim_ready_batch, BatchDone, MarkFails, store, PolledNext
<1>7. CASE (\E m \in Messages : save(m)) \/ mark_published \/ handle_record
           \/ UNCHANGED vars
  BY <1>2, <1>7 DEF save, mark_published, handle_record, worker, vars
<1>8. CASE HandleRaises \/ CommitRaises \/ Restart
  BY <1>0, <1>1, <1>8 DEF HandleRaises, CommitRaises, Restart
<1> QED
  BY <1>3, <1>4, <1>5, <1>6, <1>7, <1>8 DEF Next, Relay, Consume

(* Where the consumer is when it holds nothing, and when it holds records. *)
LEMMA OffsetType ==
  ASSUME IInv, PolledNext
  PROVE  /\ Offset \in 0 .. Len(topic)
         /\ pc \in {"idle", "relay"} => Offset = position
         /\ pc = "handle" /\ polled # <<>> =>
              /\ Offset + 1 \in 1 .. Len(topic)
              /\ Head(polled) = topic[Offset + 1]
<1>0. /\ position \in Nat /\ Len(topic) \in Nat /\ position <= Len(topic)
      /\ polled \in Seq(Messages) /\ Len(polled) \in Nat /\ Len(polled) <= position
      /\ pc \in {"idle", "relay", "handle", "commit"}
  BY DEF IInv, TypeOK, PolledNext
<1>1. polled = <<>> => Len(polled) = 0
  OBVIOUS
<1>2. polled # <<>> => Len(polled) # 0 /\ Head(polled) = polled[1]
  BY <1>0
<1>3. CASE pc \in {"idle", "relay"}
  BY <1>0, <1>1, <1>3 DEF PolledNext, Offset
<1>4. CASE pc = "handle"
  <2>1. Offset = position - Len(polled)
    BY <1>0, <1>4 DEF Offset
  <2>2. polled # <<>> => polled[1] = topic[Offset + 1]
    BY <1>0, <1>2, <2>1 DEF PolledNext
  <2> QED
    BY <1>0, <1>2, <1>4, <2>1, <2>2
<1>5. CASE pc = "commit"
  <2>1. polled # <<>>
    BY <1>5 DEF IInv, PolledSaved
  <2>2. Offset = position - Len(polled) + 1
    BY <1>0, <1>5 DEF Offset
  <2> QED
    BY <1>0, <1>2, <1>5, <2>1, <2>2
<1> QED
  BY <1>0, <1>3, <1>4, <1>5

LEMMA PassedLess ==
  ASSUME NEW S, NEW s \in Seq(S), NEW k \in Int, NEW l \in Int, k <= l
  PROVE  PassedIn(s, k) \subseteq PassedIn(s, l)
<1>1. DOMAIN s = 1 .. Len(s) /\ Len(s) \in Nat
  OBVIOUS
<1> QED
  BY <1>1 DEF PassedIn

LEMMA PassedNext ==
  ASSUME NEW S, NEW s \in Seq(S), NEW k \in Nat, k + 1 <= Len(s)
  PROVE  /\ s[k + 1] \notin PassedIn(s, k)
         /\ PassedIn(s, k + 1) \in {PassedIn(s, k), PassedIn(s, k) \cup {s[k + 1]}}
<1>1. DOMAIN s = 1 .. Len(s) /\ Len(s) \in Nat
  OBVIOUS
<1>2. k + 1 \in DOMAIN s /\ ~ (k + 1 <= k)
  BY <1>1
<1>3. s[k + 1] \notin PassedIn(s, k)
  BY <1>2 DEF PassedIn
<1>4. PassedIn(s, k) \subseteq PassedIn(s, k + 1)
  BY PassedLess
<1>5. ASSUME NEW m \in PassedIn(s, k + 1), m # s[k + 1]
      PROVE  m \in PassedIn(s, k)
  <2>1. m \in ToSet(s) /\ \A i \in DOMAIN s : s[i] = m => i <= k + 1
    BY DEF PassedIn
  <2>2. ASSUME NEW i \in DOMAIN s, s[i] = m PROVE i <= k
    <3>1. i \in Nat /\ i <= k + 1 /\ i # k + 1
      BY <1>1, <1>5, <2>1, <2>2
    <3> QED
      BY <3>1
  <2> QED
    BY <2>1, <2>2 DEF PassedIn
<1> QED
  BY <1>3, <1>4, <1>5

LEMMA PassedAppend ==
  ASSUME NEW S, NEW s \in Seq(S), NEW e \in S, NEW k \in 0 .. Len(s)
  PROVE  PassedIn(Append(s, e), k) = PassedIn(s, k) \ {e}
<1>1. /\ ToSet(Append(s, e)) = ToSet(s) \cup {e}
      /\ Append(s, e) \in Seq(S)
      /\ Len(Append(s, e)) = Len(s) + 1
      /\ \A i \in 1 .. Len(s) + 1 :
           Append(s, e)[i] = IF i = Len(s) + 1 THEN e ELSE s[i]
  BY ToSetAppend
<1>2. /\ DOMAIN s = 1 .. Len(s) /\ Len(s) \in Nat
      /\ DOMAIN Append(s, e) = 1 .. Len(s) + 1
  BY <1>1
<1>3. e \notin PassedIn(Append(s, e), k)
  <2>1. Len(s) + 1 \in DOMAIN Append(s, e) /\ Append(s, e)[Len(s) + 1] = e
    BY <1>1, <1>2
  <2>2. ~ (Len(s) + 1 <= k)
    BY <1>2
  <2> QED
    BY <2>1, <2>2 DEF PassedIn
<1>4. ASSUME NEW m, m # e
      PROVE  m \in PassedIn(Append(s, e), k) <=> m \in PassedIn(s, k)
  <2>1. m \in ToSet(Append(s, e)) <=> m \in ToSet(s)
    BY <1>1, <1>4
  <2>2. \A i \in DOMAIN s : i \in DOMAIN Append(s, e) /\ Append(s, e)[i] = s[i]
    BY <1>1, <1>2
  <2>3. \A i \in DOMAIN Append(s, e) :
          Append(s, e)[i] = m => i \in DOMAIN s /\ s[i] = m
    BY <1>1, <1>2, <1>4
  <2> QED
    BY <2>1, <2>2, <2>3 DEF PassedIn
<1> QED
  BY <1>3, <1>4 DEF PassedIn

(* What is past was sent.                                                  *)
LEMMA PassedSaved ==
  ASSUME IInv, NEW k
  PROVE  PassedIn(topic, k) \subseteq {m \in Messages : outbox[m] # "NONE"}
<1> SUFFICES ASSUME NEW m \in PassedIn(topic, k)
             PROVE  m \in Messages /\ outbox[m] # "NONE"
  OBVIOUS
<1>1. topic \in Seq(Messages) /\ DOMAIN topic = 1 .. Len(topic)
  BY DEF IInv, TypeOK
<1>2. PICK i \in 1 .. Len(topic) : topic[i] = m
  BY <1>1 DEF PassedIn, ToSet
<1> QED
  BY <1>1, <1>2 DEF IInv, InTopic, PublishedIsInTopic

(* A step that only moves the consumer.                                    *)
LEMMA MoveStep ==
  ASSUME IInv, UNCHANGED <<outbox, topic, effects>>,
         Offset \in Int, Offset' \in Int
  PROVE  [Mail!Next]_Mail!vars
<1> DEFINE sentNow == {m \in Messages : outbox[m] # "NONE"}
           pastNow == PassedIn(topic, Offset)
           pastThen == PassedIn(topic, Offset')
<1>1. topic \in Seq(Messages)
  BY DEF IInv, TypeOK
<1>2. pastThen \subseteq sentNow /\ pastNow \subseteq sentNow
  BY PassedSaved
<1>3. pastThen \subseteq pastNow \/ pastNow \subseteq pastThen
  BY <1>1, PassedLess
<1>4. PassedIn(topic, Offset)' = pastThen
  BY Zenon DEF PassedIn
<1> HIDE DEF pastNow, pastThen
<1>5. pastThen = pastNow \ (pastNow \ pastThen) \/ pastThen = pastNow \cup pastThen
  BY <1>3
<1> QED
  BY <1>2, <1>4, <1>5 DEF Mail!Next, Mail!PassBy, Mail!DeliverAgain, pastNow

LEMMA OffsetMoves ==
  ASSUME IInv, PolledNext, IInv', PolledNext'
  PROVE  Offset \in Int /\ Offset' \in Int
<1>1. Offset \in Int
  BY OffsetType DEF IInv, TypeOK
<1>2. position' \in Int /\ Len(polled') \in Int
  BY DEF IInv, TypeOK
<1>3. Offset' = position' - Len(polled') + IF pc' = "commit" THEN 1 ELSE 0
  BY DEF Offset
<1> QED
  BY <1>1, <1>2, <1>3

(* A step of the relay that adds no record changes nothing the consumer    *)
(* can see.                                                                *)
LEMMA StillStep ==
  ASSUME UNCHANGED <<topic, effects, position, polled>>,
         pc # "commit", pc' # "commit",
         \A m \in Messages : outbox[m] = "NONE" <=> outbox'[m] = "NONE"
  PROVE  UNCHANGED Mail!vars
<1>1. Offset' = Offset
  BY DEF Offset
<1>2. PassedIn(topic, Offset)' = PassedIn(topic, Offset)
  BY <1>1 DEF PassedIn
<1>3. {m \in Messages : outbox[m] # "NONE"}' = {m \in Messages : outbox[m] # "NONE"}
  OBVIOUS
<1> QED
  BY <1>2, <1>3 DEF Mail!vars

(* A record is published: the message is to come, once more perhaps.       *)
LEMMA ArrivesStep ==
  ASSUME IInv, PolledNext, NEW m \in Messages, topic' = Append(topic, m),
         UNCHANGED <<effects, position, polled>>, pc = "relay", pc' = "relay",
         \A n \in Messages : outbox[n] = "NONE" <=> outbox'[n] = "NONE"
  PROVE  [Mail!Next]_Mail!vars
<1> DEFINE past == PassedIn(topic, Offset)
           S == {m} \cap past
<1>1. Offset' = Offset
  BY DEF Offset
<1>2. Offset \in 0 .. Len(topic) /\ topic \in Seq(Messages)
  BY OffsetType DEF IInv, TypeOK
<1>3. PassedIn(Append(topic, m), Offset) = past \ {m}
  BY <1>2, PassedAppend
<1>4. PassedIn(topic, Offset)' = PassedIn(topic', Offset')
  BY DEF PassedIn
<1> HIDE DEF past
<1>5. PassedIn(topic, Offset)' = past \ S
  BY <1>1, <1>3, <1>4
<1>6. {n \in Messages : outbox[n] # "NONE"}' = {n \in Messages : outbox[n] # "NONE"}
  OBVIOUS
<1> QED
  BY <1>5, <1>6 DEF Mail!Next, Mail!DeliverAgain, past

LEMMA CountOne ==
  ASSUME NEW S, NEW f \in [S -> Nat], NEW m \in S, f[m] = 0
  PROVE  [x \in S |-> IF x \in {m} THEN f[x] + 1 ELSE f[x]] = [f EXCEPT ![m] = 1]
<1> DEFINE g == [x \in S |-> IF x \in {m} THEN f[x] + 1 ELSE f[x]]
           h == [f EXCEPT ![m] = 1]
<1>1. g \in [S -> Nat] /\ h \in [S -> Nat]
  OBVIOUS
<1>2. \A x \in S : g[x] = h[x]
  OBVIOUS
<1> HIDE DEF g, h
<1>3. g = h
  BY <1>1, <1>2
<1> QED
  BY <1>3 DEF g, h

(* The listener's transaction commits: the effect of a message that was    *)
(* saved, that is not past, and that had no effect before.                 *)
LEMMA TakeStep ==
  ASSUME IInv, PolledNext, handle_record, IInv', PolledNext'
  PROVE  [Mail!Next]_Mail!vars
<1> DEFINE m == Head(polled)
           past == PassedIn(topic, Offset)
<1>1. /\ pc = "handle" /\ polled # <<>> /\ pc' = "commit"
      /\ UNCHANGED <<outbox, topic, polled, position>>
  BY DEF handle_record
<1>2. /\ Offset \in Nat /\ Offset + 1 <= Len(topic) /\ m = topic[Offset + 1]
      /\ topic \in Seq(Messages)
  BY <1>1, OffsetType DEF IInv, TypeOK
<1>3. Offset' = Offset + 1
  <2>1. position \in Nat /\ Len(polled) \in Nat
    BY DEF IInv, TypeOK
  <2> QED
    BY <1>1, <2>1 DEF Offset
<1>4. CASE m \in Malformed \cup processed
  <2>1. effects' = effects
    <3>1. {m} \ (Malformed \cup processed) = {}
      BY <1>4
    <3>2. effects' = [x \in Messages |-> effects[x]]
      BY <3>1 DEF handle_record
    <3> QED
      BY <3>2 DEF IInv, TypeOK
  <2> QED
    BY <1>1, <2>1, OffsetMoves, MoveStep
<1>5. CASE m \notin Malformed \cup processed
  <2>1. effects' = [effects EXCEPT ![m] = 1] /\ effects[m] = 0 /\ m \in Messages
    <3>1. m \in Messages
      BY <1>2, ElementOfSeq
    <3>2. effects[m] = 0
      BY <1>5, <3>1 DEF IInv, EffectsMatch
    <3>3. {m} \ (Malformed \cup processed) = {m}
      BY <1>5
    <3>4. effects' = [x \in Messages |-> IF x \in {m} THEN effects[x] + 1 ELSE effects[x]]
      BY <3>3 DEF handle_record
    <3>5. effects \in [Messages -> Nat]
      BY DEF IInv, TypeOK
    <3> HIDE DEF m
    <3>6. [x \in Messages |-> IF x \in {m} THEN effects[x] + 1 ELSE effects[x]]
            = [effects EXCEPT ![m] = 1]
      BY ONLY <3>1, <3>2, <3>5, CountOne
    <3> QED
      BY ONLY <3>1, <3>2, <3>4, <3>6
  <2>2. m \notin past
    BY <1>2, PassedNext
  <2>3. PassedIn(topic, Offset)' \in {past, past \cup {m}}
    <3>1. PassedIn(topic, Offset)' = PassedIn(topic, Offset + 1)
      BY <1>1, <1>3 DEF PassedIn
    <3> QED
      BY <1>2, <3>1, PassedNext
  <2>4. outbox[m] # "NONE"
    <3>1. m \in PassedIn(topic, Len(topic))
      <4>1. DOMAIN topic = 1 .. Len(topic) /\ Len(topic) \in Nat
        BY <1>2
      <4> QED
        BY <1>2, <4>1 DEF PassedIn, ToSet
    <3> QED
      BY <3>1, PassedSaved
  <2> HIDE DEF m, past
  <2>5. {n \in Messages : outbox[n] # "NONE"}' = {n \in Messages : outbox[n] # "NONE"}
    BY <1>1
  <2>6. Mail!Deliver(m)
    BY <1>5, <2>1, <2>2, <2>3, <2>4, <2>5 DEF Mail!Deliver, past
  <2> QED
    BY <2>1, <2>6 DEF Mail!Next
<1> QED
  BY <1>4, <1>5

LEMMA SendStep ==
  ASSUME IInv, NEW m \in Messages, save(m)
  PROVE  [Mail!Next]_Mail!vars
<1>1. /\ outbox[m] = "NONE"
      /\ outbox' = [outbox EXCEPT ![m] = "READY"]
      /\ UNCHANGED <<topic, effects, polled, position, pc>>
  BY DEF save, worker
<1>2. {n \in Messages : outbox[n] # "NONE"}' =
        {n \in Messages : outbox[n] # "NONE"} \cup {m}
  BY <1>1 DEF IInv, TypeOK
<1>3. PassedIn(topic, Offset)' = PassedIn(topic, Offset)
  BY <1>1 DEF PassedIn, Offset
<1>4. Mail!Send(m)
  BY <1>1, <1>2, <1>3 DEF Mail!Send
<1> QED
  BY <1>4 DEF Mail!Next

(* Every step of relay, topic and consumer loop is a step of the mailbox.  *)
LEMMA MailStep ==
  ASSUME IInv, PolledNext, [Next]_vars, IInv', PolledNext'
  PROVE  [Mail!Next]_Mail!vars
<1>1. CASE \E m \in Messages : save(m)
  BY <1>1, SendStep
<1>2. CASE claim_ready_batch
  <2>1. \A m \in Messages : outbox[m] = "NONE" <=> outbox'[m] = "NONE"
    BY <1>2 DEF claim_ready_batch, Claimable
  <2> QED
    BY <1>2, <2>1, StillStep DEF claim_ready_batch
<1>3. CASE \E m \in Messages : publish(m)
  BY <1>3, ArrivesStep DEF publish, Unsent
<1>4. CASE mark_published
  <2>1. sent \in Messages /\ outbox[sent] = "PUBLISHING"
    BY <1>4 DEF mark_published, IInv, TypeOK, ClaimsAreMarkable
  <2>2. \A m \in Messages : outbox[m] = "NONE" <=> outbox'[m] = "NONE"
    BY <1>4, <2>1 DEF mark_published, IInv, TypeOK
  <2> QED
    BY <1>4, <2>2, StillStep DEF mark_published
<1>5. ASSUME NEW m \in Messages, PublishFails(m)
      PROVE  [Mail!Next]_Mail!vars
  <2>1. outbox[m] = "PUBLISHING" /\ pc = "relay"
    BY <1>5 DEF PublishFails, Unsent, IInv, ClaimsAreMarkable
  <2>2. \A n \in Messages : outbox[n] = "NONE" <=> outbox'[n] = "NONE"
    BY <1>5, <2>1 DEF PublishFails, IInv, TypeOK
  <2>3. UNCHANGED <<effects, position, polled, pc>>
    BY <1>5 DEF PublishFails
  <2>4. CASE topic' = topic
    BY <2>1, <2>2, <2>3, <2>4, StillStep
  <2>5. CASE topic' = Append(topic, m)
    BY <2>1, <2>2, <2>3, <2>5, ArrivesStep
  <2> QED
    BY <1>5, <2>4, <2>5 DEF PublishFails
<1>6. CASE BatchDone \/ MarkFails
  BY <1>6, StillStep DEF BatchDone, MarkFails, store
<1>7. CASE handle_record
  BY <1>7, TakeStep
<1>8. CASE poll \/ commit \/ HandleRaises \/ CommitRaises \/ Restart
  <2>1. UNCHANGED <<outbox, topic, effects>>
    BY <1>8 DEF poll, commit, HandleRaises, CommitRaises, Restart, store
  <2> QED
    BY <2>1, OffsetMoves, MoveStep
<1>9. CASE UNCHANGED vars
  BY <1>9 DEF vars, Mail!vars, PassedIn, Offset
<1> QED
  BY <1>1, <1>2, <1>3, <1>4, <1>5, <1>6, <1>7, <1>8, <1>9 DEF Next, Relay, Consume

(* Messaging implements Mailbox: whatever fails, the consumer is given no  *)
(* effect that the mailbox would not give it.                              *)
THEOREM DeliversLikeMail == Spec => ImplementsMailbox
<1>1. Init => PolledNext
  BY DEF Init, PolledNext
<1>2. Init => Mail!Init
  <2>1. Init => PassedIn(topic, Offset) = {}
    BY DEF Init, PassedIn, ToSet
  <2> QED
    BY <2>1 DEF Init, Mail!Init
<1>3. IInv /\ PolledNext /\ [Next]_vars => PolledNext'
  BY PolledSteps
<1>4. IInv /\ IInv' /\ PolledNext /\ PolledNext' /\ [Next]_vars
        => [Mail!Next]_Mail!vars
  BY MailStep
<1> QED
  BY <1>1, <1>2, <1>3, <1>4, Invariance, PTL DEF Spec, ImplementsMailbox, Mail!Spec
=============================================================================
