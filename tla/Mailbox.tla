------------------------------ MODULE Mailbox ------------------------------
(***************************************************************************)
(* What a consumer may expect of the messages that others save for it: any *)
(* order, any delay, losses and repetitions, but one effect at most, of a  *)
(* message that was sent, that it does not refuse, and that it is not past *)
(* already.  CheckoutSaga's consumers take messages like this (Delivered,  *)
(* Done, Skip, Redeliver); Messaging implements it.                        *)
(***************************************************************************)
EXTENDS Naturals

CONSTANTS Messages, Malformed

VARIABLES
  sent,    \* messages whose sender has committed
  past,    \* messages the consumer is past: none of them is to come
  effects  \* how often the effect of a message was committed

vars == <<sent, past, effects>>

Init ==
  /\ sent = {}
  /\ past = {}
  /\ effects = [m \in Messages |-> 0]

Send(m) ==
  /\ m \notin sent
  /\ sent' = sent \cup {m}
  /\ UNCHANGED <<past, effects>>

(* The message takes effect, though another copy of it may be on its way.  *)
Deliver(m) ==
  /\ m \in sent \ (past \cup Malformed)
  /\ effects[m] = 0
  /\ effects' = [effects EXCEPT ![m] = 1]
  /\ past' \in {past, past \cup {m}}
  /\ UNCHANGED sent

(* Duplicates, refused messages, and messages that are lost.               *)
PassBy ==
  /\ \E S \in SUBSET sent : past' = past \cup S
  /\ UNCHANGED <<sent, effects>>

(* A restart, or a second publication.                                     *)
DeliverAgain ==
  /\ \E S \in SUBSET past : past' = past \ S
  /\ UNCHANGED <<sent, effects>>

Next ==
  \/ \E m \in Messages : Send(m) \/ Deliver(m)
  \/ PassBy
  \/ DeliverAgain

Spec == Init /\ [][Next]_vars
=============================================================================
