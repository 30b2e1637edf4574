---------------------------- MODULE MCInventory ----------------------------
(* Small instances of Inventory: one API server and one worker process, as *)
(* docker-compose.yml starts them.                                         *)
EXTENDS Inventory, TLC

CONSTANTS o1, o2, api, worker

Saga(i, op, o, q) == [id |-> i, op |-> op, order |-> o, qty |-> q]
Owner(i, op, q)   == [id |-> i, op |-> op, order |-> None, qty |-> q]

(* createOrder of o1 with two lines of this variant (they differ in their  *)
(* add-on options), and of o2 with one line.                               *)
CreateO1 == <<Saga("o1:Reserve:line1", "reserve", o1, 1),
              Saga("o1:Reserve:line2", "reserve", o1, 1)>>
CreateO2 == <<Saga("o2:Reserve", "reserve", o2, 2)>>

(* What the process manager sends for the OrderCreatedEvents: for o1 one   *)
(* command, its quantity the sum over both lines.                          *)
RedeliverO1 == <<Saga("o1:Reserve", "reserve", o1, 2)>>

(* The commands that settle an order.                                      *)
Settle(o, release, confirm) ==
  {<<Saga(release, "release", o, 1)>>, <<Saga(confirm, "confirm", o, 1)>>}
SettleO1 == Settle(o1, "o1:Release", "o1:Confirm")
SettleO2 == Settle(o2, "o2:Release", "o2:Confirm")

Intake  == <<Owner("intake", "increase", 1)>>
Correct == <<Owner("correct", "correct", 1)>>
Pause   == <<Owner("pause", "pause", 0)>>
Resume  == <<Owner("resume", "resume", 0)>>

MCIds == {"o1:Reserve:line1", "o1:Reserve:line2", "o1:Reserve",
          "o1:Release", "o1:Confirm", "o2:Reserve", "o2:Release",
          "o2:Confirm", "intake", "correct", "pause", "resume"}

AllBatches ==
  (api    :> {CreateO1, CreateO2, Intake, Correct, Pause, Resume}) @@
  (worker :> {RedeliverO1, CreateO2} \cup SettleO1 \cup SettleO2)

(* docker-compose.yml and the ids above are such a deployment.             *)
ASSUME MCDeployment == Deployment
=============================================================================
