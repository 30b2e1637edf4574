------------------------------ MODULE Exchange ------------------------------
(***************************************************************************)
(* What the checkout of one order promises to the customer and the store,  *)
(* whatever messages carry it out: goods are held before money is taken,   *)
(* handed over only for money the store has agreed to keep, and freed only *)
(* once that can no longer happen.  CheckoutSaga implements it.            *)
(***************************************************************************)
CONSTANT Lines \* the lines of the order

VARIABLES
  money,   \* "unpaid", "taken", "never" or "returned"
  verdict, \* the store's: "open", "agreed" or "refused"
  goods    \* of every line: "free", "held", "given" or "freed"

vars == <<money, verdict, goods>>

Init ==
  /\ money = "unpaid"
  /\ verdict = "open"
  /\ goods = [l \in Lines |-> "free"]

(* All the lines are held, or none.                                        *)
Hold ==
  /\ goods = [l \in Lines |-> "free"]
  /\ goods' = [l \in Lines |-> "held"]
  /\ UNCHANGED <<money, verdict>>

Pay ==
  /\ money = "unpaid"
  /\ \A l \in Lines : goods[l] = "held"
  /\ money' = "taken"
  /\ UNCHANGED <<verdict, goods>>

GiveUp ==
  /\ money = "unpaid"
  /\ money' = "never"
  /\ UNCHANGED <<verdict, goods>>

Decide ==
  /\ money = "taken"
  /\ verdict = "open"
  /\ verdict' \in {"agreed", "refused"}
  /\ UNCHANGED <<money, goods>>

Give(l) ==
  /\ goods[l] = "held"
  /\ money = "taken"
  /\ verdict = "agreed"
  /\ goods' = [goods EXCEPT ![l] = "given"]
  /\ UNCHANGED <<money, verdict>>

Free(l) ==
  /\ goods[l] = "held"
  /\ money = "never" \/ verdict = "refused"
  /\ goods' = [goods EXCEPT ![l] = "freed"]
  /\ UNCHANGED <<money, verdict>>

Return ==
  /\ money = "taken"
  /\ verdict = "refused"
  /\ money' = "returned"
  /\ UNCHANGED <<verdict, goods>>

Next ==
  \/ Hold \/ Pay \/ GiveUp \/ Decide \/ Return
  \/ \E l \in Lines : Give(l) \/ Free(l)

Spec == Init /\ [][Next]_vars

-----------------------------------------------------------------------------
(* Goods leave the store only against money it has agreed to keep, and one *)
(* order never has lines handed over and lines taken back.                 *)
FairExchange ==
  /\ \A l \in Lines : goods[l] = "given" => money = "taken" /\ verdict = "agreed"
  /\ \A l, k \in Lines : ~ (goods[l] = "given" /\ goods[k] = "freed")
=============================================================================
