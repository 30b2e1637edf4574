------------------------------ MODULE MCOrders ------------------------------
(* A small instance of Orders: one product, two orders, and the requests   *)
(* below in any order, each sent as often as the client likes.             *)
EXTENDS Orders, TLC

CONSTANTS hoodie, small, default, c1, c2, t1, t2, alice, bob, o1, o2

Request(op, key) ==
  [op |-> op, key |-> key, owner |-> alice, active |-> TRUE,
   chains |-> Chains, assets |-> {}, product |-> hoodie, title |-> t1,
   price |-> 1, status |-> "ACTIVE", config |-> "keep",
   variants |-> [v \in {small, default} |-> "ABSENT"], units |-> 1]

(* The store provisioned, suspended, claimed by somebody else, its assets  *)
(* named; the product registered, registered anew under another title,     *)
(* withdrawn, repriced and given a variant, stripped of its variants.      *)
MCRequests ==
  {Request("createStore", 1),
   [Request("createStore", 2) EXCEPT !.active = FALSE],
   [Request("createStore", 3) EXCEPT !.owner = bob, !.active = FALSE],
   [Request("updateStoreProfile", 1) EXCEPT !.assets = Chains],
   [Request("registerProduct", 1) EXCEPT !.config = "default"],
   [Request("registerProduct", 2) EXCEPT !.title = t2, !.config = "default"],
   [Request("updateProduct", 1) EXCEPT !.status = "INACTIVE"],
   [Request("updateProduct", 2) EXCEPT !.price = 2, !.config = "replace",
      !.variants = [v \in {small, default} |->
                      IF v = small THEN "SALEABLE" ELSE "ABSENT"]],
   [Request("updateProduct", 3) EXCEPT !.config = "replace"]}

Symmetry == Permutations(Orders)
=============================================================================
