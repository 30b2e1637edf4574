--------------------------- MODULE MCCheckoutSaga ---------------------------
(* Small instances of CheckoutSaga: an order of two lines and one fault,   *)
(* or an order of one line.                                                *)
EXTENDS CheckoutSaga

CONSTANTS l1, l2

(* The payload of the store's rejection as StoreApprovalApplicationService *)
(* builds it.                                                              *)
AsInTheCode == {{}}

(* A message is delivered again or passed over, not both.                  *)
OneFault == redeliveries + losses <= 1
=============================================================================
