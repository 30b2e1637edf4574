----------------------------- MODULE MCTracking -----------------------------
(* A small instance of Tracking: an order of one line.                     *)
EXTENDS Tracking

CONSTANTS l1

(* The payload of the store's rejection: as StoreApprovalApplication-      *)
(* Service builds it, and as its commands would need it.                   *)
AsInTheCodeOrComplete == {{}, Fields}
=============================================================================
