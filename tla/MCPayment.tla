----------------------------- MODULE MCPayment -----------------------------
(* Small instances of Payment: the API server and the worker.              *)
EXTENDS Payment

CONSTANTS api, worker, h1, h2

(* The fallback command id of a submission is made from its hash, an       *)
(* Idempotency-Key is not: two keys cover a retry under the same key and   *)
(* one under another.                                                      *)
MCKeys == {"key1", "key2"}
=============================================================================
