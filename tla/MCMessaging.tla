---------------------------- MODULE MCMessaging ----------------------------
(* Small instances of Messaging: three rows, one of them malformed for the *)
(* consumer, and batches of two.                                           *)
EXTENDS Messaging

CONSTANTS m1, m2, m3
=============================================================================
