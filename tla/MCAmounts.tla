----------------------------- MODULE MCAmounts ------------------------------
(* A small instance of Amounts: a native asset, two tokens and one that    *)
(* is disabled; prices that convert evenly, that do not, and beyond the    *)
(* context.                                                                *)
EXTENDS Amounts

CONSTANTS v1, a1

FourAssets ==
  {[decimals |-> 3, rate |-> 3, token |-> FALSE, enabled |-> TRUE],
   [decimals |-> 2, rate |-> 1, token |-> TRUE, enabled |-> TRUE],
   [decimals |-> 3, rate |-> 7, token |-> TRUE, enabled |-> TRUE],
   [decimals |-> 0, rate |-> 1, token |-> TRUE, enabled |-> FALSE]}
=============================================================================
