----------------------------- MODULE MCPurchases -----------------------------
(* Instances of Purchases for TLC. *)
EXTENDS Purchases

CONSTANTS b1, b2
=============================================================================
