--------------------------- MODULE MCGuestCheckout ---------------------------
(* Values of GuestCheckout's constants. *)
EXTENDS GuestCheckout, TLC

CONSTANTS k1, k2, a, b, h1, h2, h3

GuestSymmetry == Permutations({k1, k2}) \cup Permutations({a, b}) \cup Permutations({h1, h2})
=============================================================================
