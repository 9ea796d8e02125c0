---------------------------- MODULE MCJobDispatch ----------------------------
(* Instances of JobDispatch for TLC: three deliveries, of one or two emissions. *)
EXTENDS JobDispatch

CONSTANTS d1, d2, d3, k1, k2

MCDispatches == {d1, d2, d3}
=============================================================================
