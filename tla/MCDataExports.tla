---------------------------- MODULE MCDataExports ----------------------------
(* Values of DataExports' constants. *)
EXTENDS DataExports

CONSTANTS r1, r2, o, w

Organization == [r \in {r1, r2} |-> o]
=============================================================================
