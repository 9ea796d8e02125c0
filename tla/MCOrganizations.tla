--------------------------- MODULE MCOrganizations ---------------------------
(* Instances of Organizations for TLC. *)
EXTENDS Organizations, TLC

CONSTANTS a, b, c

MCUsers == {a, b, c}

\* One organization: its founder a, an admin b, and c who can be invited.
MCOneOrg == [o \in {1} |-> (a :> "owner") @@ (b :> "admin") @@ (c :> None)]

\* The same with nobody but the founder: two accounts can be invited.
MCFounder == [o \in {1} |-> (a :> "owner") @@ (b :> None) @@ (c :> None)]

\* The accounts to invite are interchangeable, and so are the invitation rows.
MCSymmetry == Permutations(MCUsers \ {a}) \cup Permutations(Invs)

\* Two accounts co-own two organizations, what two concurrent transfers by the same
\* owner leave behind, and a third organization can be founded.
MCPair == {a, b}
MCLeaving == [o \in {1, 2, 3} |-> [u \in MCPair |-> IF o = 3 THEN None ELSE "owner"]]
=============================================================================
