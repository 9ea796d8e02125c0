-------------------------- MODULE MCAccountDeletion --------------------------
(* Instances of AccountDeletion for TLC. *)
EXTENDS AccountDeletion, TLC

CONSTANTS a, b

MCUsers == {a, b}

\* The emission of a may be delivered twice.
MCRuns == 1 .. 3
MCSubject == <<a, a, b>>

\* One organization with two owners, as two concurrent transfers leave it, and one that
\* can be created.
MCCoOwned == [o \in {1, 2} |-> [u \in MCUsers |-> IF o = 1 THEN "owner" ELSE "none"]]
=============================================================================
