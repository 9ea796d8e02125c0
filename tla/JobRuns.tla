-------------------------------- MODULE JobRuns --------------------------------
(***************************************************************************)
(* What the job dispatcher promises to the jobs it runs, whatever ledger   *)
(* keeps the promise: an emission, named by its key, is executed by one    *)
(* dispatcher at a time, and never again once an execution has succeeded,  *)
(* until the retention of the ledger forgets it.                           *)
(***************************************************************************)
EXTENDS Integers

CONSTANTS
    Keys,        \* one key per emission: job and idempotency key
    Dispatches   \* calls of dispatchModuleJob

VARIABLES
    running,     \* [Keys -> SUBSET Dispatches]: who executes the emission now
    won          \* [Keys -> BOOLEAN]: an execution succeeded and is remembered

runs == <<running, won>>

Init ==
    /\ running = [k \in Keys |-> {}]
    /\ won = [k \in Keys |-> FALSE]

Start(d, k) ==
    /\ running[k] = {} /\ ~ won[k]
    /\ running' = [running EXCEPT ![k] = {d}]
    /\ UNCHANGED won

Succeed(d, k) ==
    /\ d \in running[k]
    /\ running' = [running EXCEPT ![k] = @ \ {d}]
    /\ won' = [won EXCEPT ![k] = TRUE]

\* The execution failed for good, or its process died.
Stop(d, k) ==
    /\ d \in running[k]
    /\ running' = [running EXCEPT ![k] = @ \ {d}]
    /\ UNCHANGED won

\* sweepJobRuns, once the retention has elapsed.
Forget(k) ==
    /\ running[k] = {} /\ won[k]
    /\ won' = [won EXCEPT ![k] = FALSE]
    /\ UNCHANGED running

Next ==
    \/ \E d \in Dispatches, k \in Keys : Start(d, k) \/ Succeed(d, k) \/ Stop(d, k)
    \/ \E k \in Keys : Forget(k)

Spec == Init /\ [][Next]_runs

=============================================================================
