------------------------------ MODULE JobDispatch ------------------------------
(***************************************************************************)
(* dispatchModuleJob (packages/core/src/jobs.ts) over the PostgreSQL       *)
(* ledger of the jobs module.                                              *)
(*                                                                         *)
(* A dispatcher sends its INSERT or DELETE to the database and waits five  *)
(* seconds at most (Promise.race): giving up does not cancel the           *)
(* statement, which may still execute later, after a crash as well.  Such  *)
(* statements are in `wire`.  The same emission may be delivered to any    *)
(* number of dispatchers, in any number of processes.                      *)
(*                                                                         *)
(* Its names are its own, so that a module can extend it together with the *)
(* account deletion, whose purge runs on this ledger.                      *)
(***************************************************************************)
EXTENDS Integers

CONSTANTS
    Keys,         \* emissions: qualified job and idempotency key
    Dispatches,   \* calls of dispatchModuleJob, each used once
    NoDispatch,   \* no reservation
    MaxTries      \* retry.maxAttempts

ASSUME JobDispatchAssumption ==
    /\ NoDispatch \notin Dispatches
    /\ MaxTries \in Nat

VARIABLES
    row,      \* job_run: the dispatch whose INSERT wrote the row of each key
    wire,     \* statements sent and not executed yet: <<"insert" or "delete", dispatch>>
    pc,       \* where each dispatch stands
    key,      \* the emission each dispatch was called with
    tries,    \* the current attempt
    kept      \* history: a run of the key succeeded since the last sweep of its row

dispatchVars == <<row, wire, pc, key, tries, kept>>

Executing == {"running", "backoff"}
Ended == {"done", "skipped", "refused", "failed", "dead"}
Pcs == {"idle", "claiming", "releasing"} \cup Executing \cup Ended

DispatchInit ==
    /\ row = [k \in Keys |-> NoDispatch]
    /\ wire = {}
    /\ pc = [d \in Dispatches |-> "idle"]
    /\ key \in [Dispatches -> Keys]
    /\ tries = [d \in Dispatches |-> 0]
    /\ kept = [k \in Keys |-> FALSE]

Go(d, p) == pc' = [pc EXCEPT ![d] = p]

\* max(1, retry.maxAttempts)
AttemptLimit == IF MaxTries < 1 THEN 1 ELSE MaxTries

\* Mutant of NextTry: the retry loop does not count.
SameTry(n) == n

NextTry(n) == n + 1

\* Mutant of Retryable: one attempt too many.
RetryableOnceMore(failure, d) == failure = "transient" /\ tries[d] <= AttemptLimit

\* isTransientJobsError and attempt < maxAttempts.
Retryable(failure, d) == failure = "transient" /\ tries[d] < AttemptLimit

\* ledger.claim is called: the INSERT leaves for the database.
Claim(d) ==
    /\ pc[d] = "idle"
    /\ Go(d, "claiming")
    /\ wire' = wire \cup {<<"insert", d>>}
    /\ UNCHANGED <<row, key, tries, kept>>

\* insert ... on conflict do nothing returning run.  When the dispatcher still waits, a
\* returned row lets it run and an empty answer makes it skip.
DbInsert(d) ==
    /\ <<"insert", d>> \in wire
    /\ wire' = wire \ {<<"insert", d>>}
    /\ row' = IF row[key[d]] = NoDispatch THEN [row EXCEPT ![key[d]] = d] ELSE row
    /\ IF pc[d] # "claiming" THEN UNCHANGED <<pc, tries>>
       ELSE IF row[key[d]] = NoDispatch
            THEN Go(d, "running") /\ tries' = [tries EXCEPT ![d] = 1]
            ELSE Go(d, "skipped") /\ UNCHANGED tries
    /\ UNCHANGED <<key, kept>>

RunSucceeds(d) ==
    /\ pc[d] = "running"
    /\ Go(d, "done")
    /\ kept' = [kept EXCEPT ![key[d]] = TRUE]
    /\ UNCHANGED <<row, wire, key, tries>>

\* job.run threw: classifyJobFailure, then either the backoff or ledger.release.
RunFails(d) ==
    /\ pc[d] = "running"
    /\ \E failure \in {"transient", "definitive"} :
          \/ /\ Retryable(failure, d)
             /\ Go(d, "backoff")
             /\ UNCHANGED wire
          \/ /\ ~ Retryable(failure, d)
             /\ Go(d, "releasing")
             /\ wire' = wire \cup {<<"delete", d>>}
    /\ UNCHANGED <<row, key, tries, kept>>

Retry(d) ==
    /\ pc[d] = "backoff"
    /\ Go(d, "running")
    /\ tries' = [tries EXCEPT ![d] = NextTry(@)]
    /\ UNCHANGED <<row, wire, key, kept>>

\* delete from job_run where run = ...: it names the emission, not who reserved it.
DbDelete(d) ==
    /\ <<"delete", d>> \in wire
    /\ wire' = wire \ {<<"delete", d>>}
    /\ row' = [row EXCEPT ![key[d]] = NoDispatch]
    /\ IF pc[d] = "releasing" THEN Go(d, "failed") ELSE UNCHANGED pc
    /\ UNCHANGED <<key, tries, kept>>

\* A claim that fails refuses the run; a release that fails is swallowed.
AfterStoreFailure(d) ==
    \/ pc[d] = "claiming" /\ Go(d, "refused")
    \/ pc[d] = "releasing" /\ Go(d, "failed")

\* Five seconds without an answer: the statement is still on its way.
StoreTimeout(d) ==
    /\ AfterStoreFailure(d)
    /\ UNCHANGED <<row, wire, key, tries, kept>>

\* The statement is lost or rejected: it has no effect, and a dispatcher that waits is told.
StoreError(d) ==
    /\ \E s \in {"insert", "delete"} :
          <<s, d>> \in wire /\ wire' = wire \ {<<s, d>>}
    /\ AfterStoreFailure(d) \/ (pc[d] \in Ended /\ UNCHANGED pc)
    /\ UNCHANGED <<row, key, tries, kept>>

\* The process that dispatches stops; what it sent may still execute.
Crash(d) ==
    /\ pc[d] \in {"claiming", "releasing"} \cup Executing
    /\ Go(d, "dead")
    /\ UNCHANGED <<row, wire, key, tries, kept>>

\* Mutant of Aged: a retention shorter than a run.
AnyAge(k) == row[k] # NoDispatch

\* The row of k is older than JOB_RUN_RETENTION_DAYS.  Assumption: seven days outlast a
\* dispatch, its three attempts and its five-second statements.
Aged(k) ==
    /\ row[k] # NoDispatch
    /\ pc[row[k]] \in Ended
    /\ \A d \in Dispatches : key[d] = k =>
          /\ pc[d] \notin Executing
          /\ <<"delete", d>> \notin wire

\* sweepJobRuns.
Sweep(k) ==
    /\ Aged(k)
    /\ row' = [row EXCEPT ![k] = NoDispatch]
    /\ kept' = [kept EXCEPT ![k] = FALSE]
    /\ UNCHANGED <<wire, pc, key, tries>>

Step(d) ==
    \/ Claim(d) \/ DbInsert(d) \/ RunSucceeds(d) \/ RunFails(d) \/ Retry(d)
    \/ DbDelete(d) \/ StoreTimeout(d) \/ StoreError(d) \/ Crash(d)

DispatchNext == (\E d \in Dispatches : Step(d)) \/ (\E k \in Keys : Sweep(k))

DispatchSpec == DispatchInit /\ [][DispatchNext]_dispatchVars

\* A dispatcher that waits for the store hears from it or from its own timer, the run it
\* awaits returns or throws, and a timer fires.
Fairness ==
    \A d \in Dispatches :
        /\ WF_dispatchVars(StoreTimeout(d))
        /\ WF_dispatchVars(RunSucceeds(d) \/ RunFails(d))
        /\ WF_dispatchVars(Retry(d))

FairDispatchSpec == DispatchSpec /\ Fairness

(***************************************************************************)
(* Properties.                                                             *)
(***************************************************************************)

\* The type of every variable.
DispatchTypeOK ==
    /\ row \in [Keys -> Dispatches \cup {NoDispatch}]
    /\ wire \subseteq {"insert", "delete"} \X Dispatches
    /\ pc \in [Dispatches -> Pcs]
    /\ key \in [Dispatches -> Keys]
    /\ tries \in [Dispatches -> 0 .. AttemptLimit]
    /\ kept \in [Keys -> BOOLEAN]

Runners == [k \in Keys |-> {d \in Dispatches : pc[d] \in Executing /\ key[d] = k}]

Promise == INSTANCE JobRuns WITH running <- Runners, won <- kept

\* The dispatcher keeps the promise of JobRuns: whatever deliveries, timeouts, late
\* statements, crashes and sweeps do, an emission is never executed by two dispatchers
\* at once and never again after a success that is still remembered.
OneRunAtATime == Promise!Spec

\* Every call of dispatchModuleJob comes to an end, whatever the store does: the attempts
\* are counted and neither the claim nor the release is waited for without a limit.
DispatchEnds == \A d \in Dispatches : pc[d] = "claiming" ~> pc[d] \in Ended

=============================================================================
