----------------------------- MODULE DataExports -----------------------------
(***************************************************************************)
(* The export of one's data, packages/modules/auth/src/application/        *)
(* data-export-use-cases.ts and its repository: a request is claimed under *)
(* a lock, its archive is built by a job or taken up by the sweep, a link  *)
(* is mailed, and the archive is forgotten after its due date.             *)
(*                                                                         *)
(* The token is derived from the request, so the link of a request is the  *)
(* request itself.  Every await is a step.                                 *)
(***************************************************************************)
EXTENDS Integers, FiniteSets

CONSTANTS
  Requests,
  Scopes,     \* accounts and organizations
  Orgs,       \* the organizations
  ScopeOf,    \* the scope each request is about
  Workers,    \* executions of the job for a request
  Sweeper,    \* execution of the job without a request
  Nobody,
  Ttl,        \* DATA_EXPORT_LINK_TTL_SECONDS
  MinAge,     \* DATA_EXPORT_SWEEP_MIN_AGE_SECONDS
  MaxClock,   \* bound of the clock
  MaxFails    \* bound of the executions that die

ASSUME ExportAssumption ==
  /\ Orgs \subseteq Scopes /\ ScopeOf \in [Requests -> Scopes]
  /\ Ttl \in Nat /\ MinAge \in Nat /\ MaxClock \in Nat /\ MaxFails \in Nat
  /\ Sweeper \notin Workers /\ Nobody \notin Requests

Builders == Workers \cup {Sweeper}
Clock == 0..MaxClock

VARIABLES
  clock,
  closed,    \* scopes that were purged
  status,    \* auth_data_export_request: "none" before it, "gone" after
  since,     \* requestedAt
  expires,   \* expiresAt
  archive,   \* whether the archive is in the row
  asker,     \* the HTTP request behind each export request
  lock,      \* pg_advisory_xact_lock of each scope
  queue,     \* the requests whose job the scheduler holds
  builder,   \* executions of the job
  fails,     \* executions that died
  mailed     \* history: requests whose link was sent

row == <<status, since, expires, archive>>
vars == <<clock, closed, row, asker, lock, queue, builder, fails, mailed>>

Execution(r, pc, at, todo) == [r |-> r, pc |-> pc, at |-> at, todo |-> todo]
Free == Execution(Nobody, "idle", 0, {})
At(b, pc) == builder[b].pc = pc
Turn(b, pc, at) ==
  builder' = [builder EXCEPT ![b] = Execution(@.r, pc, at, @.todo)]
Done(b) ==
  builder' = [builder EXCEPT ![b] =
    IF @.todo = {} THEN Free ELSE Execution(Nobody, "next", 0, @.todo)]
Asks(r, pc) == asker' = [asker EXCEPT ![r] = pc]

Init ==
  /\ clock = 0 /\ closed = {}
  /\ status = [r \in Requests |-> "none"]
  /\ since = [r \in Requests |-> 0] /\ expires = [r \in Requests |-> 0]
  /\ archive = [r \in Requests |-> FALSE]
  /\ asker = [r \in Requests |-> "authorize"]
  /\ lock = [s \in Scopes |-> Nobody]
  /\ queue = {} /\ builder = [b \in Builders |-> Free]
  /\ fails = 0 /\ mailed = {}

Tick ==
  /\ clock < MaxClock /\ clock' = clock + 1
  /\ UNCHANGED <<closed, row, asker, lock, queue, builder, fails, mailed>>

BuildersUnchanged == UNCHANGED <<builder, mailed>>
AskersUnchanged == UNCHANGED <<asker, lock, queue>>
WorldUnchanged == UNCHANGED <<clock, closed, fails>>

-----------------------------------------------------------------------------
(* requestDataExport *)

\* Mutant of Forget: the date of the request is read, not the due date.
ForgetOld(at) ==
  archive' = [r \in Requests |-> archive[r] /\ ~(since[r] < at)]

Forget(at) ==
  archive' = [r \in Requests |-> archive[r] /\ ~(expires[r] < at)]

(* The role is read for an organization, an account asks for itself; what  *)
(* is due is forgotten first.  The two reads commute with a purge.         *)
Authorize(r) ==
  /\ asker[r] = "authorize" /\ ScopeOf[r] \notin closed
  /\ Forget(clock)
  /\ Asks(r, "lock")
  /\ WorldUnchanged /\ BuildersUnchanged
  /\ UNCHANGED <<status, since, expires, lock, queue>>

\* Mutant of ClaimLock: the transaction takes no lock.
ClaimNoLock(r) ==
  /\ asker[r] = "lock"
  /\ Asks(r, "read")
  /\ WorldUnchanged /\ BuildersUnchanged /\ UNCHANGED <<row, lock, queue>>

ClaimLock(r) ==
  /\ asker[r] = "lock" /\ lock[ScopeOf[r]] = Nobody
  /\ lock' = [lock EXCEPT ![ScopeOf[r]] = r]
  /\ Asks(r, "read")
  /\ WorldUnchanged /\ BuildersUnchanged /\ UNCHANGED <<row, queue>>

Pending(s) == {r \in Requests : ScopeOf[r] = s /\ status[r] = "pending"}
Unlock(r) ==
  lock' = [s \in Scopes |-> IF lock[s] = r THEN Nobody ELSE lock[s]]

ClaimRead(r) ==
  /\ asker[r] = "read"
  /\ IF Pending(ScopeOf[r]) = {}
       THEN Asks(r, "insert") /\ UNCHANGED lock
       ELSE Asks(r, "end") /\ Unlock(r)
  /\ WorldUnchanged /\ BuildersUnchanged /\ UNCHANGED <<row, queue>>

(* Only the account that asks is a foreign key: the request of an          *)
(* organization deleted meanwhile is inserted.                             *)
ClaimInsert(r) ==
  /\ asker[r] = "insert"
  /\ IF ScopeOf[r] \in closed \ Orgs
       THEN Asks(r, "end") /\ UNCHANGED <<status, since>>
       ELSE /\ status' = [status EXCEPT ![r] = "pending"]
            /\ since' = [since EXCEPT ![r] = clock]
            /\ Asks(r, "emit")
  /\ Unlock(r)
  /\ WorldUnchanged /\ BuildersUnchanged /\ UNCHANGED <<expires, archive, queue>>

(* The event is accepted, or accepted and lost. *)
EmitAccepted(r) ==
  /\ asker[r] = "emit"
  /\ queue' \in {queue, queue \cup {r}}
  /\ Asks(r, "end")
  /\ WorldUnchanged /\ BuildersUnchanged /\ UNCHANGED <<row, lock>>

(* It is refused, or no answer came although it is accepted. *)
EmitRefused(r) ==
  /\ asker[r] = "emit"
  /\ queue' \in {queue, queue \cup {r}}
  /\ Asks(r, "close")
  /\ WorldUnchanged /\ BuildersUnchanged /\ UNCHANGED <<row, lock>>

MarkFailed(r) ==
  /\ status' = IF status[r] = "pending" THEN [status EXCEPT ![r] = "failed"] ELSE status
  /\ UNCHANGED <<since, expires, archive>>

CloseRequest(r) ==
  /\ asker[r] = "close"
  /\ MarkFailed(r)
  /\ Asks(r, "end")
  /\ WorldUnchanged /\ BuildersUnchanged /\ UNCHANGED <<lock, queue>>

(* The process dies, and its transaction with it.  (Before the claim this  *)
(* is a request that was not made.)                                        *)
AskerDies(r) ==
  /\ asker[r] \in {"read", "insert", "emit", "close"} /\ fails < MaxFails
  /\ fails' = fails + 1
  /\ Asks(r, "end") /\ Unlock(r)
  /\ BuildersUnchanged /\ UNCHANGED <<clock, closed, row, queue>>

-----------------------------------------------------------------------------
(* The job: buildDataExport, for one request or for those the sweep lists *)

Deliver(b, r) ==
  /\ b \in Workers /\ At(b, "idle") /\ r \in queue
  /\ builder' = [builder EXCEPT ![b] = Execution(r, "find", 0, {})]
  /\ WorldUnchanged /\ AskersUnchanged /\ UNCHANGED <<row, mailed>>

\* Mutant of SweepForget: the sweep only takes up what is pending.
SweepForgetsNothing ==
  /\ At(Sweeper, "idle")
  /\ builder' = [builder EXCEPT ![Sweeper] = Execution(Nobody, "list", clock, {})]
  /\ WorldUnchanged /\ AskersUnchanged /\ UNCHANGED <<row, mailed>>

SweepForget ==
  /\ At(Sweeper, "idle")
  /\ Forget(clock)
  /\ builder' = [builder EXCEPT ![Sweeper] = Execution(Nobody, "list", clock, {})]
  /\ WorldUnchanged /\ AskersUnchanged /\ UNCHANGED <<status, since, expires, mailed>>

\* Mutant of Stale: only the requests that reached the age since the last run.
StaleSinceLastRun(r, at) == since[r] = at - MinAge - 1

Stale(r, at) == since[r] < at - MinAge

SweepList ==
  /\ At(Sweeper, "list")
  /\ LET old == {r \in Requests : status[r] = "pending" /\ Stale(r, builder[Sweeper].at)}
     IN builder' = [builder EXCEPT ![Sweeper] =
          IF old = {} THEN Free ELSE Execution(Nobody, "next", 0, old)]
  /\ WorldUnchanged /\ AskersUnchanged /\ UNCHANGED <<row, mailed>>

SweepNext ==
  /\ At(Sweeper, "next")
  /\ \E r \in builder[Sweeper].todo :
       builder' = [builder EXCEPT ![Sweeper] = Execution(r, "find", 0, @.todo \ {r})]
  /\ WorldUnchanged /\ AskersUnchanged /\ UNCHANGED <<row, mailed>>

FindRequest(b) ==
  /\ At(b, "find")
  /\ IF status[builder[b].r] = "pending" THEN Turn(b, "collect", 0) ELSE Done(b)
  /\ WorldUnchanged /\ AskersUnchanged /\ UNCHANGED <<row, mailed>>

\* Mutant of Collect: the link leaves before the archive is kept.
CollectThenMail(b) ==
  /\ At(b, "collect")
  /\ \E pc \in {"mail", "failed"} : Turn(b, pc, 0)
  /\ WorldUnchanged /\ AskersUnchanged /\ UNCHANGED <<row, mailed>>

(* The modules are exported in turn; the date is read when they are done. *)
Collect(b) ==
  /\ At(b, "collect")
  /\ Turn(b, "ready", clock) \/ Turn(b, "failed", 0)
  /\ WorldUnchanged /\ AskersUnchanged /\ UNCHANGED <<row, mailed>>

BuildFailed(b) ==
  /\ At(b, "failed")
  /\ MarkFailed(builder[b].r)
  /\ Done(b)
  /\ WorldUnchanged /\ AskersUnchanged /\ UNCHANGED mailed

\* Mutant of MarkReady: the update does not look at the status.
MarkReadyAlways(r, at) ==
  /\ status' = [status EXCEPT ![r] = "ready"]
  /\ expires' = [expires EXCEPT ![r] = at + Ttl]
  /\ archive' = [archive EXCEPT ![r] = TRUE]

MarkReady(r, at) ==
  IF status[r] = "pending"
    THEN /\ status' = [status EXCEPT ![r] = "ready"]
         /\ expires' = [expires EXCEPT ![r] = at + Ttl]
         /\ archive' = [archive EXCEPT ![r] = TRUE]
    ELSE UNCHANGED <<status, expires, archive>>

(* Whether a row was written is not looked at. *)
BuildReady(b) ==
  /\ At(b, "ready")
  /\ MarkReady(builder[b].r, builder[b].at)
  /\ Turn(b, "mail", 0)
  /\ WorldUnchanged /\ AskersUnchanged /\ UNCHANGED <<since, mailed>>

(* Nothing is sent to an account that no longer exists; the delivery may   *)
(* fail, and the answer is only logged.                                    *)
SendLink(b) ==
  /\ At(b, "mail")
  /\ LET r == builder[b].r
     IN mailed' \in IF ScopeOf[r] \in closed \ Orgs
                      THEN {mailed}
                      ELSE {mailed, mailed \cup {r}}
  /\ Done(b)
  /\ WorldUnchanged /\ AskersUnchanged /\ UNCHANGED row

(* The execution dies, or a step of it throws: a sweep goes no further. *)
BuilderDies(b) ==
  /\ ~At(b, "idle") /\ fails < MaxFails
  /\ fails' = fails + 1
  /\ builder' = [builder EXCEPT ![b] = Free]
  /\ AskersUnchanged /\ UNCHANGED <<clock, closed, row, mailed>>

-----------------------------------------------------------------------------
(* purgeDataExports *)

PurgeScope(s) ==
  /\ s \notin closed /\ closed' = closed \cup {s}
  /\ LET rows == {r \in Requests : ScopeOf[r] = s /\ status[r] # "none"}
     IN /\ status' = [r \in Requests |-> IF r \in rows THEN "gone" ELSE status[r]]
        /\ archive' = [r \in Requests |-> archive[r] /\ r \notin rows]
  /\ AskersUnchanged /\ BuildersUnchanged /\ UNCHANGED <<clock, since, expires, fails>>

Ask(r) ==
  \/ Authorize(r) \/ ClaimLock(r) \/ ClaimRead(r) \/ ClaimInsert(r)
  \/ EmitAccepted(r) \/ EmitRefused(r) \/ CloseRequest(r)
Sweep == SweepForget \/ SweepList \/ SweepNext
Build(b) ==
  FindRequest(b) \/ Collect(b) \/ BuildFailed(b) \/ BuildReady(b) \/ SendLink(b)

Next ==
  \/ Tick \/ Sweep
  \/ \E r \in Requests : Ask(r) \/ AskerDies(r) \/ \E b \in Workers : Deliver(b, r)
  \/ \E b \in Builders : Build(b) \/ BuilderDies(b)
  \/ \E s \in Scopes : PurgeScope(s)

Spec == Init /\ [][Next]_vars

(* Time passes, the sweep is scheduled, and an execution that does not die *)
(* goes on.  Nothing is asked of the events.                               *)
FairSpec ==
  Spec /\ WF_vars(Tick) /\ WF_vars(Sweep) /\ WF_vars(Build(Sweeper))

-----------------------------------------------------------------------------
(* Properties *)

Executions ==
  [r : Requests \cup {Nobody}, at : Clock, todo : SUBSET Requests,
   pc : {"idle", "list", "next", "find", "collect", "ready", "failed", "mail"}]

(* Type of the state; a lock is held by a claim under way.                 *)
TypeOK ==
  /\ clock \in Clock /\ closed \subseteq Scopes
  /\ status \in [Requests -> {"none", "pending", "ready", "failed", "gone"}]
  /\ since \in [Requests -> Clock]
  /\ expires \in [Requests -> 0..(MaxClock + Ttl)]
  /\ archive \in [Requests -> BOOLEAN]
  /\ asker \in [Requests -> {"authorize", "lock", "read", "insert",
                             "emit", "close", "end"}]
  /\ lock \in [Scopes -> Requests \cup {Nobody}]
  /\ \A s \in Scopes :
       lock[s] # Nobody => ScopeOf[lock[s]] = s /\ asker[lock[s]] \in {"read", "insert"}
  /\ queue \subseteq Requests
  /\ builder \in [Builders -> Executions]
  /\ fails \in 0..MaxFails /\ mailed \subseteq Requests

(* Requests in flight at the same time on one scope claim one export: two  *)
(* archives of one person's data are never under way together.             *)
OnePending == \A s \in Scopes : Cardinality(Pending(s)) <= 1

(* A link works until its due date: neither the sweep nor the next asker   *)
(* forgets an archive that is not due, and none is ready without one.      *)
LinkLives ==
  \A r \in Requests : status[r] = "ready" /\ clock < expires[r] => archive[r]

(* No link leaves for a request that is still pending: its archive is kept *)
(* by then, or the request was closed as failed, or purged, while it was   *)
(* built.  Nothing but a request that is ready keeps an archive: neither a *)
(* purge nor a failure during a build leaves one.                          *)
LinkAfterOutcome ==
  \A r \in Requests : /\ r \in mailed => status[r] \in {"ready", "failed", "gone"}
                      /\ archive[r] => status[r] = "ready"

(* A link always leaves after its archive is kept, and a request that is   *)
(* over sends no email (data-export-use-cases.ts, buildDataExport).  It is *)
(* not so: whether markReady wrote is not looked at, and a request closed  *)
(* as failed while it was built gets a link to nothing.                    *)
NoLinkToNothing == \A r \in mailed : status[r] # "failed"

(* The first outcome of a request stands: a second build, a sweep that     *)
(* comes after it or a late failure does not change what was served, put   *)
(* its due date off or bring back what a purge erased.                     *)
OutcomeHolds ==
  [][\A r \in Requests :
       status[r] \in {"ready", "failed", "gone"}
         => /\ status'[r] \in {status[r], "gone"}
            /\ expires'[r] = expires[r]]_vars

(* No request stays pending, so none blocks its scope: lost events and     *)
(* dead processes are made up for by the sweep.  (A request is pending     *)
(* once, so it is enough that in the end none of sufficient age is.)       *)
RequestsEnd ==
  <>[](\A r \in Requests : status[r] = "pending" => since[r] + MinAge >= clock)

(* An archive past its due date is erased although nobody asks again.      *)
ArchivesForgotten ==
  <>[](\A r \in Requests : archive[r] => clock <= expires[r])
=============================================================================
