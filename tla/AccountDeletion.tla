---------------------------- MODULE AccountDeletion ----------------------------
(***************************************************************************)
(* Deleting an account: the request (requestAccountDeletion), the purge it *)
(* queues (auth.purge-account, runAccountPurge, purgeModules) and what     *)
(* goes on meanwhile in the modules the purge crosses: sessions, ownership *)
(* of organizations, uploads.                                              *)
(*                                                                         *)
(* The job ledger is used through what it promises (JobRuns), which is at  *)
(* most one run: it may also refuse to answer, or keep a reservation that  *)
(* nobody runs.  Modules are purged from the dependent to its requirement: *)
(* storage stands for those purged before organizations, auth comes last.  *)
(* An operation of another module is one step here; Organizations has the  *)
(* interleavings inside it, JobDispatch those of the ledger's statements.  *)
(***************************************************************************)
EXTENDS Integers

CONSTANTS
    Users,        \* accounts
    Orgs,         \* organizations
    Runs,         \* deliveries of purge emissions, numbered as they arrive
    Subject,      \* the account each delivery is about: [Runs -> Users]
    InitialRole,  \* [Orgs -> [Users -> Roles]]
    MaxAttempts,  \* retry.maxAttempts
    Busy,         \* bound: accounts that upload or found organizations
    Unsure        \* bound: deliveries the ledger may fail to answer

Roles == {"none", "admin", "owner"}

ASSUME AccountDeletionAssumption ==
    /\ Runs \subseteq Nat /\ Subject \in [Runs -> Users]
    /\ InitialRole \in [Orgs -> [Users -> Roles]]
    /\ MaxAttempts \in Nat \ {0}
    /\ Busy \subseteq Users /\ Unsure \subseteq Runs

VARIABLES
    account,    \* auth_user row: "open", "closed" (deletion_requested_at set) or "erased"
    session,    \* accounts with a session; only an open account opens another one
    ask,        \* where the deletion request of each account stands
    events,     \* accounts whose purge emission the scheduler accepted
    running,    \* ledger: deliveries executing the purge of each account
    won,        \* ledger: a purge of the account succeeded
    held,       \* ledger: accounts whose purge is reserved although nobody runs it
    stage,      \* next step of each delivery
    attempt,    \* the current attempt of a delivery
    role,       \* organization_member
    file,       \* accounts with a stored avatar
    uploading,  \* confirmAvatar past its authentication, before its row is written
    farewell,   \* "account deleted" emails sent
    refused,    \* accounts whose last decided purge was refused, and told so by email
    emptied,    \* history: accounts still there whose files a purge has erased
    regained    \* history: those made owner again since their departure was claimed

Ledger == INSTANCE JobRuns WITH Keys <- Users, Dispatches <- Runs

request == <<ask, events>>
ledger == <<running, won, held>>
delivery == <<stage, attempt>>
access == <<account, session>>
files == <<file, uploading, emptied>>
mails == <<farewell, refused>>
vars == <<access, request, ledger, delivery, role, files, mails, regained>>

PurgeStages == {"decide", "storage", "organizations", "auth"}
Stages == {"waiting", "farewell", "over", "abandoned", "unclaimed"} \cup PurgeStages

Init ==
    /\ account = [u \in Users |-> "open"]
    /\ session = Users
    /\ ask = [u \in Users |-> "idle"]
    /\ events = {}
    /\ Ledger!Init /\ held = {}
    /\ stage = [r \in Runs |-> "waiting"]
    /\ attempt = [r \in Runs |-> 0]
    /\ role = InitialRole
    /\ file = Users
    /\ uploading = {}
    /\ farewell = [u \in Users |-> 0]
    /\ refused = {}
    /\ emptied = {}
    /\ regained = {}

Owners(o) == {u \in Users : role[o][u] = "owner"}

\* soleOwnershipsOf.
SoleOwner(u) == \E o \in Orgs : Owners(o) = {u}

\* Accounts whose departure has been claimed and whose purge is not over.
Leaving == emptied \cup
           {Subject[r] : r \in {q \in Runs : stage[q] \in {"storage", "organizations", "auth"}}}

\* The memberships of u are deleted.
Departed(u) == [o \in Orgs |-> [role[o] EXCEPT ![u] = "none"]]

(***************************************************************************)
(* What people do meanwhile.                                               *)
(***************************************************************************)

\* Ownership goes to another member, whose account may be closed or being purged.
TransferOwnership(u, v, o) ==
    /\ u \in session /\ u # v
    /\ role[o][u] = "owner" /\ role[o][v] # "none"
    /\ role' = [role EXCEPT ![o][u] = "admin", ![o][v] = "owner"]
    /\ regained' = regained \cup ({v} \cap Leaving)
    /\ UNCHANGED <<access, request, ledger, delivery, files, mails>>

CreateOrganization(u, o) ==
    /\ u \in session /\ u \in Busy
    /\ \A v \in Users : role[o][v] = "none" /\ InitialRole[o][v] = "none"
    /\ role' = [role EXCEPT ![o][u] = "owner"]
    /\ regained' = regained \cup ({u} \cap Leaving)
    /\ UNCHANGED <<access, request, ledger, delivery, files, mails>>

LeaveOrganization(u, o) ==
    /\ u \in session
    /\ role[o][u] # "none" /\ Owners(o) # {u}
    /\ role' = [role EXCEPT ![o][u] = "none"]
    /\ UNCHANGED <<access, request, ledger, delivery, files, mails, regained>>

\* confirmAvatar: authenticated once, it then talks to the storage provider ...
BeginUpload(u) ==
    /\ u \in session /\ u \in Busy \ uploading
    /\ uploading' = uploading \cup {u}
    /\ UNCHANGED <<access, request, ledger, delivery, role, file, emptied, mails, regained>>

\* ... and writes storage_file, which references no account.
EndUpload(u) ==
    /\ u \in uploading
    /\ uploading' = uploading \ {u}
    /\ file' = file \cup {u}
    /\ UNCHANGED <<access, request, ledger, delivery, role, emptied, mails, regained>>

(***************************************************************************)
(* The request: sole ownership, emission, mark, revocation.                *)
(***************************************************************************)

Answer(u, step) == ask' = [ask EXCEPT ![u] = step]

\* The account is found and confirmed, and is not the last owner of an organization.
RequestDeletion(u) ==
    /\ u \in session /\ ask[u] = "idle" /\ account[u] # "erased"
    /\ ~ SoleOwner(u)
    /\ Answer(u, "checked")
    /\ UNCHANGED <<access, events, ledger, delivery, role, files, mails, regained>>

\* jobs.emit succeeds, fails, or times out on an event the scheduler has accepted; in the
\* last two cases the account stays open and the answer is "unavailable".
EmitPurge(u) ==
    /\ ask[u] = "checked"
    /\ \/ Answer(u, "emitted") /\ events' = events \cup {u}
       \/ Answer(u, "idle") /\ UNCHANGED events
       \/ Answer(u, "idle") /\ events' = events \cup {u}
    /\ UNCHANGED <<access, ledger, delivery, role, files, mails, regained>>

\* users.markDeletionRequested: closes the account, when it is still there.
MarkRequested(u) ==
    /\ ask[u] = "emitted"
    /\ account' = [account EXCEPT ![u] = IF @ = "erased" THEN @ ELSE "closed"]
    /\ Answer(u, "marked")
    /\ UNCHANGED <<session, events, ledger, delivery, role, files, mails, regained>>

\* sessions.revokeAllForUser, then "queued".
RevokeSessions(u) ==
    /\ ask[u] = "marked"
    /\ session' = session \ {u}
    /\ Answer(u, "idle")
    /\ UNCHANGED <<account, events, ledger, delivery, role, files, mails, regained>>

\* The process serving the request stops.
CrashRequest(u) ==
    /\ ask[u] # "idle"
    /\ Answer(u, "idle")
    /\ UNCHANGED <<access, events, ledger, delivery, role, files, mails, regained>>

(***************************************************************************)
(* The purge.                                                              *)
(***************************************************************************)

Reach(r, next) == stage' = [stage EXCEPT ![r] = next] /\ UNCHANGED attempt
End(r, how) == /\ stage' = [stage EXCEPT ![r] = how]
               /\ attempt' = [attempt EXCEPT ![r] = 0]

\* Mutant of Reserve: deliveries are not deduplicated.
ReserveNothing(r, u) ==
    /\ running' = [running EXCEPT ![u] = @ \cup {r}]
    /\ UNCHANGED won

\* The ledger lets delivery r execute the emission of u.
Reserve(r, u) == u \notin held /\ Ledger!Start(r, u)

\* The scheduler delivers an accepted emission, possibly again.
Arrives(r) ==
    /\ stage[r] = "waiting" /\ Subject[r] \in events
    /\ \A q \in Runs : q < r /\ Subject[q] = Subject[r] => stage[q] # "waiting"

\* The ledger lets the delivery run ...
Deliver(r) ==
    /\ Arrives(r) /\ Reserve(r, Subject[r])
    /\ stage' = [stage EXCEPT ![r] = "decide"]
    /\ attempt' = [attempt EXCEPT ![r] = 1]
    /\ UNCHANGED <<access, request, held, role, files, mails, regained>>

\* ... or has its key already: it is skipped, whether the purge runs, is done, or is only
\* reserved ...
Skip(r) ==
    LET u == Subject[r] IN
    /\ Arrives(r)
    /\ \/ (running[u] # {} \/ won[u]) /\ Reach(r, "over")
       \/ u \in held /\ Reach(r, "unclaimed")
    /\ UNCHANGED <<access, request, ledger, role, files, mails, regained>>

\* ... or refuses or does not answer in time: nothing runs, nothing starts it again
\* (retries: 0), and the reservation may have been written all the same.
ClaimFails(r) ==
    LET u == Subject[r] IN
    /\ Arrives(r) /\ r \in Unsure
    /\ Reach(r, "unclaimed")
    /\ \/ UNCHANGED held
       \/ running[u] = {} /\ ~ won[u] /\ held' = held \cup {u}
    /\ UNCHANGED <<access, request, running, won, role, files, mails, regained>>

\* sweepJobRuns, after the retention: a success or a reservation is forgotten (the latter
\* also by a release that executes late).
SweepRun(u) ==
    /\ \/ Ledger!Forget(u) /\ UNCHANGED held
       \/ u \in held /\ held' = held \ {u} /\ UNCHANGED <<running, won>>
    /\ UNCHANGED <<access, request, delivery, role, files, mails, regained>>

\* The run returns: the job has succeeded.
Succeed(r) == End(r, "over") /\ Ledger!Succeed(r, Subject[r]) /\ UNCHANGED held

\* The run has failed for good: its reservation is released, unless the store refuses.
GiveUp(r, how) ==
    /\ End(r, how) /\ Ledger!Stop(r, Subject[r])
    /\ held' = held \/ (r \in Unsure /\ held' = held \cup {Subject[r]})

\* Mutant of Claimed: ownership is read again instead of being claimed.
ClaimedByReading(u) == role

\* releaseOrganizations: the memberships go, in one transaction, before anything else.
Claimed(u) == Departed(u)

\* runAccountPurge: an absent account was erased already; a last owner is refused for
\* good and told by email; anyone else leaves every organization.
Decide(r) ==
    LET u == Subject[r] IN
    /\ stage[r] = "decide"
    /\ \/ /\ account[u] = "erased"
          /\ Succeed(r)
          /\ UNCHANGED <<role, refused, regained>>
       \/ /\ account[u] # "erased" /\ SoleOwner(u)
          /\ refused' = refused \cup {u}
          /\ GiveUp(r, "over")
          /\ UNCHANGED <<role, regained>>
       \/ /\ account[u] # "erased" /\ ~ SoleOwner(u)
          /\ role' = Claimed(u)
          /\ refused' = refused \ {u}
          /\ regained' = regained \ {u}
          /\ Reach(r, "storage") /\ UNCHANGED ledger
    /\ UNCHANGED <<access, request, files, farewell>>

PurgeStorage(r) ==
    /\ stage[r] = "storage"
    /\ file' = file \ {Subject[r]}
    /\ emptied' = emptied \cup {Subject[r]}
    /\ Reach(r, "organizations")
    /\ UNCHANGED <<access, request, ledger, role, uploading, mails, regained>>

\* organizations.purge refuses a last owner by throwing (see PurgeFails).
PurgeOrganizations(r) ==
    /\ stage[r] = "organizations" /\ ~ SoleOwner(Subject[r])
    /\ role' = Departed(Subject[r])
    /\ Reach(r, "auth")
    /\ UNCHANGED <<access, request, ledger, files, mails, regained>>

\* auth.purge, last: sessions and account; organization_member cascades.
PurgeAuth(r) ==
    /\ stage[r] = "auth"
    /\ session' = session \ {Subject[r]}
    /\ account' = [account EXCEPT ![Subject[r]] = "erased"]
    /\ role' = Departed(Subject[r])
    /\ emptied' = emptied \ {Subject[r]}
    /\ regained' = regained \ {Subject[r]}
    /\ Reach(r, "farewell")
    /\ UNCHANGED <<request, ledger, file, uploading, mails>>

SendFarewell(r) ==
    /\ stage[r] = "farewell"
    /\ farewell' = [farewell EXCEPT ![Subject[r]] = @ + 1]
    /\ Succeed(r)
    /\ UNCHANGED <<access, request, role, files, refused, regained>>

\* Mutant of NextAttempt: attempts are not counted.
SameAttempt(n) == n

NextAttempt(n) == n + 1

\* Mutant of MayRetry: one attempt too many.
MayRetryOnceMore(r) == attempt[r] <= MaxAttempts

MayRetry(r) == attempt[r] < MaxAttempts

\* A module throws: provider_unavailable, transient, tried again up to the limit.
PurgeFails(r) ==
    /\ stage[r] \in PurgeStages
    /\ \/ /\ MayRetry(r)
          /\ stage' = [stage EXCEPT ![r] = "decide"]
          /\ attempt' = [attempt EXCEPT ![r] = NextAttempt(@)]
          /\ UNCHANGED ledger
       \/ /\ ~ MayRetry(r)
          /\ GiveUp(r, "abandoned")
    /\ UNCHANGED <<access, request, role, files, mails, regained>>

\* The process stops: its reservation stays.
CrashRun(r) ==
    /\ stage[r] \in PurgeStages \cup {"farewell"}
    /\ End(r, "abandoned") /\ Ledger!Stop(r, Subject[r])
    /\ held' = held \cup {Subject[r]}
    /\ UNCHANGED <<access, request, role, files, mails, regained>>

Meanwhile(u) ==
    \/ BeginUpload(u) \/ EndUpload(u)
    \/ \E o \in Orgs : \/ CreateOrganization(u, o) \/ LeaveOrganization(u, o)
                       \/ \E v \in Users : TransferOwnership(u, v, o)

Request(u) ==
    \/ RequestDeletion(u) \/ EmitPurge(u) \/ MarkRequested(u) \/ RevokeSessions(u)
    \/ CrashRequest(u)

PurgeStep(r) ==
    \/ Decide(r) \/ PurgeStorage(r) \/ PurgeOrganizations(r) \/ PurgeAuth(r)
    \/ SendFarewell(r) \/ PurgeFails(r)

Delivery(r) == Deliver(r) \/ Skip(r) \/ ClaimFails(r)

Next ==
    \/ \E u \in Users : Meanwhile(u) \/ Request(u) \/ SweepRun(u)
    \/ \E r \in Runs : PurgeStep(r) \/ CrashRun(r) \/ Delivery(r)

Spec == Init /\ [][Next]_vars

\* The scheduler delivers what it accepted, and a purge that has started goes on: every
\* call it makes returns or throws.  Nothing makes the ledger answer.
FairSpec ==
    /\ Spec
    /\ \A r \in Runs : WF_vars(Delivery(r)) /\ WF_vars(PurgeStep(r))

(***************************************************************************)
(* Properties.                                                             *)
(***************************************************************************)

\* The type of every variable.
TypeOK ==
    /\ account \in [Users -> {"open", "closed", "erased"}]
    /\ session \subseteq Users
    /\ ask \in [Users -> {"idle", "checked", "emitted", "marked"}]
    /\ events \subseteq Users
    /\ running \in [Users -> SUBSET Runs] /\ won \in [Users -> BOOLEAN] /\ held \subseteq Users
    /\ stage \in [Runs -> Stages]
    /\ attempt \in [Runs -> 0 .. MaxAttempts]
    /\ role \in [Orgs -> [Users -> Roles]]
    /\ file \subseteq Users /\ uploading \subseteq Users
    /\ farewell \in [Users -> Nat]
    /\ refused \subseteq Users /\ emptied \subseteq Users /\ regained \subseteq Users

\* However often the purge of an account is asked for and delivered, its holder is told
\* once at most that the account is gone, and only when it is.
FarewellOnce ==
    \A u \in Users : /\ farewell[u] <= 1
                     /\ farewell[u] = 1 => account[u] = "erased"

\* A last owner is refused before anything of theirs is erased, even when two co-owners
\* leave together -- unless they were made owner again after leaving.
RefusedKeepsFiles == \A u \in refused : u \in emptied => u \in regained

\* A purge that was asked for and whose account was closed ends: the account is erased,
\* its holder is told it was not, the dispatcher gives up after its last attempt, or a
\* delivery ran nothing because the ledger failed or kept a dead process's reservation.
\* The last two leave a closed account that nothing will purge (see README).
DeletionSettles ==
    \A u \in Users :
        ask[u] = "marked" ~>
            \/ account[u] = "erased"
            \/ u \in refused
            \/ \E r \in Runs : Subject[r] = u /\ stage[r] \in {"abandoned", "unclaimed"}

\* The same without a ledger that fails: a purge is replayed until it is done or given up.
\* It is not so: nothing delivers a second time what the ledger did not let run.
PurgeIsReplayed ==
    \A u \in Users :
        ask[u] = "marked" ~>
            \/ account[u] = "erased"
            \/ u \in refused
            \/ \E r \in Runs : Subject[r] = u /\ stage[r] = "abandoned"

\* An account that its purge erased leaves no stored file behind.
AbsentMeansErased ==
    \A u \in Users : account[u] = "erased" => u \notin file

=============================================================================
