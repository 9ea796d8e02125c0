# A verification development for the SaaS boilerplate

TLA+ modules, TLC configurations and TLAPS proofs for the parts of this repository whose
correctness depends on what happens between two lines of code: transactions that overlap,
providers that answer late or from memory, events that arrive in any order, processes that
stop half way.  Paths below are relative to the root of the repository unless they start
with `src/`.

## 1. Inventory

The program is a modular monolith: a Next.js application (`apps/web`) composes modules
(`packages/modules/*`) over a core (`packages/core`), ports (`packages/ports`), adapters to
providers (`packages/adapters/*`) and one PostgreSQL database.  Each module owns its tables;
modules meet through functions wired in `apps/web/lib` and through the registry (`purge`,
`export`, jobs).  Several instances of the application may run at once; the database, the
payment provider and the job scheduler are what they share.

| Component | State | Operations | Hard behaviour | What makes it correct |
|---|---|---|---|---|
| organizations | `organization`, `organization_member`, `organization_invitation` | found, invite, reissue, revoke, accept, remove, set role / transfer, delete, purge an account | READ COMMITTED transactions, an advisory lock taken by some operations only, roles read before the transaction | an owner is kept, a permission holds when it is used, an invitation admits once and atomically |
| billing, seats | quantity at the provider, its idempotency keys | `syncSeats` before the COMMIT of a membership change, `alignSeats`, cancellation | two systems without a common transaction, replayed keys, lost answers | the bill follows the members, the seat limit holds |
| billing, purchases | `billing_purchase`, `billing_purchase_session`, `billing_refunded_payment`, `billing_webhook_event` | open a checkout, apply an event, reconcile | events duplicated, late, in any order, in overlapping transactions; a reconciliation that reads in several steps | what was paid for is granted, what was refunded is not, reconciling twice changes nothing |
| billing, subscription cache | `billing_subscription` | apply an event, replace by a reconciliation, delete a scope | the same ordering question, an unconditional upsert stamped with another clock | a cancellation holds, the cache converges to the provider |
| billing, guest checkout | `billing_customer`, `billing_webhook_event` | open, promote the customer to an account, send an access link | overlapping deliveries, one customer under two addresses, sign-ups refused | a payment ends attached to an account, one link |
| core jobs, job ledger | `job_run` | claim, run, retry, release, sweep | statements that execute after they were given up, crashes, duplicate deliveries | a run at a time, none after a success, every dispatch ends |
| auth, account deletion | `auth_user.deletion_requested_at`, sessions | request, emit, mark, revoke, purge | a purge that starts before it is marked, that is retried from the start, that meets ownership changes and uploads | told once, refused before anything is erased, nothing left behind |
| core registry | the ordered list of modules | `purgeModules`, `exportModules` | stops at the first failure, starts again from the first module | dependents are purged before what they depend on |
| storage | `storage_file`, objects | presign, confirm, remove, read, purge | object store and row without a transaction, a pending object that can be overwritten while it is checked | what is served was checked, a row has its object, an object has its row |
| auth, sign-in | `auth_session`, challenges | delegated to Better Auth, with hooks | check, then insert by the library | a closed account keeps no session |
| auth, data exports | `auth_data_export_request` | request, build, sweep, download, purge | a build run twice, lost events, a purge meanwhile | one pending request per scope, links that work, nothing pending or kept for ever |
| admin | `admin_platform_role`, `auth_user.banned`, borrowed sessions | designate, grant, revoke, ban, lift, close a session, borrow, give back | advisory lock here, accounts closed elsewhere, two connections per transaction | a superadmin who can sign in remains, sessions follow the account and the role |
| rate-limit | `rate_limit_window` | consume, sweep | windows computed from clocks of several instances, timeouts | no more than the maximum passes in a window |
| notifications, marketing, onboarding | one row per notification, subscription, contact message, account | insert, mark, read-modify-write of a row | hardly any | - |
| i18n, blog, changelog, docs, consent, analytics, mcp-server, demo modules | none shared | pure functions, files, cookies | none | - |
| adapters | none | one request per call | timeouts, retries | same contract as the port |
| db, config, cli, emails, ui, testing doubles, apps/guide | none at run time | - | - | - |

Interactions that matter here: organizations calls billing (`seatSync`) inside an open
transaction; billing calls the payment provider and receives its events; auth asks
organizations whether an account may leave (`soleOwnershipsOf`) and to release it
(`releaseOrganizations` = `deleteMembershipsOf`), emits `auth.purge-account` to the scheduler,
and the purge runs through the job dispatcher and crosses every module; admin writes bans and
sessions through auth, inside its own transaction; billing creates and finds accounts through
auth when a guest pays (`apps/web/lib/guest-account.ts`).

Every component, modelled or not, is in `PROJECT.json` with its files; every hazard found
while reading is there with its line and the properties that speak of it.

## 2. Modules

| Module | Models | Read with |
|---|---|---|
| `Organizations` | memberships, roles, invitations, organization deletion, account purge, seat quantities | `drizzle-organization-repositories.ts`, `organization-use-cases.ts`, `permissions.ts`, `billing-use-cases.ts` |
| `OrganizationsProofs` | types, `OwnerKept`, `AdminRemovesOnlyMembers`, `AdmissionIsAtomic`, `SeatsExact`, `LimitHeld`, for every instance | |
| `JobRuns` | the abstract promise of the dispatcher | `JobRunLedger` in `packages/core/src/jobs.ts` |
| `JobDispatch` | `dispatchModuleJob` over the PostgreSQL ledger | `packages/core/src/jobs.ts`, `drizzle-job-ledger.ts` |
| `AccountDeletion` | the request, the purge and what goes on meanwhile; uses `JobRuns` as its ledger | `auth-use-cases.ts`, `registry.ts`, `storage-use-cases.ts` |
| `AccountDeletionProofs` | types, `FarewellOnce`, `RefusedKeepsFiles`; both `JobDispatch` and `AccountDeletion` implement `JobRuns` | |
| `Purchases` | one-time purchases: checkout, events, refund journal, reconciliation | `drizzle-billing-repositories.ts`, `billing-use-cases.ts`, `stripe-payments.ts` |
| `PurchasesProofs` | types, `RefundRevokes`, `PaymentGrants`, `AccessLostOnlyByRefund`, `ReconcileIdempotent`, `ReconcileRepairs` | |
| `Subscriptions` | the subscription cache: events in any order, reconciliation | `drizzle-billing-repositories.ts`, `billing-use-cases.ts`, `subscription.ts` |
| `SubscriptionsProofs` | types, `CacheMatches`, `CancellationHolds` | |
| `GuestCheckout` | a visitor pays, the webhook makes the customer an account | `billing-use-cases.ts`, `drizzle-billing-repositories.ts`, `apps/web/lib/guest-account.ts` |
| `GuestCheckoutProofs` | types, `PaidIsAttached`, `LinkOnce`, `PromotionHolds` | |
| `DataExports` | request, build, sweep and purge of exports | `data-export-use-cases.ts`, `drizzle-data-export-repository.ts` |
| `DataExportsProofs` | types, `OnePending`, `LinkLives`, `LinkAfterOutcome`, `OutcomeHolds` | |
| `Avatars` | uploads, confirmations and removals of one owner | `storage-use-cases.ts`, `drizzle-file-repository.ts`, `avatar.ts` |
| `AvatarsProofs` | types, `ServedIsChecked`, `NoOrphan`, `AvatarHasObject` | |
| `Administration` | platform roles, bans, borrowed sessions, sign-in | `admin-use-cases.ts`, `drizzle-platform-role-repository.ts`, `auth-use-cases.ts`, `drizzle-auth-repositories.ts`, `better-auth-service.ts`, `session-refresh-adapter.ts` |
| `AdministrationProofs` | types, `AccessFollowsState`, `LastSuperadminKept` | |
| `MC*` | instances of the above for TLC | |

### Organizations

One request per account at a time (`pc`, `req`), and foundings, which are one step.  The purge
of an account is a job: its holder may still found an organization while it runs.  A request is cut exactly where another
connection can commit: after the access was read (`*Begin`), while it waits for
`pg_advisory_xact_lock` (`RemoveLock`, `RoleApply`, `PurgeLock`), during the provider call
(`*Sync`), before its COMMIT (`*Commit`).  `role` holds committed rows only; what a
transaction has written and not committed is in its `req`, which is what READ COMMITTED shows
to itself and hides from the others.  Waiting for a row lock is a guard (`BusyRow`,
`BusyInvitation`, `InFlight`).  Accepting an invitation takes no advisory lock, as in the code.
The provider is its subscription, its quantity and the set of quantities whose key it
remembers.  `cached` says whether the local row of the subscription grants access: it is what
`syncSeats` and the cancellation look at, and it may say no while the subscription lives (not
written yet, an older event, a term that has passed) and yes after it was cancelled
(`CacheMoves`, `ProviderCancels`).  Two history variables name why a property may fail: `raced`
(organizations an account came to own after its purge had listed what it owns), `drift` (why
the bill may differ from the members, or the limit not have been asked).

### JobRuns and JobDispatch

`withTimeout` is a `Promise.race`: giving up on a statement does not withdraw it.  `wire`
holds statements that were sent and have not executed; they may execute after the timeout,
after the process died, or never.  `DELETE` names the emission and not who reserved it.
`OneRunAtATime == Promise!Spec` states that `JobDispatch` implements `JobRuns` under the
mapping "running = the dispatches in `running` or `backoff`, by key".

### AccountDeletion

The request is four steps (`RequestDeletion`, `EmitPurge`, `MarkRequested`, `RevokeSessions`)
that a crash can interrupt; the purge is a decision, then one step per module, in the order
of the registry (a module that depends on another is purged first; storage stands for the
modules before organizations, auth comes last), then the email.  A failing module makes the
dispatcher start again from the decision.  `JobRuns` gives the ledger (`Ledger!Start`,
`Ledger!Succeed`, `Ledger!Stop`, `Ledger!Forget`), so this module rests on what is proved of
`JobDispatch`: their proofs are one module, and the names of `JobDispatch` that both would use
carry `Dispatch`.  A delivery does not always run: the ledger may have the key already (`Skip`)
or refuse or not answer (`ClaimFails`), and `held` are the accounts whose key it keeps though
nobody runs it, after a crash, a late statement or a failed release.  Nothing starts such a
delivery again; the sweep frees the key seven days later, for an emission that nobody repeats.

### Purchases

One customer and one offer, hence one `billing_purchase` row.  A webhook is two steps,
`BeginWebhook` (its UPDATE has chosen its row among the committed ones) and `CommitWebhook`;
`Locked` is the row lock between them.  The reconciliation is a listing, then a read and a
write per session, without a transaction.  Time counts half seconds: events are dated in
whole seconds, reconciliations are not.  A payment is named by the session it was made in.

### Subscriptions

One customer.  The provider holds the truth (`truth`) and emits an event per change, one more
when a payment fails; `events` is never emptied, so any of them is delivered late, twice or
never.  A webhook is `Receive` (the customer is looked up) and `ApplyEvent` (the transaction of
the journal and of the row, with the predicate `AppliesAfter`).  A reconciliation takes its
instant, lists, and for each subscription reads the row and writes it: four steps among which
webhooks fall.  `disturbed` is history: the subscriptions a write has made wrong, by an event
journalled without effect or a reconciliation that wrote what it had read before a change.
`Skew` is how far our clock is ahead, which decides what the stamp of a reconciliation refuses.

### GuestCheckout

`row[c]` is the `billing_customer` row of a guest's checkout: none, guest, or the account it was
promoted to; `own` are the accounts with a row of their own; both share the unique index, which
is `Collides`.  A delivery is cut at its awaits: `Identify`, `SignUp`, `Reread`, `ApplyEvent`,
`SendAccessLink`; any number of deliveries of a payment are open at once, and any may stop.  A
payment carries the address typed in it, so one checkout may be confirmed under two addresses.
The answer of the sign-up is not read by the code, so a refusal (`SignUpRefused`) is only seen
by the reading that follows.

### DataExports

`asker` is the HTTP request behind an export, cut at the lock, the read and the insert of
`claim`, and at the emission, whose four outcomes are kept apart (accepted or refused, and
queued or not).  A `builder` executes the job for one request, or, as `Sweeper`, for those it
lists.  The token is derived from the request, so a link is named by its request, and two
builds mail the same link.  The request of an organization names no foreign key to it: its
purge may be followed by an insert (`ClaimInsert`), which no later purge erases.

### Avatars

One owner; an object of the store is named by its upload, `pending` and `served` are the two
places of it, `avatar` is the row.  A confirmation is cut at each call to the store and at the
lock and the upsert of `replaceAvatar`; `Put` may write the pending object as long as its URL
is valid.  `dropped` and `raced` are history: objects left by a failed or interrupted call, and
uploads confirmed again while a request was about to delete their object.

### Administration

A gesture is one request, cut at its awaits.  `lock` is the advisory lock of the platform
role; `Pool` counts the connections that transactions keep, and a gesture under the lock needs
a second one to read the accounts or to write the ban.  The guard of the back office is a
reading of the session, a count of the superadmins, the transaction that designates the first
one, and the check of the role.  `role` is the module's table, `banned`
and `leaving` the two marks of an account that refuse a sign-in, `sessions` the session table
with who borrows.  `late` on a session is history: its user, or its borrower, had already lost
the account or the role when it was inserted, what `SignInHook`/`SignInInsert` and the guarded
insert of a borrow can do.

## 3. Runs

| Run | Asks | Instance | Result |
|---|---|---|---|
| `orgs_membership` | `TypeOK`, `OwnerKept`, `AdminRemovesOnlyMembers` | owner, admin, stranger; 1 organization; 1 invitation | holds |
| `orgs_leaving` | `RequestsEnd` (liveness) | 2 organizations co-owned by two accounts, a third to found | holds |
| `seats_billed` | `SeatsExact`, `LimitHeld`, `AdmissionIsAtomic` | founder and two interchangeable strangers, 2 interchangeable invitations, limit 2 | holds |
| `jobs_dispatch` | `DispatchTypeOK`, `OneRunAtATime` (refinement), `DispatchEnds` (liveness) | 3 dispatches, 2 keys, 2 attempts | holds |
| `deletion` | `TypeOK`, `FarewellOnce`, `RefusedKeepsFiles`, `DeletionSettles` (liveness) | 2 co-owners, one emission delivered twice, 2 attempts; one account uploads and founds (`Busy`), the ledger may fail the first delivery (`Unsure`) | holds |
| `purchases` | `TypeOK`, `RefundRevokes`, `AccessLostOnlyByRefund`, `PaymentGrants`, `ReconcileIdempotent`, `ReconcileRepairs` | 2 sessions, 2 instants of one second, the first session's charge unlisted | holds |
| `subscriptions` | `CacheMatches`, `CancellationHolds`, `CacheRepaired` (liveness) | 1 subscription, 1 webhook at a time, 4 events, 2 seconds, our clock 1 ahead | holds |
| `guests` | `PaidIsAttached`, `LinkOnce`, `PromotionHolds`, `PaymentsTaken` (liveness) | 2 checkouts, 2 addresses, 2 payments, 2 deliveries at once, 1 failure | holds |
| `exports` | `OnePending`, `LinkLives`, `LinkAfterOutcome`, `OutcomeHolds`, `RequestsEnd`, `ArchivesForgotten` (both liveness) | 2 requests of one organization, 1 job execution and the sweep, 1 death | holds |
| `avatars` | `ServedIsChecked`, `AvatarHasObject`, `NoOrphan` | 2 uploads, 3 requests, 3 writes by the client, 1 failure | holds |
| `admin` | `AccessFollowsState`, `LastSuperadminKept` | 3 accounts, 2 superadmins, 2 gestures, 4 sessions, 1 deletion request | holds |
| `admin_ends` | `GesturesEnd`, `BorrowsEnd` (both liveness) | 2 accounts, 2 gestures, 2 connections, 3 sessions | holds |

Every property of every run has a mutant in `PROJECT.json`: a plausible slip in one mapped
definition with which TLC finds the property violated.  `TypeOK` (`DispatchTypeOK` for
`JobDispatch`) is a property of the runs of `Organizations`, `JobDispatch`, `AccountDeletion` and
`Purchases`; for `Subscriptions`, `GuestCheckout`, `DataExports`, `Avatars` and
`Administration` it is proved, and part of the inductive invariant of every other proof there.

### Why these bounds are enough for what they ask

* Organizations: the shortest loss of an owner needs two owners, or an owner and an account
  that becomes one; an admin removing an admin needs a third account.  Two acceptances that
  overlap need two strangers and two invitations.  A deadlock needs two organizations and two
  accounts; the third organization lets one appear while a purge is under way.  The proof of
  `OwnerKept` removes the bound for the invariant that matters most.
* `Ops` limits an instance to the operations that meet in its question, so that the others do
  not multiply its states.  It names the bound; every action fires in some passing run.
* JobDispatch: two deliveries of one emission race, a third is the one that comes after a
  release or a sweep.  The proof removes the bound.
* AccountDeletion: a refusal after a departure needs two co-owners; duplicated delivery needs
  two runs for one account, numbered in the order in which they arrive.  `Busy` limits uploads
  and founding to one of the two accounts; `Unsure` limits to the first delivery the failures of
  the ledger, so that the second meets the reservation the first has left.
* Purchases: the interesting cases need two sessions (one superseded by the other); two live
  sessions happen when a delayed payment method confirms a first session after its
  idempotency key has expired.  `MaxTime = 1` gives two instants within one second, which is
  where event time and reading time compare wrongly; `MaxTime = 3`, two seconds, was checked
  without the reconciliation with the same result.  `Workers = 2` lets two webhook transactions
  be open at once, what an overlap of a confirmation and its refund needs.  `PartlyGiven` limits
  partial refunds to the second session, `Unlisted` the charges that the listing misses to the
  first one.

* Subscriptions: a stale overwrite needs a change between the listing and the write; a cache
  wrong for good needs two events of one second (a tie) or a stamp ahead of an event.  Four
  events hold a life with a failed payment and a cancellation.  Subscriptions do not meet each
  other (a row each, one journal entry each), so one is enough for what is asked of each.
* GuestCheckout: two checkouts paid under one address meet on the unique index, one checkout
  paid under two addresses meets on its row; both fit in two payments.  Two deliveries at once
  race; the proofs remove the bounds.
* DataExports: two requests of one scope are what the lock keeps apart; a job and the sweep are
  the two builds that meet on a request.  `Ttl = 1`, `MinAge = 0` and three instants let an
  archive live, expire and be forgotten.  The proofs remove the bounds of what they cover.
* Avatars: a replacement needs two uploads; two of them and a removal need three requests.
* Administration: a platform that loses its last superadmin needs two of them and two gestures;
  a third account is the one that is borrowed or promoted.  Two gestures over two connections
  are the smallest pool that can be exhausted by transactions that need a second one.

### Fairness, and why the code justifies it

* `Organizations`: a request that has started goes on (`WF` of its steps), and a waiter for
  an advisory lock is served when the lock is granted infinitely often (`SF` of the steps that
  take it): PostgreSQL queues the waiters of a lock in their order of arrival.  Nothing is
  assumed of users, of the scheduler, of the provider or of the local subscription row.
* `JobDispatch`: the timer of `withTimeout` fires, the job's `run` returns or throws, the
  backoff timer fires.  Nothing is assumed of the database.
* `AccountDeletion`: the scheduler delivers what it accepted (`WF` of `Delivery`, which the
  ledger may refuse), and a purge that started goes on until it ends.  Nothing is assumed of the
  ledger.  `DeletionSettles` counts as an end a purge that gave up (or whose process died) and a
  delivery that ran nothing, since `retries: 0` means that nothing starts them again.
* `Subscriptions`: a reconciliation that was started goes on, and the provider answers its
  listing if it is asked again and again (`SF` of its steps).  Nothing starts one:
  `scripts/billing-reconcile.ts` is a command, and no job or cron runs it.  `CacheRepaired`
  therefore has the command run again and again as its premise.  Nothing is asked of the
  webhooks: it holds if all are lost.
* `GuestCheckout`: the provider delivers an event again until it is answered (`SF` of `Retry`),
  and a request that is served goes on (`WF`); failures are bounded.
* `DataExports`: time passes, the sweep is scheduled, an execution that does not die goes on.
  Nothing is asked of the events.
* `Administration`: a served request goes on; `BeginTimesOut` and `ReadFails` are among its
  steps, since the pool refuses a connection after five seconds (`packages/db/src/client.ts`).
  Time passes for a session, and the hourly job runs.

Deadlock is checked in `guests`, where the provider always has a delivery left; every other
system may come to rest, when all requests have been answered and the bounds are used up.

### Known disagreements

Sentences of the repository that its code does not keep.  Each formula is in its module, next
to the property a run checks in its place, which names the case as its exception (or is itself
that property, with the constant named here); a copy of that run's configuration that lists
only this formula as its INVARIANT shows the behaviour.

| Formula | Sentence | What the code does |
|---|---|---|
| `Organizations!EveryOrganizationHasAnOwner` (Ops role, purge; without `MCLeaving`) | ADR 0030:27: an organization without an owner is "inatteignable par les routes" | a transfer to an account whose purge has already listed its organizations. `OwnerKept`, proved, excepts only this |
| `Organizations!AccessCoveredBySeat` (run `seats_billed`, limit 3) | ADR 0046:8: an access "doit être couvert par un siège facturé" | acceptances take no lock; two that overlap each count one member too few |
| `Organizations!ReplayConverges` (run `seats_billed`, limit 3) | ADR 0046:6: "un rejeu converge" | a quantity visited again within a day is answered from the provider's memory, and not written |
| `Organizations!DeletionEndsBilling` (run `seats_billed`) | `organization-use-cases.ts:727`: "L'annulation avant l'effacement", so that no subscription bills a scope whose rows are gone | `cancelSubscriptions` looks at the local row: one that grants nothing cancels nothing, and the organization is erased while its subscription lives |
| `AccountDeletion!PurgeIsReplayed` (a PROPERTY; run `deletion`) | `docs/reliability.md:68`: "La tâche sera rejouée" | the scheduler is asked for no retry (`retries: 0`): a delivery that the ledger refused, did not answer in time or skipped for a dead process's reservation is the last one, and the account stays closed and unpurged. `DeletionSettles` names it |
| `AccountDeletion!AbsentMeansErased` | `docs/` on deletion: an absent account has nothing left | an upload authenticated before the purge writes its row after it |
| `Purchases!PaidIsGranted` | ADR 0038:12: a revoked offer "redevient achetable" | late events of the refunded payment close the row to the second payment |
| `Purchases!ReconcileIdempotent` (run `purchases` with `Unlisted = {2}`) | `drizzle-billing-repositories.ts:851`: "une seconde exécution rend zéro" | two sessions paid, the later one refunded and its charge beyond the listing: once its refund is applied it decides no more, and the next pass applies the earlier one. Charges are listed newest first, so this takes a later session paid before an earlier one |
| `Purchases!ReconcileSeesRefunds` (run `purchases`) | `stripe-payments.ts:765-768`: both readings are needed so that a refund whose webhook was lost is seen | the listing of charges is capped, and a session whose charge is beyond it counts as paid. `ReconcileRepairs` excepts such charges (`Unlisted`) |
| `Purchases!RefundedNeverGrants` | `billing/src/schema.ts:318`: "L'ordre de livraison cesse de compter" | a confirmation and a refund in overlapping READ COMMITTED transactions miss each other |
| `Subscriptions!CacheRepairsItself` (a PROPERTY) | ADR 0034:25: the order of arrival decides between two events of one second, "et la réconciliation répare" | only when somebody runs it: `docs/agents/etat-des-lieux.md:326` (BIL-8) says itself "aucun job de réconciliation". Such a tie, or a lost webhook, stays until then. `CacheRepaired` has the command run as its premise |
| `DataExports!NoLinkToNothing` (run `exports`) | `data-export-use-cases.ts:77-79`: a request that is over is not built again, "et l'email ne repart pas" | an emission reported refused but queued: the job is collecting when the request is closed as failed; `markReady` writes nothing, which is not looked at, and the link to an archive that was never kept is mailed |
| `Administration!UnbanOnlyRefuses` (a PROPERTY; run `admin`) | `drizzle-platform-role-repository.ts:123-125`: the lifting of a ban takes no lock since a count read too low "refuse un geste", "le sens fermé" | when every superadmin is read as refused, removing one of them takes nobody away and is allowed: the ban of that one, lifted before the write, makes it the removal of the only superadmin able to sign in |
| `GuestCheckout!LinkAfterPromotion` | `billing-use-cases.ts:1115`: the link leaves "seulement si la promotion a eu lieu" | it leaves when a promotion was asked for: the address may have a row already |

Others follow from the code without an interleaving, and no formula is spent on them: a holder
whose purge is refused is asked by email to act, with an account that is closed
(`account-deletion-blocked.ts:44`); a scheduler that times out on an event it accepted makes
`requestAccountDeletion` answer that nothing will be erased (`auth-use-cases.ts:1114`);
two builds of one export mail twice, although
`data-export-use-cases.ts:77-79` counts on one.

## 4. Proofs

All proofs are checked by TLAPS for every value of the constants that satisfies the
assumptions of the module (`OrganizationsAssumption`, `JobDispatchAssumption`,
`AccountDeletionAssumption`, `PurchasesAssumption`, `SubscriptionsAssumption`, `GuestAssumption`, `ExportAssumption`,
`AvatarAssumption`, `AdministrationAssumption`), which TLC evaluates on every run.  Two theorems
have a hypothesis of their own, on constants: `StartsWithinLimit` for `LimitKept` and
`OldestUnlisted` for `ReconcileTwice`, explained below.

* `OrganizationsProofs!TypeCorrect`: `Spec => []TypeOK`, one step per action.
* `OrganizationsProofs!OwnerAlwaysKept`: `Spec => []OwnerKept`.  `OwnerKept` is not inductive:
  the COMMIT of a removal deletes a row that was found removable some steps before, and the
  DELETE of a purge relies on a count taken before.  The strengthening `IInv` says what the
  advisory lock is worth in between: a removal under way holds the lock and leaves an owner
  (`RemovalSafe`); what an account being purged owns is what it listed, unless it is in
  `raced` (`OwnershipListed`); a purge that has counted holds the lock of all it listed, and
  each has another owner (`PurgeSafe`); nothing refers to an organization that was not founded
  (`UnbornUnused`) and a request names the rows it will write (`Addressed`).
* `OrganizationsProofs!AdminsAreSafe`: `Spec => AdminRemovesOnlyMembers`.  The access was read
  before the lock, so `RemovalAllowed` says what the lock adds: from the moment a removal holds
  it until its COMMIT, the target of somebody who does not own the organization stays a plain
  member, role changes taking the same lock and an acceptance never raising a member.
* `OrganizationsProofs!AdmissionsAreAtomic`: `Spec => AdmissionIsAtomic`.  An acceptance reaches
  its COMMIT long after it claimed its invitation; `Admitting` says that the claim, a row lock,
  keeps the invitation pending, for the same account and the same organization.
* `OrganizationsProofs!SeatsStayExact`: `Spec => []SeatsExact`, and `LimitKept`:
  `StartsWithinLimit /\ Spec => []LimitHeld`.  A change of the members is counted by one step,
  written at the provider by another and committed by a third.  `Apart` says what "no overlap"
  is worth: the change, or the reconciliation, is alone with the members it counted, so that its
  count is the number of members its commit leaves.  A change made under a local row that grants
  nothing is in the drift before it commits (`unwritten`, and `unchecked` if it adds a member).
  `Exact` then says that without drift the
  provider bills the members, or those that the one change about to commit leaves; `Within` that
  neither the members nor an acceptance about to commit pass the limit; `Subscribed` that a live
  subscription is that of a live organization nobody is about to erase.  The code asks the limit
  of additions only (`billing-use-cases.ts:1345`), so an organization that subscribed beyond it
  stays beyond it: `StartsWithinLimit` is the hypothesis that none did.  A subscription belongs
  to an organization that exists, which `OrganizationsAssumption` says of `Billed`.
* `AccountDeletionProofs!DispatchTypes`: `DispatchSpec => []DispatchTypeOK`.
* `AccountDeletionProofs!DispatchKeepsItsPromise`: `DispatchSpec => Promise!Spec`.  The invariant
  relates the row of a key, the statements in flight and the dispatches: who executes owns the
  row (`Holding`, `RowOwned`), an INSERT or a DELETE in flight belongs to a dispatch in a state
  that sent it (`Inserting`, `Deleting`, `Waiting`), a remembered success keeps its row
  (`Winning`), attempts are counted (`Counting`).  Each step of `JobDispatch` is then a step
  of `JobRuns` or leaves its variables alone.
* `AccountDeletionProofs!PurgeUsesLedger`: `Spec => Ledger!Spec` for `AccountDeletion`.  Every
  step of the purge starts, ends or ignores a run as `JobRuns` allows: what the purge asks of
  the ledger is what the dispatcher was proved to give.
* `AccountDeletionProofs`: types, `FarewellOnce`, `RefusedKeepsFiles`.  From `JobRuns` the proof
  takes that a purge past its start is in the ledger, alone for its account and not after a
  success the ledger remembers (`Ledgered`).  The ledger may forget a success and a delivery run
  again, so the farewell rests on the account: a purge past its decision has one to erase, and
  the one that erased it is the one that bids farewell (`Parting`); who is leaving owns nothing, unless made owner again (`Departing`); and a purge
  past its decision has cleared the refusal of the attempt before (`Cleared`), which is why
  emptying the storage never meets a refusal that still stands.
* `PurchasesProofs`: types and every property of the run.  The row is right only together with
  what is on its way.  `Told` says what an event may claim, and that a payment is dated no later
  than its refund; `Exclusive` that one transaction holds the row and one serves an event;
  `Chosen` that a refund which matched is that of the payment the row carries; `Attaching` that a
  session paid has its URL and its place in the index before; `Backed` that what grants was
  collected and what is revoked was refunded, in the row, the refund journal, the listing of a
  pass and the write it has prepared.  `Revoking` and `Granting` then follow a refund and a
  payment from their event to their transaction to the row.  `AccessKept` is an action property:
  each writer of the row is shown unable to take away access that was bought once.
  `ReconcileTwice` and `ReconciliationRepairs` are about a whole pass, a recursion over the
  sessions: `LeastNumber` (a set of numbers has a least one, from the well-foundedness of `<`)
  gives induction over the set of session numbers (`Counting`), that the recursion has a solution
  (`PassExists`) and that a pass applies the latest session that decides (`PassOutcome`).
  `ReconcileTwice` needs `OldestUnlisted`, and the attempt without it found the behaviour listed
  with the disagreements above.
* `SubscriptionsProofs`: types, `CacheMatches`, `CancellationHolds`.  Events are numbered by
  emission (`Numbered`), none is younger than the truth and the last change has one (`Dated`).
  The core is `Agrees`: once the event of the last change is journalled, the row has its status
  and a stamp no older, so that `AppliesAfter` refuses whatever comes late.  The two remaining
  parts cover the customer deleted between lookup and insert (`Attached`) and what a
  reconciliation carries from its read to its write (`Listed`).
* `GuestCheckoutProofs`: types, `PaidIsAttached`, `LinkOnce` and `PromotionHolds`.  The
  invariant says what a delivery knows (`Serving`: it serves a payment whose checkout has a row,
  for the address of that payment; `Resolved`: a delivery without an account has a reason), and
  who may still send a link (`Linking`: one delivery per event, none before the journal).
* `DataExportsProofs`: types, `OnePending`, `LinkLives`, `LinkAfterOutcome`, `OutcomeHolds`.
  `LinkAfterOutcome` says that a mailed request has an outcome and that a kept archive is that of
  a ready one; it does not say that a mailed request is ready, which is false (above).  A
  claim under way holds the lock of its scope (`Claiming`), so that what it read still holds at
  its insert (`Alone`); an execution builds what was claimed, and is past an outcome once it
  mails (`Building`).
* `AvatarsProofs`: types, `ServedIsChecked`, `NoOrphan`, `AvatarHasObject`.  The holder of the lock knows the key it
  replaces (`Replacing`), so each served object is the row's, in the charge of a request that
  will name or delete it, or was dropped (`Owned`); the bytes in hand are the ones checked.
  A confirmation past its write has its object served, and nobody but a request that raced it
  is about to delete the object the row names (`Backed`).
* `AdministrationProofs`: types, `AccessFollowsState`, `LastSuperadminKept`.  The lock is held
  by the one gesture between its read and its commit (`Exclusive`), hence what it read of the
  superadmins holds when it writes, up to bans lifted and deletions requested since
  (`HasRead`); the place of a gesture gives its kind (`Shaped`).  `LastSuperadminKept` then
  follows by counting the superadmins that were not refused, the two outdated readings it names
  (`OutrunByLeaving`, `OutrunByUnban`) excepted.

Model-checked only: liveness (`RequestsEnd`, `DispatchEnds`, `DeletionSettles`,
`CacheRepaired`, `PaymentsTaken`, `ArchivesForgotten`, `GesturesEnd`, `BorrowsEnd`, and the
`RequestsEnd` of `DataExports`), since fairness and ENABLED are beyond the prover.  Every
invariant, action property and refinement that a run checks is also a theorem.

## 5. What is abstracted, and assumptions

* Organizations: the two reads of `soleOwnershipsOf` are one; the active selection, names,
  slugs and the invitation quota are left out; the purge of an organization in the other
  modules is not shown; a row read by a `*Begin` is not read again, as in the code.  An
  organization has one subscription at most, on an offer by the seat with a limit; of its local
  row only whether it grants access is kept (`Subscriptions` has the row itself), and
  `updateSubscriptionQuantity` fails or applies, its retries being invisible.
* JobDispatch: the retention of seven days outlasts a dispatch and its statements (`Aged`).
  The synchronous mode without a ledger and the in-memory ledger are not modelled.
* AccountDeletion: what a module does inside is one step (`Organizations` has the
  interleavings inside its purge); what a late statement leaves in the ledger is there from the
  step that gave up on it (`JobDispatch` has it arrive at any time); the age of a reservation is
  not counted before it is swept; roles are three values; the sign-in that a library performs
  is left out, a stale session is reached through a crash of the request.
* Purchases: the offer check and `createCheckout` are one step, and so are the two reads of a
  reconciliation (row and refund journal); amounts are "in part" or "in full"; the provider answers a remembered key with its
  session (when it refuses because parameters differ, the opening fails).  A second UPDATE of
  a confirmation is placed at its COMMIT; the case where it ran before another transaction
  committed ends in the same state as the skew shown.  `RefundRevokes` speaks of rows last
  written by a webhook, `ReconcileRepairs` of what a reconciliation leaves.
* Subscriptions: a status stands for the row (quantity, period, price follow the same path);
  the term of a trial or of a period, which ends access by itself, is not time of the model;
  one customer, whose row is deleted once at most.
* GuestCheckout: the purchase or subscription that the same event carries is in the other two
  modules; an address without a usable form promotes nothing and is left out
  (`billing-use-cases.ts:806-810`); an account deleted between `Identify` and `ApplyEvent` is not
  shown.
* DataExports: the download reads and writes nothing; the export of the modules is one step;
  the role a person needs for an organization's export is read in the step that follows the
  request.  A link that is mailed twice is the same link.
* Avatars: content is "image" or not; one owner, as owners share no key and no row.  The lock
  is a hash in the code, whose collisions only make requests wait.
* Administration: ordinary sessions are extended by the library and never seen to expire; a
  cookie is the identifier of its session; a sign-in stands for every way in.  The two readings
  of a count of the superadmins are one step, which decides only whether the configured account
  is designated.  The purge that erases an account, and its role row with it, is not shown: the
  account counts as closed from its deletion request on, though the purge is emitted just before
  the mark and may come first.  The journal and
  the mails of the back office are left out, as is the anonymisation of who promoted whom.
* Not modelled: the rate limiter (next in the plan); passwords, passkeys, second factors and
  social sign-in, which Better Auth implements; `notifications`, `marketing`, `onboarding`, with
  one row per gesture; content modules, adapters other than Stripe and Inngest, screens,
  configuration, tooling and test doubles, which share no state between steps.  Most lines of
  the repository are of those kinds, and the notes in `PROJECT.json` say which.

## 6. Plan

Done: the modules of section 2 and the proofs of section 4.  Next, in this order:

1. `RateLimiter`: several instances and clocks, a store that times out.  Abstract
   specification: no more than the maximum is granted per window.
2. `GuestCheckout` and `Purchases` composed: what the promoted customer had paid for.
3. The customer portal and the checkout throttle of billing.
