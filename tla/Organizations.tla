---------------------------- MODULE Organizations ----------------------------
(***************************************************************************)
(* Membership, roles, invitations and billed seats of the organizations    *)
(* module (packages/modules/organizations), with the part of the billing   *)
(* module that writes the seat quantity (syncSeats, alignSeats).  That     *)
(* part decides on the local copy of the subscription, which may lag       *)
(* behind the provider's: both are variables here.                         *)
(*                                                                         *)
(* Every account runs at most one request at a time; a request is cut at   *)
(* each point where another connection can commit: after the access has    *)
(* been read, while waiting for pg_advisory_xact_lock, during the call to  *)
(* the payment provider, and before the COMMIT.  PostgreSQL runs READ      *)
(* COMMITTED: a statement sees the committed rows and the rows its own     *)
(* transaction wrote, so `role` holds committed memberships only.          *)
(***************************************************************************)
EXTENDS Integers, FiniteSets

CONSTANTS
    Users,        \* accounts
    Orgs,         \* organizations; identifiers are ordered, as the sorted lock order needs
    Invs,         \* invitation rows that can be written
    InitialRole,  \* memberships at the start: [Orgs -> [Users -> Roles \cup {None}]]
    Billed,       \* organizations with a live per-seat subscription at the start
    SeatLimit,    \* the offer's seatLimit
    Ops           \* bound: the operations this instance exercises

None == "none"
Roles == {"owner", "admin", "member"}
NoOrg == 0
NoInv == "noinv"

OpNames == {"create", "invite", "reissue", "revoke", "accept", "remove", "role",
            "delete", "purge", "reconcile", "expire", "forget", "crash", "failwrite"}

ASSUME OrganizationsAssumption ==
    /\ None \notin Users
    /\ IsFiniteSet(Users)
    /\ Orgs \subseteq Nat \ {NoOrg}
    /\ NoInv \notin Invs
    /\ InitialRole \in [Orgs -> [Users -> Roles \cup {None}]]
    /\ \A o \in Orgs :
          (\E u \in Users : InitialRole[o][u] # None)
             => \E u \in Users : InitialRole[o][u] = "owner"
    /\ Billed \subseteq {o \in Orgs : \E u \in Users : InitialRole[o][u] # None}
    /\ SeatLimit \in Nat
    /\ Ops \subseteq OpNames

VARIABLES
    role,      \* committed organization_member rows: [Orgs -> [Users -> Roles \cup {None}]]
    life,      \* organization rows: "unborn", "live" or "deleted"
    inv,       \* organization_invitation rows
    lock,      \* holder of the advisory lock of each organization
    pc,        \* where each account's current request stands
    req,       \* what that request has read so far
    gone,      \* accounts whose memberships and invitations were purged
    sub,       \* subscription of each organization at the provider; "live" until it is
               \* cancelled, paused or unpaid or on trial past its term included
    cached,    \* whether the local row of that subscription grants access
    quantity,  \* quantity billed by the provider
    keys,      \* quantities whose idempotency key the provider still remembers
    rec,       \* reconciliation: member count read and not yet written, 0 when none
    raced,     \* history: organizations an account came to own while it was being purged
    drift      \* history: why quantity may differ from the number of members

vars == <<role, life, inv, lock, pc, req, gone, sub, cached, quantity, keys, rec, raced, drift>>
membership == <<role, life, raced>>
provider == <<sub, cached, quantity, keys>>

InTransaction == {"accept_sync", "accept_commit", "remove_sync", "remove_commit"}
Pcs == InTransaction \cup
       {"idle", "invite", "reissue", "revoke", "remove", "role", "delete",
        "delete_cancelled", "purge_lock", "purge_counted", "purge_mail"}

NoReq == [org |-> NoOrg, target |-> None, acc |-> None, next |-> None,
          inv |-> NoInv, issued |-> NoInv, seats |-> 0, owned |-> {}]

Requests == [org : Orgs \cup {NoOrg}, target : Users \cup {None}, acc : Roles \cup {None},
             next : Roles \cup {None}, inv : Invs \cup {NoInv}, issued : Invs \cup {NoInv},
             seats : Nat, owned : SUBSET Orgs]

NoInvitation == [status |-> "unused", org |-> NoOrg, to |-> None, age |-> "fresh"]

Invitations == [status : {"unused", "pending", "accepted", "revoked", "erased"},
                org : Orgs \cup {NoOrg}, to : Users \cup {None}, age : {"fresh", "expired"}]

DriftReasons == {"overlap", "replay", "lost", "purge", "unwritten", "unchecked"}

(***************************************************************************)
(* Reads.                                                                  *)
(***************************************************************************)

Members(o) == {u \in Users : role[o][u] # None}
Owners(o) == {u \in Users : role[o][u] = "owner"}
OwnedBy(u) == {o \in Orgs : role[o][u] = "owner"}

\* The matrix of domain/permissions.ts, reduced to the actions modelled here.
Allows(r, action) ==
    \/ r = "owner"
    \/ r = "admin" /\ action \in {"invite", "resend", "revoke", "removeMember"}

\* soleOwnershipsOf: what an account owns and nobody else does.
SoleOwnerships(u) == {o \in OwnedBy(u) : Owners(o) = {u}}

\* Mutant of UnremovableRoles: an admin may remove another admin.
UnremovableOwners(acc, self) == IF ~self /\ acc = "admin" THEN {"owner"} ELSE {}

\* unremovableRolesFor, as it enters the predicate of the DELETE.
UnremovableRoles(acc, self) == IF ~self /\ acc = "admin" THEN {"owner", "admin"} ELSE {}

\* "role <> owner OR (select count(*) ... owners) > 1": the last-owner predicate.
NotLastOwner(o, t) == role[o][t] # "owner" \/ Owners(o) \ {t} # {}

\* t is being purged and did not own o when the purge listed what to lock.
LeavingUnlocked(t, o) ==
    pc[t] \in {"purge_lock", "purge_counted"} /\ o \notin req[t].owned

Idle(u) == pc[u] = "idle" /\ u \notin gone

\* Mutant of Free: the removals and role changes of before the advisory lock.
FreeWithoutLock(o) == TRUE

\* pg_advisory_xact_lock(hashtext(organizationId)) can be granted.
Free(o) == lock[o] = None

InFlight(o) == {u \in Users : pc[u] \in InTransaction /\ req[u].org = o}
SeatsQuiet(o) == InFlight(o) = {} /\ rec[o] = 0
BusyInvitation(i) ==
    \E u \in Users : pc[u] \in {"accept_sync", "accept_commit"} /\ req[u].inv = i
BusyRow(o, t) ==
    \E u \in Users : /\ pc[u] \in {"remove_sync", "remove_commit"}
                     /\ req[u].org = o /\ req[u].target = t

Begin(u, p, r) == /\ pc' = [pc EXCEPT ![u] = p]
                  /\ req' = [req EXCEPT ![u] = r]
Finish(u) == Begin(u, "idle", NoReq)
Release(u) == lock' = [o \in Orgs |-> IF lock[o] = u THEN None ELSE lock[o]]

\* History: a seat count is taken while another one of the same organization has not
\* yet been both written and committed.
NoteOverlap(o) ==
    drift' = IF SeatsQuiet(o) THEN drift
             ELSE [drift EXCEPT ![o] = @ \cup {"overlap"}]

Init ==
    /\ role = InitialRole
    /\ life = [o \in Orgs |-> IF \E u \in Users : InitialRole[o][u] # None
                              THEN "live" ELSE "unborn"]
    /\ inv = [i \in Invs |-> NoInvitation]
    /\ lock = [o \in Orgs |-> None]
    /\ pc = [u \in Users |-> "idle"]
    /\ req = [u \in Users |-> NoReq]
    /\ gone = {}
    /\ sub = [o \in Orgs |-> IF o \in Billed THEN "live" ELSE "none"]
    /\ cached \in {f \in [Orgs -> BOOLEAN] : \A o \in Orgs : f[o] => o \in Billed}
    /\ quantity = [o \in Orgs |-> IF o \in Billed
                        THEN Cardinality({u \in Users : InitialRole[o][u] # None}) ELSE 0]
    /\ keys = [o \in Orgs |-> {}]
    /\ rec = [o \in Orgs |-> 0]
    /\ raced = {}
    /\ drift = [o \in Orgs |-> {}]

(***************************************************************************)
(* Organizations and invitations.                                          *)
(***************************************************************************)

\* createOrganization: the organization row and its founder, in one transaction.  The
\* purge of an account is a job: its holder may found an organization meanwhile.
CreateOrganization(u, o) ==
    /\ "create" \in Ops
    /\ life[o] = "unborn"
    /\ life' = [life EXCEPT ![o] = "live"]
    /\ role' = [role EXCEPT ![o][u] = "owner"]
    /\ raced' = IF LeavingUnlocked(u, o) THEN raced \cup {o} ELSE raced
    /\ UNCHANGED <<inv, lock, pc, req, gone, provider, rec, drift>>

\* inviteMember up to its write: access, permission, then "already a member".
InviteBegin(u, o, t) ==
    /\ "invite" \in Ops /\ Idle(u)
    /\ Allows(role[o][u], "invite")
    /\ t \notin Members(o)
    /\ Begin(u, "invite", [NoReq EXCEPT !.org = o, !.target = t])
    /\ UNCHANGED <<membership, inv, lock, gone, provider, rec, drift>>

\* createInvitation: the partial unique index refuses a second pending row for the
\* same address, expired or not.  A mail that fails leaves the row written.
InviteWrite(u, i) ==
    LET o == req[u].org  t == req[u].target IN
    /\ pc[u] = "invite"
    /\ inv[i].status = "unused"
    /\ IF life[o] = "live"
          /\ ~ \E j \in Invs : inv[j].status = "pending" /\ inv[j].org = o /\ inv[j].to = t
       THEN inv' = [inv EXCEPT ![i] = [status |-> "pending", org |-> o, to |-> t,
                                       age |-> "fresh"]]
       ELSE UNCHANGED inv
    /\ Finish(u)
    /\ UNCHANGED <<membership, lock, gone, provider, rec, drift>>

\* resendInvitation up to its transaction.
ReissueBegin(u, i, j) ==
    /\ "reissue" \in Ops /\ Idle(u) /\ i # j
    /\ inv[i].status = "pending" /\ inv[j].status = "unused"
    /\ Allows(role[inv[i].org][u], "resend")
    /\ Begin(u, "reissue", [NoReq EXCEPT !.org = inv[i].org, !.inv = i, !.issued = j])
    /\ UNCHANGED <<membership, inv, lock, gone, provider, rec, drift>>

\* reissueInvitation: the previous row dies and its successor is born together.
\* The row lock of an acceptance in progress is waited for.
ReissueWrite(u) ==
    LET i == req[u].inv  j == req[u].issued IN
    /\ pc[u] = "reissue"
    /\ ~ BusyInvitation(i)
    /\ IF inv[i].status = "pending" /\ inv[j].status = "unused"
       THEN inv' = [inv EXCEPT ![i].status = "revoked",
                               ![j] = [inv[i] EXCEPT !.age = "fresh"]]
       ELSE UNCHANGED inv
    /\ Finish(u)
    /\ UNCHANGED <<membership, lock, gone, provider, rec, drift>>

RevokeBegin(u, i) ==
    /\ "revoke" \in Ops /\ Idle(u)
    /\ inv[i].status = "pending"
    /\ Allows(role[inv[i].org][u], "revoke")
    /\ Begin(u, "revoke", [NoReq EXCEPT !.org = inv[i].org, !.inv = i])
    /\ UNCHANGED <<membership, inv, lock, gone, provider, rec, drift>>

\* revokeInvitation: an update whose predicate finds nothing once the row was
\* accepted, superseded or revoked.
RevokeWrite(u) ==
    LET i == req[u].inv IN
    /\ pc[u] = "revoke"
    /\ ~ BusyInvitation(i)
    /\ inv' = IF inv[i].status = "pending"
              THEN [inv EXCEPT ![i].status = "revoked"] ELSE inv
    /\ Finish(u)
    /\ UNCHANGED <<membership, lock, gone, provider, rec, drift>>

\* Seven days pass over a pending invitation.
Expire(i) ==
    /\ "expire" \in Ops
    /\ inv[i].status = "pending" /\ inv[i].age = "fresh"
    /\ inv' = [inv EXCEPT ![i].age = "expired"]
    /\ UNCHANGED <<membership, lock, pc, req, gone, provider, rec, drift>>

(***************************************************************************)
(* The seat quantity.  The provider keeps the answer to an idempotency key *)
(* for a day; the key holds the scope, the subscription and the TARGET     *)
(* quantity, so a second write of a quantity already written during that   *)
(* day is answered from memory and changes nothing.                        *)
(***************************************************************************)

ProviderWrites(o, q) ==
    /\ quantity' = [quantity EXCEPT ![o] = IF q \in keys[o] THEN @ ELSE q]
    /\ keys' = [keys EXCEPT ![o] = @ \cup {q}]

ReplayOf(o, q) == IF q \in keys[o] /\ quantity[o] # q THEN {"replay"} ELSE {}

\* Mutant of OverLimit: the limit counts the members before the addition.
OverLimitBefore(adds, seats) == adds /\ seats - 1 > SeatLimit

\* exceedsSeatLimit, asked of additions only, on the head count after the write.
OverLimit(adds, seats) == adds /\ seats > SeatLimit

\* History: a change goes on to its commit while the provider is told nothing, and the
\* limit was not asked of an addition, though the provider's subscription lives.
Unsynced(o, adds) ==
    IF sub[o] = "live" THEN {"unwritten"} \cup (IF adds THEN {"unchecked"} ELSE {}) ELSE {}

\* syncSeats, called inside the membership transaction and before its COMMIT.  A local
\* row that grants nothing is not_applicable: the change goes on, no limit asked and no
\* seat written.  A refusal (limit, provider failure) raises, which rolls the transaction
\* back.  "failwrite": the provider applied the write and the caller never heard of it.
SyncSeats(u, adds, next) ==
    LET o == req[u].org  q == req[u].seats IN
    \/ /\ ~ cached[o]
       /\ drift' = [drift EXCEPT ![o] = @ \cup Unsynced(o, adds)]
       /\ pc' = [pc EXCEPT ![u] = next]
       /\ UNCHANGED <<req, lock, provider>>
    \/ /\ cached[o]
       /\ sub[o] # "live" \/ OverLimit(adds, q) \/ "failwrite" \in Ops
       /\ Finish(u) /\ Release(u)
       /\ UNCHANGED <<provider, drift>>
    \/ /\ cached[o] /\ sub[o] = "live" /\ ~ OverLimit(adds, q)
       /\ ProviderWrites(o, q)
       /\ drift' = [drift EXCEPT ![o] = @ \cup ReplayOf(o, q)]
       /\ pc' = [pc EXCEPT ![u] = next]
       /\ UNCHANGED <<req, lock, sub, cached>>
    \/ /\ cached[o] /\ sub[o] = "live" /\ ~ OverLimit(adds, q) /\ "failwrite" \in Ops
       /\ ProviderWrites(o, q)
       /\ drift' = [drift EXCEPT ![o] = @ \cup {"lost"}]
       /\ Finish(u) /\ Release(u)
       /\ UNCHANGED <<sub, cached>>

\* A day passes: the provider forgets its idempotency keys.
ForgetKeys(o) ==
    /\ "forget" \in Ops
    /\ keys[o] # {}
    /\ keys' = [keys EXCEPT ![o] = {}]
    /\ UNCHANGED <<membership, inv, lock, pc, req, gone, sub, cached, quantity, rec, drift>>

\* The subscription is cancelled elsewhere: by its customer, or for want of payment.
ProviderCancels(o) ==
    /\ sub[o] = "live"
    /\ sub' = [sub EXCEPT ![o] = "cancelled"]
    /\ UNCHANGED <<membership, inv, lock, pc, req, gone, cached, quantity, keys, rec, drift>>

\* The local row changes at any distance from the provider's: an event or a reconciliation
\* writes what the provider has, which may grant nothing though it lives, or the term kept
\* in the row passes (grantsAccess).
CacheMoves(o) ==
    /\ life[o] = "live" /\ sub[o] # "none"
    /\ cached' \in {[cached EXCEPT ![o] = g] : g \in {FALSE, sub[o] = "live"} \ {cached[o]}}
    /\ UNCHANGED <<membership, inv, lock, pc, req, gone, sub, quantity, keys, rec, drift>>

(***************************************************************************)
(* Joining and leaving.                                                    *)
(***************************************************************************)

\* Mutant of AcceptBegin: the invitation is consumed by a commit of its own.
AcceptBeginAutocommit(u, i) ==
    LET o == inv[i].org IN
    /\ "accept" \in Ops /\ Idle(u)
    /\ inv[i].status = "pending" /\ inv[i].age = "fresh" /\ inv[i].to = u
    /\ inv' = [inv EXCEPT ![i].status = "accepted"]
    /\ Begin(u, "accept_sync", [NoReq EXCEPT !.org = o, !.inv = i,
                                    !.seats = Cardinality(Members(o) \cup {u})])
    /\ NoteOverlap(o)
    /\ UNCHANGED <<membership, lock, gone, provider, rec>>

\* consumeInvitation: the conditional UPDATE and the INSERT, uncommitted, then the
\* count the transaction sees.  No advisory lock is taken here.
AcceptBegin(u, i) ==
    LET o == inv[i].org IN
    /\ "accept" \in Ops /\ Idle(u)
    /\ inv[i].status = "pending" /\ inv[i].age = "fresh" /\ inv[i].to = u
    /\ ~ BusyRow(o, u)
    /\ Begin(u, "accept_sync", [NoReq EXCEPT !.org = o, !.inv = i,
                                    !.seats = Cardinality(Members(o) \cup {u})])
    /\ NoteOverlap(o)
    /\ UNCHANGED <<membership, inv, lock, gone, provider, rec>>

AcceptSync(u) ==
    /\ pc[u] = "accept_sync"
    /\ SyncSeats(u, TRUE, "accept_commit")
    /\ UNCHANGED <<membership, inv, gone, rec>>

\* onConflictDoNothing: an account that is already a member keeps its role.
AcceptCommit(u) ==
    LET o == req[u].org IN
    /\ pc[u] = "accept_commit"
    /\ inv' = [inv EXCEPT ![req[u].inv].status = "accepted"]
    /\ role' = [role EXCEPT ![o][u] = IF @ = None THEN "member" ELSE @]
    /\ Finish(u)
    /\ UNCHANGED <<life, raced, lock, gone, provider, rec, drift>>

\* removeMember up to its transaction: the caller's access, then the permission.
RemoveBegin(u, o, t) ==
    /\ "remove" \in Ops /\ Idle(u)
    /\ role[o][u] # None
    /\ u = t \/ Allows(role[o][u], "removeMember")
    /\ Begin(u, "remove", [NoReq EXCEPT !.org = o, !.target = t, !.acc = role[o][u]])
    /\ UNCHANGED <<membership, inv, lock, gone, provider, rec, drift>>

\* Under the advisory lock: the DELETE whose predicate refuses, and the count.
Removable(u) ==
    LET o == req[u].org  t == req[u].target IN
    /\ role[o][t] # None
    /\ NotLastOwner(o, t)
    /\ role[o][t] \notin UnremovableRoles(req[u].acc, t = u)

\* Mutant of SeatsWithout: the seats are counted before the DELETE.
SeatsBeforeDelete(o, t) == Cardinality(Members(o))

\* seatsInTransaction after the DELETE of t's row.
SeatsWithout(o, t) == Cardinality(Members(o) \ {t})

RemoveLock(u) ==
    LET o == req[u].org IN
    /\ pc[u] = "remove" /\ Free(o)
    /\ \/ /\ Removable(u)
          /\ lock' = [lock EXCEPT ![o] = u]
          /\ Begin(u, "remove_sync",
                   [req[u] EXCEPT !.seats = SeatsWithout(o, req[u].target)])
          /\ NoteOverlap(o)
       \/ /\ ~ Removable(u)
          /\ Finish(u)
          /\ UNCHANGED <<lock, drift>>
    /\ UNCHANGED <<membership, inv, gone, provider, rec>>

RemoveSync(u) ==
    /\ pc[u] = "remove_sync"
    /\ SyncSeats(u, FALSE, "remove_commit")
    /\ UNCHANGED <<membership, inv, gone, rec>>

RemoveCommit(u) ==
    /\ pc[u] = "remove_commit"
    /\ role' = [role EXCEPT ![req[u].org][req[u].target] = None]
    /\ Finish(u) /\ Release(u)
    /\ UNCHANGED <<life, raced, inv, gone, provider, rec, drift>>

(***************************************************************************)
(* Roles.  Naming somebody else owner IS the transfer of ownership.        *)
(***************************************************************************)

\* setMemberRole up to its transaction: the role of the caller is read here.
RoleBegin(u, o, t, r) ==
    /\ "role" \in Ops /\ Idle(u)
    /\ Allows(role[o][u], "setRole")
    /\ Begin(u, "role", [NoReq EXCEPT !.org = o, !.target = t, !.next = r,
                                      !.acc = role[o][u]])
    /\ UNCHANGED <<membership, inv, lock, gone, provider, rec, drift>>

IsTransfer(u) == req[u].next = "owner" /\ req[u].target # u

\* Mutant of Transferred: the column is an unconstrained text, any name fits.
TransferredToUnknownRole(o, u, t) ==
    [role EXCEPT ![o] = [v \in Users |->
        IF v = t THEN "owner"
        ELSE IF v = u /\ role[o][u] # None THEN "manager" ELSE role[o][v]]]

\* The transfer promotes the target, then demotes the caller to admin, whatever the
\* caller's role has become since it was read.
Transferred(o, u, t) ==
    [role EXCEPT ![o] = [v \in Users |->
        IF v = t THEN "owner"
        ELSE IF v = u /\ role[o][u] # None THEN "admin" ELSE role[o][v]]]

RoleApply(u) ==
    LET o == req[u].org  t == req[u].target IN
    /\ pc[u] = "role" /\ Free(o)
    /\ \/ /\ IsTransfer(u) /\ role[o][t] # None
          /\ role' = Transferred(o, u, t)
          /\ raced' = IF LeavingUnlocked(t, o) THEN raced \cup {o} ELSE raced
       \/ /\ ~ IsTransfer(u) /\ role[o][t] # None /\ NotLastOwner(o, t)
          /\ role' = [role EXCEPT ![o][t] = req[u].next]
          /\ UNCHANGED raced
       \/ /\ role[o][t] = None \/ (~ IsTransfer(u) /\ ~ NotLastOwner(o, t))
          /\ UNCHANGED <<role, raced>>
    /\ Finish(u)
    /\ UNCHANGED <<life, inv, lock, gone, provider, rec, drift>>

(***************************************************************************)
(* Deleting an organization: cancel at the provider, then purge.           *)
(***************************************************************************)

DeleteBegin(u, o) ==
    /\ "delete" \in Ops /\ Idle(u)
    /\ Allows(role[o][u], "delete")
    /\ Begin(u, "delete", [NoReq EXCEPT !.org = o])
    /\ UNCHANGED <<membership, inv, lock, gone, provider, rec, drift>>

\* cancelSubscriptions keeps what the local rows say grants access, and cancels nothing
\* when there is none.  A failure interrupts the deletion, applied by the provider or not,
\* and nothing is erased; what is cancelled already is replayed, or answered not_found.
DeleteCancel(u) ==
    LET o == req[u].org
        Cancelled == [sub EXCEPT ![o] = IF @ = "live" THEN "cancelled" ELSE @] IN
    /\ pc[u] = "delete"
    /\ \/ /\ sub' = IF cached[o] THEN Cancelled ELSE sub
          /\ pc' = [pc EXCEPT ![u] = "delete_cancelled"]
          /\ UNCHANGED req
       \/ /\ cached[o]
          /\ sub[o] = "cancelled" \/ "failwrite" \in Ops
          /\ sub' \in {sub, Cancelled}
          /\ Finish(u)
    /\ UNCHANGED <<membership, inv, lock, gone, cached, quantity, keys, rec, drift>>

\* The DELETE of the organization row waits for the transactions that hold a row of
\* it, then cascades to memberships and invitations.  The billing rows of the scope go
\* in the same purge of the modules.
DeletePurge(u) ==
    LET o == req[u].org IN
    /\ pc[u] = "delete_cancelled"
    /\ InFlight(o) = {}
    /\ life' = [life EXCEPT ![o] = "deleted"]
    /\ role' = [role EXCEPT ![o] = [v \in Users |-> None]]
    /\ inv' = [i \in Invs |-> IF inv[i].org = o THEN [inv[i] EXCEPT !.status = "erased"]
                              ELSE inv[i]]
    /\ cached' = [cached EXCEPT ![o] = FALSE]
    /\ Finish(u)
    /\ UNCHANGED <<raced, lock, gone, sub, quantity, keys, rec, drift>>

(***************************************************************************)
(* Purging an account (deleteMembershipsOf): list what it owns, lock each  *)
(* in the sorted order, count again under the locks, then leave.           *)
(***************************************************************************)

PurgeBegin(u) ==
    /\ "purge" \in Ops /\ Idle(u)
    /\ Begin(u, "purge_lock", [NoReq EXCEPT !.owned = OwnedBy(u)])
    /\ UNCHANGED <<membership, inv, lock, gone, provider, rec, drift>>

StillToLock(u) == {o \in req[u].owned : lock[o] # u}

\* Mutant of NextToLock: the owned organizations are not sorted.
AnyToLock(u) == StillToLock(u)

NextToLock(u) == {o \in StillToLock(u) : \A p \in StillToLock(u) : o <= p}

PurgeLock(u, o) ==
    /\ pc[u] = "purge_lock" /\ o \in NextToLock(u)
    /\ Free(o)
    /\ lock' = [lock EXCEPT ![o] = u]
    /\ UNCHANGED <<membership, inv, pc, req, gone, provider, rec, drift>>

\* The recount: a sole ownership refuses the whole purge.
PurgeCount(u) ==
    /\ pc[u] = "purge_lock" /\ StillToLock(u) = {}
    /\ \/ /\ SoleOwnerships(u) = {}
          /\ pc' = [pc EXCEPT ![u] = "purge_counted"]
          /\ UNCHANGED <<req, lock>>
       \/ /\ SoleOwnerships(u) # {}
          /\ Finish(u) /\ Release(u)
    /\ UNCHANGED <<membership, inv, gone, provider, rec, drift>>

\* All the memberships of the account, in organizations locked or not; the seats are
\* not written to the provider.
PurgeDelete(u) ==
    /\ pc[u] = "purge_counted"
    /\ \A o \in Orgs : ~ BusyRow(o, u)
    /\ role' = [o \in Orgs |-> [role[o] EXCEPT ![u] = None]]
    /\ drift' = [o \in Orgs |->
                    IF role[o][u] = None THEN drift[o]
                    ELSE drift[o] \cup {"purge"}
                                  \cup (IF SeatsQuiet(o) THEN {} ELSE {"overlap"})]
    /\ Begin(u, "purge_mail", NoReq) /\ Release(u)
    /\ UNCHANGED <<life, raced, inv, gone, provider, rec>>

\* deleteInvitationsAddressedTo, a statement of its own after that COMMIT.
PurgeMail(u) ==
    /\ pc[u] = "purge_mail"
    /\ inv' = [i \in Invs |-> IF inv[i].to = u THEN [inv[i] EXCEPT !.status = "erased"]
                              ELSE inv[i]]
    /\ gone' = gone \cup {u}
    /\ Finish(u)
    /\ UNCHANGED <<membership, lock, provider, rec, drift>>

(***************************************************************************)
(* pnpm billing:reconcile (alignSeats), and faults.                        *)
(***************************************************************************)

\* The member count is read; it is written only when the provider differs.
ReconcileRead(o) ==
    /\ "reconcile" \in Ops
    /\ sub[o] = "live" /\ rec[o] = 0
    /\ Members(o) # {} /\ Cardinality(Members(o)) # quantity[o]
    /\ rec' = [rec EXCEPT ![o] = Cardinality(Members(o))]
    /\ NoteOverlap(o)
    /\ UNCHANGED <<membership, inv, lock, pc, req, gone, provider>>

\* Written with the same key as a membership change: what a reconciliation that ran
\* alone really wrote is the end of any earlier drift.  The rows it then rewrites are
\* what it was answered, or what it had read when the write failed.
ReconcileWrite(o) ==
    LET q == rec[o] IN
    /\ q # 0
    /\ rec' = [rec EXCEPT ![o] = 0]
    /\ \/ /\ sub[o] = "live"
          /\ ProviderWrites(o, q)
          /\ drift' = [drift EXCEPT ![o] = IF q \in keys[o] THEN @ \cup ReplayOf(o, q)
                                           ELSE @ \ {"replay", "lost", "purge", "unwritten"}]
       \/ /\ sub[o] # "live" \/ "failwrite" \in Ops
          /\ UNCHANGED <<quantity, keys, drift>>
    /\ \/ life[o] = "live" /\ cached' = [cached EXCEPT ![o] = TRUE]
       \/ UNCHANGED cached
    /\ UNCHANGED <<membership, inv, lock, pc, req, gone, sub>>

\* A process dies, or its connection does: PostgreSQL rolls back and frees the locks.
\* What the provider was already told stays told.
Crash(u) ==
    LET o == req[u].org IN
    /\ "crash" \in Ops /\ pc[u] # "idle"
    /\ drift' = IF pc[u] \in {"accept_commit", "remove_commit"} /\ sub[o] = "live"
                THEN [drift EXCEPT ![o] = @ \cup {"lost"}] ELSE drift
    /\ Finish(u) /\ Release(u)
    /\ UNCHANGED <<membership, inv, gone, provider, rec>>

(***************************************************************************)
(* The specification.                                                      *)
(***************************************************************************)

LockSteps(u) == RemoveLock(u) \/ RoleApply(u) \/ \E o \in Orgs : PurgeLock(u, o)

ServerSteps(u) ==
    \/ \E i \in Invs : InviteWrite(u, i)
    \/ ReissueWrite(u) \/ RevokeWrite(u)
    \/ AcceptSync(u) \/ AcceptCommit(u)
    \/ RemoveSync(u) \/ RemoveCommit(u)
    \/ DeleteCancel(u) \/ DeletePurge(u)
    \/ PurgeCount(u) \/ PurgeDelete(u) \/ PurgeMail(u)

Requested(u) ==
    \/ \E o \in Orgs : CreateOrganization(u, o) \/ DeleteBegin(u, o)
    \/ \E o \in Orgs, t \in Users : InviteBegin(u, o, t) \/ RemoveBegin(u, o, t)
    \/ \E o \in Orgs, t \in Users, r \in Roles : RoleBegin(u, o, t, r)
    \/ \E i \in Invs : RevokeBegin(u, i) \/ AcceptBegin(u, i)
    \/ \E i, j \in Invs : ReissueBegin(u, i, j)
    \/ PurgeBegin(u)

Environment ==
    \/ \E i \in Invs : Expire(i)
    \/ \E o \in Orgs : ForgetKeys(o) \/ ProviderCancels(o) \/ CacheMoves(o)
    \/ \E o \in Orgs : ReconcileRead(o) \/ ReconcileWrite(o)

Next ==
    \/ \E u \in Users : Requested(u) \/ LockSteps(u) \/ ServerSteps(u) \/ Crash(u)
    \/ Environment

Spec == Init /\ [][Next]_vars

\* A started request is run to its end; PostgreSQL serves the waiters of an advisory
\* lock in their order of arrival, so a waiter is not overtaken for ever.
Fairness == \A u \in Users : WF_vars(ServerSteps(u)) /\ SF_vars(LockSteps(u))

FairSpec == Spec /\ Fairness

(***************************************************************************)
(* Properties.                                                             *)
(***************************************************************************)

\* Every variable keeps its shape; in particular only the three roles of the module
\* are ever stored in a column that the database leaves unconstrained.
TypeOK ==
    /\ role \in [Orgs -> [Users -> Roles \cup {None}]]
    /\ life \in [Orgs -> {"unborn", "live", "deleted"}]
    /\ inv \in [Invs -> Invitations]
    /\ lock \in [Orgs -> Users \cup {None}]
    /\ pc \in [Users -> Pcs]
    /\ req \in [Users -> Requests]
    /\ gone \subseteq Users
    /\ sub \in [Orgs -> {"none", "live", "cancelled"}]
    /\ cached \in [Orgs -> BOOLEAN]
    /\ quantity \in [Orgs -> Nat]
    /\ keys \in [Orgs -> SUBSET Nat]
    /\ rec \in [Orgs -> Nat]
    /\ raced \subseteq Orgs
    /\ drift \in [Orgs -> SUBSET DriftReasons]

\* ADR 030, "un propriétaire au moins": whatever removals, demotions, transfers and
\* purges run together, a live organization keeps an owner -- unless ownership went
\* to an account whose purge had already listed what it owns.
OwnerKept ==
    \A o \in Orgs : life[o] = "live" /\ o \notin raced => Owners(o) # {}

\* ADR 030 as it is written, with no exception: the state "no owner" is unreachable.
\* The transfer to an account being purged reaches it.
EveryOrganizationHasAnOwner ==
    \A o \in Orgs : life[o] = "live" => Owners(o) # {}

\* A membership row appears only by founding or in the very commit that consumes a
\* pending invitation addressed to that account, and an invitation is consumed only by
\* a commit after which its recipient is a member: a refused or interrupted acceptance
\* leaves neither half behind.
AdmissionIsAtomic ==
    [][ /\ \A o \in Orgs, u \in Users :
              role[o][u] = None /\ role'[o][u] # None =>
                 \/ life[o] = "unborn"
                 \/ \E i \in Invs : /\ inv[i].org = o /\ inv[i].to = u
                                    /\ inv[i].status = "pending"
                                    /\ inv'[i].status = "accepted"
        /\ \A i \in Invs :
              inv[i].status # "accepted" /\ inv'[i].status = "accepted" =>
                 /\ inv[i].status = "pending"
                 /\ role'[inv[i].org][inv[i].to] # None
      ]_vars

\* An account that administers without owning never removes an owner or another
\* admin, even when its target is promoted while the removal waits for the lock.
AdminRemovesOnlyMembers ==
    [][ \A o \in Orgs, t \in Users :
          role[o][t] \in {"owner", "admin"} /\ role'[o][t] = None =>
             \/ life'[o] = "deleted"
             \/ pc[t] = "purge_counted"
             \/ \E u \in Users : /\ pc[u] = "remove_commit"
                                 /\ req[u].org = o /\ req[u].target = t
                                 /\ u = t \/ req[u].acc = "owner"
      ]_vars

\* With no membership change in progress, the provider bills exactly the members of an
\* organization whose subscription it holds, as long as no two counts overlapped, no
\* idempotency key was replayed, no commit was lost after the provider's write, no account
\* was purged and no member was changed under a local row that grants nothing (not yet
\* written, stale, or past its term) since the last repair.
SeatsExact ==
    \A o \in Orgs :
        life[o] = "live" /\ sub[o] = "live" /\ SeatsQuiet(o) /\ drift[o] = {}
           => quantity[o] = Cardinality(Members(o))

\* Every membership is covered by a billed seat (ADR 046) even when changes overlap:
\* the only admitted residue bills too much, never too little.
AccessCoveredBySeat ==
    \A o \in Orgs :
        life[o] = "live" /\ sub[o] = "live" /\ SeatsQuiet(o) /\ drift[o] \subseteq {"overlap"}
           => quantity[o] >= Cardinality(Members(o))

\* A target quantity converges when it is replayed: a key that names the target makes
\* two calls that want the same state the same call.
ReplayConverges ==
    \A o \in Orgs :
        life[o] = "live" /\ sub[o] = "live" /\ SeatsQuiet(o) /\ drift[o] \subseteq {"replay"}
           => quantity[o] = Cardinality(Members(o))

\* Acceptances that do not overlap, each made under a local row that grants access, never
\* bring a billed organization over the seat limit of its offer.
LimitHeld ==
    \A o \in Orgs :
        life[o] = "live" /\ sub[o] = "live" /\ {"overlap", "unchecked"} \cap drift[o] = {}
           => Cardinality(Members(o)) <= SeatLimit

\* deleteOrganization, "l'annulation avant l'effacement": no subscription outlives its
\* organization.  One whose local row grants nothing does.
DeletionEndsBilling == \A o \in Orgs : life[o] = "deleted" => sub[o] # "live"

\* Every started request ends: the sorted lock order of a purge excludes that two
\* accounts leaving the same organizations wait for each other.
RequestsEnd == \A u \in Users : pc[u] # "idle" ~> pc[u] = "idle"

=============================================================================
