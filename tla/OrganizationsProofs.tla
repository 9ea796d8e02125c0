------------------------- MODULE OrganizationsProofs -------------------------
(***************************************************************************)
(* Theorems about Organizations, for every set of accounts, organizations  *)
(* and invitations: the types; the rule that a live organization keeps an  *)
(* owner; what an admin may remove; that a member enters with an           *)
(* invitation; and the seats that are billed, exact and within the limit   *)
(* of the offer, outside the drifts the model names.                       *)
(***************************************************************************)
EXTENDS Organizations, FiniteSetTheorems, TLAPS

(***************************************************************************)
(* The inductive invariant.  OwnerKept alone is not inductive: a removal   *)
(* or a purge that has counted the other owners acts on that count two     *)
(* steps later, so what the count said must still hold when it acts.       *)
(***************************************************************************)

Removing == {"remove_sync", "remove_commit"}
Leaving == {"purge_lock", "purge_counted"}
Protected(o) == life[o] = "live" /\ o \notin raced

\* Nothing refers to an organization that was not founded yet.
UnbornUnused ==
    \A o \in Orgs : life[o] = "unborn" =>
        /\ \A u \in Users : role[o][u] = None
        /\ \A i \in Invs : inv[i].status = "pending" => inv[i].org # o
        /\ \A u \in Users : pc[u] \in InTransaction => req[u].org # o
        /\ \A u \in Users : pc[u] \in Leaving => o \notin req[u].owned

\* A removal under way holds the lock of its organization, and leaves an owner.
RemovalSafe ==
    \A u \in Users : pc[u] \in Removing =>
        /\ req[u].org \in Orgs
        /\ lock[req[u].org] = u
        /\ Protected(req[u].org) => Owners(req[u].org) \ {req[u].target} # {}

\* What an account being purged owns is what it listed, unless it was raced.
OwnershipListed ==
    \A u \in Users, o \in Orgs :
        pc[u] \in Leaving /\ role[o][u] = "owner" /\ o \notin req[u].owned => o \in raced

\* A purge that has counted holds the lock of all it listed, and each has another owner.
PurgeSafe ==
    \A u \in Users : pc[u] = "purge_counted" =>
        \A o \in req[u].owned : /\ lock[o] = u
                                /\ Protected(o) => Owners(o) \ {u} # {}

\* A request in progress names the rows it will write.
Addressed ==
    \A u \in Users :
        /\ pc[u] \in {"role", "remove"} => req[u].org \in Orgs /\ req[u].target \in Users
        /\ pc[u] = "reissue" => req[u].inv \in Invs /\ req[u].issued \in Invs

Guarded == OwnerKept /\ UnbornUnused /\ RemovalSafe /\ OwnershipListed /\ PurgeSafe

IInv == TypeOK /\ Addressed /\ Guarded

(***************************************************************************)
(* Types.                                                                  *)
(***************************************************************************)

LEMMA HeadCount ==
    ASSUME NEW S \in SUBSET Users
    PROVE  Cardinality(S) \in Nat
BY OrganizationsAssumption, FS_Subset, FS_CardinalityType

\* What a request is set to keeps the types of pc and req.
LEMMA BeginTypes ==
    ASSUME TypeOK, NEW u \in Users, NEW p \in Pcs, NEW r \in Requests, Begin(u, p, r)
    PROVE  pc' \in [Users -> Pcs] /\ req' \in [Users -> Requests]
BY DEF TypeOK, Begin

\* The empty request is a request.
LEMMA NoReqType == NoReq \in Requests
BY DEF NoReq, Requests

\* A seat count is a natural number.
LEMMA SeatsType ==
    ASSUME NEW r \in Requests, NEW n \in Nat
    PROVE  [r EXCEPT !.seats = n] \in Requests
BY DEF Requests

\* The changes an invitation row goes through stay within Invitations.
LEMMA PendingType ==
    ASSUME NEW o \in Orgs \cup {NoOrg}, NEW t \in Users \cup {None}
    PROVE  [status |-> "pending", org |-> o, to |-> t, age |-> "fresh"] \in Invitations
BY DEF Invitations

\* Changing the status of an invitation keeps the rows well typed.
LEMMA StatusType ==
    ASSUME NEW r \in Invitations, NEW s \in {"accepted", "revoked", "erased"}
    PROVE  [r EXCEPT !.status = s] \in Invitations
BY DEF Invitations

\* So does issuing one.
LEMMA FreshType ==
    ASSUME NEW r \in Invitations
    PROVE  [r EXCEPT !.age = "fresh"] \in Invitations
BY DEF Invitations

\* Ending a request keeps the types.
LEMMA FinishTypes ==
    ASSUME TypeOK, NEW u \in Users, Finish(u)
    PROVE  pc' \in [Users -> Pcs] /\ req' \in [Users -> Requests]
BY BeginTypes, NoReqType DEF Finish, Pcs

\* Releasing the locks of an account keeps their type.
LEMMA ReleaseTypes ==
    ASSUME TypeOK, NEW u \in Users, Release(u)
    PROVE  lock' \in [Orgs -> Users \cup {None}]
BY DEF TypeOK, Release

\* Noting an overlap keeps the type of drift.
LEMMA NoteOverlapTypes ==
    ASSUME TypeOK, NEW o, NoteOverlap(o)
    PROVE  drift' \in [Orgs -> SUBSET DriftReasons]
BY DEF TypeOK, NoteOverlap, DriftReasons

\* A write at the provider keeps the types of its state.
LEMMA ProviderTypes ==
    ASSUME TypeOK, NEW o, NEW q \in Nat, ProviderWrites(o, q)
    PROVE  quantity' \in [Orgs -> Nat] /\ keys' \in [Orgs -> SUBSET Nat]
BY DEF TypeOK, ProviderWrites

\* So does the whole of syncSeats, answered or failed.
LEMMA SyncSeatsTypes ==
    ASSUME TypeOK, NEW u \in Users, NEW adds \in BOOLEAN, NEW next \in Pcs,
           SyncSeats(u, adds, next)
    PROVE  /\ pc' \in [Users -> Pcs] /\ req' \in [Users -> Requests]
           /\ lock' \in [Orgs -> Users \cup {None}]
           /\ sub' \in [Orgs -> {"none", "live", "cancelled"}] /\ cached' \in [Orgs -> BOOLEAN]
           /\ quantity' \in [Orgs -> Nat] /\ keys' \in [Orgs -> SUBSET Nat]
           /\ drift' \in [Orgs -> SUBSET DriftReasons]
<1> DEFINE o == req[u].org
           q == req[u].seats
<1>0. q \in Nat
  BY DEF TypeOK, Requests
<1>1. CASE /\ drift' = [drift EXCEPT ![o] = @ \cup Unsynced(o, adds)]
           /\ pc' = [pc EXCEPT ![u] = next]
           /\ UNCHANGED <<req, lock, provider>>
  <2>1. Unsynced(o, adds) \subseteq DriftReasons
    BY DEF Unsynced, DriftReasons
  <2> QED BY <1>1, <2>1 DEF TypeOK, provider
<1>2. CASE Finish(u) /\ Release(u) /\ UNCHANGED <<provider, drift>>
  BY <1>2, FinishTypes, ReleaseTypes DEF TypeOK, provider
<1>3. CASE /\ ProviderWrites(o, q)
           /\ drift' = [drift EXCEPT ![o] = @ \cup ReplayOf(o, q)]
           /\ pc' = [pc EXCEPT ![u] = next]
           /\ UNCHANGED <<req, lock, sub, cached>>
  <2>1. ReplayOf(o, q) \subseteq DriftReasons
    BY DEF ReplayOf, DriftReasons
  <2> QED BY <1>0, <1>3, <2>1, ProviderTypes DEF TypeOK
<1>4. CASE /\ ProviderWrites(o, q)
           /\ drift' = [drift EXCEPT ![o] = @ \cup {"lost"}]
           /\ Finish(u) /\ Release(u)
           /\ UNCHANGED <<sub, cached>>
  <2>1. drift' \in [Orgs -> SUBSET DriftReasons]
    BY <1>4 DEF TypeOK, DriftReasons
  <2> QED BY <1>0, <1>4, <2>1, ProviderTypes, FinishTypes, ReleaseTypes DEF TypeOK
<1> QED BY <1>1, <1>2, <1>3, <1>4 DEF SyncSeats

\* Every step keeps the types: one step of the proof for each action.
LEMMA StepTypes ==
    ASSUME TypeOK, Addressed, [Next]_vars
    PROVE  TypeOK'
<1>1. ASSUME NEW u \in Users, NEW o \in Orgs, CreateOrganization(u, o) PROVE TypeOK'
  BY <1>1 DEF TypeOK, CreateOrganization, provider, Roles
<1>2. ASSUME NEW u \in Users, NEW o \in Orgs, DeleteBegin(u, o) PROVE TypeOK'
  BY <1>2, BeginTypes DEF TypeOK, DeleteBegin, membership, provider, NoReq, Requests, Pcs
<1>3. ASSUME NEW u \in Users, NEW o \in Orgs, NEW t \in Users, InviteBegin(u, o, t) PROVE TypeOK'
  BY <1>3, BeginTypes DEF TypeOK, InviteBegin, membership, provider, NoReq, Requests, Pcs
<1>4. ASSUME NEW u \in Users, NEW o \in Orgs, NEW t \in Users, RemoveBegin(u, o, t) PROVE TypeOK'
  <2>1. role[o][u] \in Roles \cup {None}
    BY DEF TypeOK
  <2>2. [NoReq EXCEPT !.org = o, !.target = t, !.acc = role[o][u]] \in Requests
    BY <2>1 DEF NoReq, Requests
  <2> QED BY <1>4, <2>2, BeginTypes DEF TypeOK, RemoveBegin, membership, provider, Pcs
<1>5. ASSUME NEW u \in Users, NEW o \in Orgs, NEW t \in Users, NEW r \in Roles, RoleBegin(u, o, t, r) PROVE TypeOK'
  <2>1. role[o][u] \in Roles \cup {None}
    BY DEF TypeOK
  <2>2. [NoReq EXCEPT !.org = o, !.target = t, !.next = r, !.acc = role[o][u]] \in Requests
    BY <2>1 DEF NoReq, Requests
  <2> QED BY <1>5, <2>2, BeginTypes DEF TypeOK, RoleBegin, membership, provider, Pcs
<1>6. ASSUME NEW u \in Users, NEW i \in Invs, RevokeBegin(u, i) PROVE TypeOK'
  BY <1>6, BeginTypes DEF TypeOK, RevokeBegin, membership, provider, NoReq, Requests, Pcs, Invitations
<1>7. ASSUME NEW u \in Users, NEW i \in Invs, AcceptBegin(u, i) PROVE TypeOK'
  BY <1>7, BeginTypes, NoteOverlapTypes, HeadCount DEF TypeOK, AcceptBegin, membership, provider, NoReq, Requests, Pcs, Invitations, InTransaction, Members
<1>8. ASSUME NEW u \in Users, NEW i \in Invs, NEW j \in Invs, ReissueBegin(u, i, j) PROVE TypeOK'
  BY <1>8, BeginTypes DEF TypeOK, ReissueBegin, membership, provider, NoReq, Requests, Pcs, Invitations
<1>9. ASSUME NEW u \in Users, PurgeBegin(u) PROVE TypeOK'
  BY <1>9, BeginTypes DEF TypeOK, PurgeBegin, membership, provider, NoReq, Requests, Pcs, OwnedBy
<1>10. ASSUME NEW u \in Users, RemoveLock(u) PROVE TypeOK'
  <2> DEFINE o == req[u].org
             r == [req[u] EXCEPT !.seats = SeatsWithout(o, req[u].target)]
  <2>1. r \in Requests
    <3>1. SeatsWithout(o, req[u].target) \in Nat
      BY HeadCount DEF SeatsWithout, Members
    <3> QED BY <3>1, SeatsType DEF TypeOK
  <2>2. CASE lock' = [lock EXCEPT ![o] = u] /\ Begin(u, "remove_sync", r) /\ NoteOverlap(o)
    <3>1. pc' \in [Users -> Pcs] /\ req' \in [Users -> Requests]
      BY <2>1, <2>2, BeginTypes DEF Pcs, InTransaction
    <3> QED BY <1>10, <2>2, <3>1, NoteOverlapTypes DEF TypeOK, RemoveLock, membership, provider
  <2>3. CASE Finish(u) /\ UNCHANGED <<lock, drift>>
    BY <1>10, <2>3, FinishTypes DEF TypeOK, RemoveLock, membership, provider
  <2> QED BY <1>10, <2>2, <2>3 DEF RemoveLock
<1>11. ASSUME NEW u \in Users, RoleApply(u) PROVE TypeOK'
  <2> DEFINE o == req[u].org
             t == req[u].target
  <2>1. role' \in [Orgs -> [Users -> Roles \cup {None}]]
    <3>1. CASE role' = Transferred(o, u, t)
      BY <3>1 DEF TypeOK, Transferred, Roles
    <3>2. CASE role[o][t] # None /\ role' = [role EXCEPT ![o][t] = req[u].next]
      <4>1. req[u].next \in Roles \cup {None}
        BY DEF TypeOK, Requests
      <4> QED BY <3>2, <4>1 DEF TypeOK
    <3> QED BY <1>11, <3>1, <3>2 DEF RoleApply, TypeOK
  <2>2. raced' \subseteq Orgs
    <3>1. req[u].org \in Orgs
      BY <1>11 DEF RoleApply, Addressed
    <3> QED BY <1>11, <3>1 DEF RoleApply, TypeOK
  <2> QED BY <1>11, <2>1, <2>2, FinishTypes DEF TypeOK, RoleApply, provider
<1>12. ASSUME NEW u \in Users, NEW o \in Orgs, PurgeLock(u, o) PROVE TypeOK'
  BY <1>12 DEF TypeOK, PurgeLock, membership, provider
<1>13. ASSUME NEW u \in Users, NEW i \in Invs, InviteWrite(u, i) PROVE TypeOK'
  <2>1. req[u].org \in Orgs \cup {NoOrg} /\ req[u].target \in Users \cup {None}
    BY DEF TypeOK, Requests
  <2>2. inv' \in [Invs -> Invitations]
    BY SMTT(20), <1>13, <2>1, PendingType DEF TypeOK, InviteWrite
  <2> QED BY <1>13, <2>2, FinishTypes DEF TypeOK, InviteWrite, membership, provider
<1>14. ASSUME NEW u \in Users, ReissueWrite(u) PROVE TypeOK'
  <2>1. inv' \in [Invs -> Invitations]
    <3>1. req[u].inv \in Invs /\ req[u].issued \in Invs
      BY <1>14 DEF ReissueWrite, Addressed
    <3>2. inv[req[u].inv] \in Invitations
      BY <3>1 DEF TypeOK
    <3>3. CASE UNCHANGED inv
      BY <3>3 DEF TypeOK
    <3>4. CASE inv' = [inv EXCEPT ![req[u].inv].status = "revoked",
                                  ![req[u].issued] = [inv[req[u].inv] EXCEPT !.age = "fresh"]]
      BY <3>1, <3>2, <3>4, StatusType, FreshType DEF TypeOK
    <3> QED BY <1>14, <3>3, <3>4 DEF ReissueWrite
  <2> QED BY <1>14, <2>1, FinishTypes DEF TypeOK, ReissueWrite, membership, provider
<1>15. ASSUME NEW u \in Users, RevokeWrite(u) PROVE TypeOK'
  <2>1. inv' \in [Invs -> Invitations]
    <3>1. CASE req[u].inv \in Invs
      BY <1>15, <3>1, StatusType DEF TypeOK, RevokeWrite
    <3>2. CASE req[u].inv \notin Invs
      BY <1>15, <3>2 DEF TypeOK, RevokeWrite
    <3> QED BY <3>1, <3>2
  <2> QED BY <1>15, <2>1, FinishTypes DEF TypeOK, RevokeWrite, membership, provider
<1>16. ASSUME NEW u \in Users, AcceptSync(u) PROVE TypeOK'
  BY <1>16, SyncSeatsTypes DEF TypeOK, AcceptSync, membership, Pcs, InTransaction
<1>17. ASSUME NEW u \in Users, AcceptCommit(u) PROVE TypeOK'
  <2>1. inv' \in [Invs -> Invitations]
    <3>1. CASE req[u].inv \in Invs
      BY <1>17, <3>1, StatusType DEF TypeOK, AcceptCommit
    <3>2. CASE req[u].inv \notin Invs
      BY <1>17, <3>2 DEF TypeOK, AcceptCommit
    <3> QED BY <3>1, <3>2
  <2>2. role' \in [Orgs -> [Users -> Roles \cup {None}]]
    BY <1>17 DEF TypeOK, AcceptCommit, Roles
  <2> QED BY <1>17, <2>1, <2>2, FinishTypes DEF TypeOK, AcceptCommit, provider
<1>18. ASSUME NEW u \in Users, RemoveSync(u) PROVE TypeOK'
  BY <1>18, SyncSeatsTypes DEF TypeOK, RemoveSync, membership, Pcs, InTransaction
<1>19. ASSUME NEW u \in Users, RemoveCommit(u) PROVE TypeOK'
  BY <1>19, FinishTypes, ReleaseTypes DEF TypeOK, RemoveCommit, provider
<1>20. ASSUME NEW u \in Users, DeleteCancel(u) PROVE TypeOK'
  <2>1. sub' \in [Orgs -> {"none", "live", "cancelled"}]
    BY <1>20 DEF TypeOK, DeleteCancel
  <2>2. pc' \in [Users -> Pcs] /\ req' \in [Users -> Requests]
    BY <1>20, FinishTypes DEF TypeOK, DeleteCancel, Pcs
  <2> QED BY <1>20, <2>1, <2>2 DEF TypeOK, DeleteCancel, membership
<1>21. ASSUME NEW u \in Users, DeletePurge(u) PROVE TypeOK'
  <2>1. inv' \in [Invs -> Invitations]
    BY <1>21, StatusType DEF TypeOK, DeletePurge
  <2>2. life' \in [Orgs -> {"unborn", "live", "deleted"}]
    BY <1>21 DEF TypeOK, DeletePurge
  <2>3. role' \in [Orgs -> [Users -> Roles \cup {None}]]
    BY <1>21 DEF TypeOK, DeletePurge
  <2> QED BY <1>21, <2>1, <2>2, <2>3, FinishTypes DEF TypeOK, DeletePurge
<1>22. ASSUME NEW u \in Users, PurgeCount(u) PROVE TypeOK'
  BY <1>22, FinishTypes, ReleaseTypes DEF TypeOK, PurgeCount, membership, provider, Pcs
<1>23. ASSUME NEW u \in Users, PurgeDelete(u) PROVE TypeOK'
  BY <1>23, BeginTypes, NoReqType, ReleaseTypes DEF TypeOK, PurgeDelete, provider, Pcs, DriftReasons
<1>24. ASSUME NEW u \in Users, PurgeMail(u) PROVE TypeOK'
  <2>1. inv' \in [Invs -> Invitations]
    BY <1>24, StatusType DEF TypeOK, PurgeMail
  <2> QED BY <1>24, <2>1, FinishTypes DEF TypeOK, PurgeMail, membership, provider
<1>25. ASSUME NEW u \in Users, Crash(u) PROVE TypeOK'
  BY <1>25, FinishTypes, ReleaseTypes DEF TypeOK, Crash, membership, provider, DriftReasons
<1>26. ASSUME NEW i \in Invs, Expire(i) PROVE TypeOK'
  BY ZenonT(40), <1>26 DEF TypeOK, Expire, membership, provider, Invitations
<1>27. ASSUME NEW o \in Orgs, ForgetKeys(o) PROVE TypeOK'
  BY <1>27 DEF TypeOK, ForgetKeys, membership
<1>28. ASSUME NEW o \in Orgs, ReconcileRead(o) PROVE TypeOK'
  BY <1>28, NoteOverlapTypes, HeadCount DEF TypeOK, ReconcileRead, membership, provider, Members
<1>29. ASSUME NEW o \in Orgs, ReconcileWrite(o) PROVE TypeOK'
  <2>1. rec[o] \in Nat /\ rec' \in [Orgs -> Nat]
    BY <1>29 DEF TypeOK, ReconcileWrite
  <2>2. quantity' \in [Orgs -> Nat] /\ keys' \in [Orgs -> SUBSET Nat]
    BY <1>29, <2>1, ProviderTypes DEF TypeOK, ReconcileWrite
  <2>3. drift' \in [Orgs -> SUBSET DriftReasons]
    BY <1>29 DEF TypeOK, ReconcileWrite, ReplayOf, DriftReasons
  <2> QED BY <1>29, <2>1, <2>2, <2>3 DEF TypeOK, ReconcileWrite, membership
<1>30. ASSUME NEW o \in Orgs, ProviderCancels(o) PROVE TypeOK'
  BY <1>30 DEF TypeOK, ProviderCancels, membership
<1>31. ASSUME NEW o \in Orgs, CacheMoves(o) PROVE TypeOK'
  BY <1>31 DEF TypeOK, CacheMoves, membership
<1>32. CASE UNCHANGED vars
  BY <1>32 DEF TypeOK, vars
<1> QED
  BY <1>1, <1>2, <1>3, <1>4, <1>5, <1>6, <1>7, <1>8, <1>9, <1>10, <1>11, <1>12, <1>13, <1>14, <1>15, <1>16, <1>17, <1>18, <1>19, <1>20, <1>21, <1>22, <1>23, <1>24, <1>25, <1>26, <1>27, <1>28, <1>29, <1>30, <1>31, <1>32
     DEF Next, Requested, LockSteps, ServerSteps, Environment

\* The types hold initially.
LEMMA InitTypes == Init => TypeOK
<1> SUFFICES ASSUME Init PROVE TypeOK
  OBVIOUS
<1>1. quantity \in [Orgs -> Nat]
  <2>1. ASSUME NEW o \in Orgs PROVE {u \in Users : InitialRole[o][u] # None} \in SUBSET Users
    OBVIOUS
  <2> QED BY <2>1, HeadCount DEF Init
<1> QED
  BY <1>1, NoReqType, OrganizationsAssumption
     DEF Init, TypeOK, NoInvitation, Invitations, Pcs, DriftReasons

\* Every step keeps the requests of each stage addressed.
LEMMA StepAddressed ==
    ASSUME TypeOK, Addressed, [Next]_vars
    PROVE  Addressed'
<1> USE DEF TypeOK, Addressed
<1>1. ASSUME NEW u \in Users, Requested(u) PROVE Addressed'
  <2>1. ASSUME NEW o \in Orgs, CreateOrganization(u, o) PROVE Addressed'
    BY <2>1 DEF CreateOrganization
  <2>2. ASSUME NEW o \in Orgs, NEW t \in Users, NEW r \in Roles, RoleBegin(u, o, t, r)
        PROVE  Addressed'
    BY <2>2 DEF RoleBegin, Begin, NoReq
  <2>3. ASSUME NEW o \in Orgs, NEW t \in Users, RemoveBegin(u, o, t) PROVE Addressed'
    BY <2>3 DEF RemoveBegin, Begin, NoReq
  <2>4. ASSUME NEW i \in Invs, NEW j \in Invs, ReissueBegin(u, i, j) PROVE Addressed'
    BY <2>4 DEF ReissueBegin, Begin, NoReq
  <2>5. ASSUME NEW p \in Pcs \ {"role", "remove", "reissue"}, NEW r, Begin(u, p, r)
        PROVE  Addressed'
    BY <2>5 DEF Begin
  <2> QED BY <1>1, <2>1, <2>2, <2>3, <2>4, <2>5
      DEF Requested, DeleteBegin, InviteBegin, RevokeBegin, AcceptBegin,
          PurgeBegin, Pcs, InTransaction
<1>2. ASSUME NEW u \in Users, LockSteps(u) PROVE Addressed'
  BY <1>2 DEF LockSteps, RemoveLock, RoleApply, PurgeLock, Finish, Begin
<1>3. ASSUME NEW u \in Users, ServerSteps(u) PROVE Addressed'
  <2>1. ASSUME NEW p \in Pcs \ {"role", "remove", "reissue"}, NEW r,
               pc' = [pc EXCEPT ![u] = p], req' = [req EXCEPT ![u] = r] \/ req' = req
        PROVE  Addressed'
    BY <2>1
  <2>2. CASE Finish(u) BY <2>1, <2>2 DEF Finish, Begin, Pcs
  <2>3. CASE Begin(u, "purge_mail", NoReq) BY <2>1, <2>3 DEF Begin, Pcs
  <2>4. CASE req' = req /\ \E p \in {"accept_commit", "remove_commit", "delete_cancelled",
                                     "purge_counted"} : pc' = [pc EXCEPT ![u] = p]
    BY <2>1, <2>4 DEF Pcs, InTransaction
  <2>5. CASE AcceptSync(u) \/ RemoveSync(u)
    BY <2>2, <2>4, <2>5 DEF AcceptSync, RemoveSync, SyncSeats
  <2>6. CASE DeleteCancel(u) \/ PurgeCount(u)
    BY <2>2, <2>4, <2>6 DEF DeleteCancel, PurgeCount
  <2> QED
    BY <1>3, <2>2, <2>3, <2>5, <2>6
       DEF ServerSteps, InviteWrite, ReissueWrite, RevokeWrite, AcceptCommit, RemoveCommit,
           DeletePurge, PurgeDelete, PurgeMail
<1>4. ASSUME NEW u \in Users, Crash(u) PROVE Addressed'
  BY <1>4 DEF Crash, Finish, Begin
<1>5. CASE Environment
  BY <1>5 DEF Environment, Expire, ForgetKeys, ProviderCancels, CacheMoves, ReconcileRead, ReconcileWrite
<1>6. CASE UNCHANGED vars
  BY <1>6 DEF vars
<1> QED BY <1>1, <1>2, <1>3, <1>4, <1>5, <1>6 DEF Next

\* Initially there is no request to address.
LEMMA InitAddressed == Init => Addressed
BY DEF Init, Addressed

\* Types and addressing hold together in every reachable state.
LEMMA TypesInvariant == Spec => [](TypeOK /\ Addressed)
BY InitTypes, InitAddressed, StepTypes, StepAddressed, PTL DEF Spec

\* Every variable keeps its shape, for any number of accounts and organizations.
THEOREM TypeCorrect == Spec => []TypeOK
BY TypesInvariant, PTL

(***************************************************************************)
(* A live organization keeps an owner.                                     *)
(***************************************************************************)

\* A step that writes no membership and starts no removal, acceptance or purge, and
\* that releases no lock but those of the account it runs for.
LEMMA QuietStep ==
    ASSUME IInv, NEW u \in Users,
           UNCHANGED membership,
           \A v \in Users \ {u} : pc'[v] = pc[v] /\ req'[v] = req[v],
           pc'[u] \notin InTransaction \cup Leaving,
           \A o \in Orgs : lock[o] # u => lock'[o] = lock[o],
           \A o \in Orgs, i \in Invs :
               life[o] = "unborn" /\ inv'[i].status = "pending" => inv'[i].org # o
    PROVE  Guarded'
<1> USE DEF IInv, Guarded, membership
<1>1. OwnerKept'
  BY DEF OwnerKept, Owners
<1>2. UnbornUnused'
  BY DEF UnbornUnused
<1>3. RemovalSafe'
  BY DEF RemovalSafe, Protected, Owners, Removing, InTransaction
<1>4. OwnershipListed'
  BY DEF OwnershipListed
<1>5. PurgeSafe'
  BY DEF PurgeSafe, Protected, Owners, Leaving, TypeOK, Requests
<1> QED BY <1>1, <1>2, <1>3, <1>4, <1>5

\* Steps that touch neither memberships, nor requests, nor locks.
LEMMA ForeignStep ==
    ASSUME IInv, UNCHANGED <<membership, lock, pc, req>>,
           \A i \in Invs : inv'[i].status = "pending" =>
                             inv[i].status = "pending" /\ inv'[i].org = inv[i].org
    PROVE  Guarded'
BY DEF IInv, Guarded, membership, OwnerKept, UnbornUnused, RemovalSafe, OwnershipListed,
       PurgeSafe, Protected, Owners

\* The founder is an owner from the first commit on.
LEMMA CreateSafe ==
    ASSUME IInv, NEW u \in Users, NEW o \in Orgs, CreateOrganization(u, o)
    PROVE  Guarded'
<1> USE DEF IInv, Guarded, TypeOK, CreateOrganization, LeavingUnlocked
<1>1. OwnerKept'
  BY DEF OwnerKept, Protected, Owners, UnbornUnused, InTransaction, Leaving, Removing
<1>2. UnbornUnused'
  BY DEF UnbornUnused, InTransaction, Leaving, Removing
<1>3. RemovalSafe'
  BY DEF RemovalSafe, Removing, Protected, Owners, UnbornUnused, InTransaction, Leaving
<1>4. OwnershipListed'
  BY DEF OwnershipListed, Leaving, UnbornUnused, InTransaction, Removing
<1>5. PurgeSafe'
  BY DEF PurgeSafe, Protected, Owners, UnbornUnused, InTransaction, Leaving, Removing
<1> QED BY <1>1, <1>2, <1>3, <1>4, <1>5

\* An invitation is never for an organization that does not exist.
LEMMA AcceptBeginSafe ==
    ASSUME IInv, NEW u \in Users, NEW i \in Invs, AcceptBegin(u, i)
    PROVE  Guarded'
<1> USE DEF IInv, Guarded, TypeOK, AcceptBegin, Begin, Idle, membership, NoReq, Requests
<1>1. OwnerKept'
  BY DEF OwnerKept, Protected, Owners, InTransaction, Leaving, Removing
<1>2. UnbornUnused'
  BY DEF UnbornUnused, InTransaction, Leaving, Removing
<1>3. RemovalSafe'
  BY DEF RemovalSafe, Removing, Protected, Owners, InTransaction, Leaving
<1>4. OwnershipListed'
  BY DEF OwnershipListed, Leaving, InTransaction, Removing
<1>5. PurgeSafe'
  BY DEF PurgeSafe, Protected, Owners, InTransaction, Leaving, Removing
<1> QED BY <1>1, <1>2, <1>3, <1>4, <1>5

\* The purge lists all that the account owns.
LEMMA PurgeBeginSafe ==
    ASSUME IInv, NEW u \in Users, PurgeBegin(u)
    PROVE  Guarded'
<1> USE DEF IInv, Guarded, TypeOK, PurgeBegin, Begin, Idle, membership, NoReq, Requests
<1>1. OwnerKept'
  BY DEF OwnerKept, Protected, Owners, InTransaction, Leaving, Removing
<1>2. UnbornUnused'
  BY DEF UnbornUnused, InTransaction, Leaving, Removing, OwnedBy, None
<1>3. RemovalSafe'
  BY DEF RemovalSafe, Removing, Protected, Owners, InTransaction, Leaving
<1>4. OwnershipListed'
  BY DEF OwnershipListed, Leaving, InTransaction, Removing, OwnedBy
<1>5. PurgeSafe'
  BY DEF PurgeSafe, Protected, Owners, InTransaction, Leaving, Removing
<1> QED BY <1>1, <1>2, <1>3, <1>4, <1>5

\* A removal that goes on has seen an owner who is not its target, under the lock.
LEMMA RemoveLockSafe ==
    ASSUME IInv, NEW u \in Users, pc[u] = "remove", Free(req[u].org), Removable(u),
           lock' = [lock EXCEPT ![req[u].org] = u],
           Begin(u, "remove_sync",
                 [req[u] EXCEPT !.seats = SeatsWithout(req[u].org, req[u].target)]),
           UNCHANGED <<membership, inv>>
    PROVE  Guarded'
<1> USE OrganizationsAssumption DEF IInv, Guarded, TypeOK, Begin, Free, Removable, Addressed, membership, Requests
<1>1. OwnerKept'
  BY DEF OwnerKept, Protected, Owners, NotLastOwner, InTransaction, Leaving, Removing
<1>2. UnbornUnused'
  BY DEF UnbornUnused, NotLastOwner, InTransaction, Leaving, Removing
<1>3. RemovalSafe'
  BY DEF RemovalSafe, Removing, Protected, Owners, NotLastOwner, InTransaction, Leaving, OwnerKept
<1>4. OwnershipListed'
  BY DEF OwnershipListed, Leaving, NotLastOwner, InTransaction, Removing
<1>5. PurgeSafe'
  BY DEF PurgeSafe, Protected, Owners, NotLastOwner, InTransaction, Leaving, Removing
<1> QED BY <1>1, <1>2, <1>3, <1>4, <1>5

\* An organization that is not founded yet has no member.
LEMMA UnbornIsEmpty ==
    ASSUME UnbornUnused, NEW o \in Orgs, NEW t \in Users, life[o] = "unborn"
    PROVE  role[o][t] = None
BY DEF UnbornUnused

\* A role changes only while no removal and no purge holds the lock.
LEMMA RoleApplySafe ==
    ASSUME IInv, NEW u \in Users, RoleApply(u)
    PROVE  Guarded'
<1>0. /\ req[u].org \in Orgs /\ req[u].target \in Users
      /\ UnbornUnused
  BY DEF IInv, Guarded, TypeOK, RoleApply, Addressed, Requests
<1>u. life[req[u].org] = "unborn" => role[req[u].org][req[u].target] = None
  BY <1>0, UnbornIsEmpty
<1> USE OrganizationsAssumption DEF IInv, Guarded, TypeOK, RoleApply, Finish, Begin, Free, Addressed, Requests
<1>1. OwnerKept'
  BY DEF OwnerKept, Protected, Owners, Transferred, NotLastOwner, IsTransfer, NoReq, InTransaction, Leaving, Removing, LeavingUnlocked, None
<1>2. UnbornUnused'
  <2>1. life[req[u].org] = "unborn" => role' = role
    BY <1>u
  <2>2. \A o \in Orgs : o # req[u].org => role'[o] = role[o]
    BY DEF Transferred
  <2>3. \A o \in Orgs, v \in Users : life[o] = "unborn" => role'[o][v] = None
    BY <2>1, <2>2 DEF UnbornUnused
  <2> QED BY <2>3 DEF UnbornUnused, InTransaction, Leaving
<1>3. RemovalSafe'
  BY DEF RemovalSafe, Removing, Protected, Owners, Transferred, NotLastOwner, IsTransfer, NoReq, InTransaction, Leaving, LeavingUnlocked, None
<1>4. OwnershipListed'
  BY DEF OwnershipListed, Leaving, Transferred, NotLastOwner, IsTransfer, NoReq, InTransaction, Removing, LeavingUnlocked, None
<1>5. PurgeSafe'
  <2> SUFFICES ASSUME NEW v \in Users, pc'[v] = "purge_counted", NEW o \in req'[v].owned
               PROVE  lock'[o] = v /\ (Protected(o)' => Owners(o)' \ {v} # {})
    BY DEF PurgeSafe
  <2>1. v # u /\ pc[v] = "purge_counted" /\ req'[v] = req[v] /\ lock' = lock
    OBVIOUS
  <2>2. lock[o] = v /\ (Protected(o) => Owners(o) \ {v} # {}) /\ o \in Orgs
    BY <2>1 DEF PurgeSafe
  <2>3. o # req[u].org
    BY <2>2
  <2>4. role'[o] = role[o]
    BY <2>2, <2>3 DEF Transferred
  <2>5. Protected(o)' => Protected(o)
    BY DEF Protected
  <2> QED BY <2>1, <2>2, <2>4, <2>5 DEF Owners
<1> QED BY <1>1, <1>2, <1>3, <1>4, <1>5

\* A purge takes only free locks.
LEMMA PurgeLockSafe ==
    ASSUME IInv, NEW u \in Users, NEW o \in Orgs, PurgeLock(u, o)
    PROVE  Guarded'
<1> USE OrganizationsAssumption DEF IInv, Guarded, TypeOK, PurgeLock, Free, membership
<1>1. OwnerKept'
  BY DEF OwnerKept, Protected, Owners, InTransaction, Leaving, Removing
<1>2. UnbornUnused'
  BY DEF UnbornUnused, InTransaction, Leaving, Removing
<1>3. RemovalSafe'
  BY DEF RemovalSafe, Removing, Protected, Owners, InTransaction, Leaving
<1>4. OwnershipListed'
  BY DEF OwnershipListed, Leaving, InTransaction, Removing
<1>5. PurgeSafe'
  BY DEF PurgeSafe, Protected, Owners, InTransaction, Leaving, Removing
<1> QED BY <1>1, <1>2, <1>3, <1>4, <1>5

\* The answer of the provider lets an acceptance or a removal go on to its commit.
LEMMA SyncAdvanceSafe ==
    ASSUME IInv, NEW u \in Users, 
           \/ pc[u] = "accept_sync" /\ pc' = [pc EXCEPT ![u] = "accept_commit"]
           \/ pc[u] = "remove_sync" /\ pc' = [pc EXCEPT ![u] = "remove_commit"],
           UNCHANGED <<membership, inv, lock, req>>
    PROVE  Guarded'
<1> USE DEF IInv, Guarded, TypeOK, membership
<1>1. OwnerKept'
  BY DEF OwnerKept, Protected, Owners, InTransaction, Leaving, Removing
<1>2. UnbornUnused'
  BY DEF UnbornUnused, InTransaction, Leaving, Removing
<1>3. RemovalSafe'
  BY DEF RemovalSafe, Removing, Protected, Owners, InTransaction, Leaving
<1>4. OwnershipListed'
  BY DEF OwnershipListed, Leaving, InTransaction, Removing
<1>5. PurgeSafe'
  BY DEF PurgeSafe, Protected, Owners, InTransaction, Leaving, Removing
<1> QED BY <1>1, <1>2, <1>3, <1>4, <1>5

\* An acceptance adds a member, or leaves the role as it was.
LEMMA AcceptCommitSafe ==
    ASSUME IInv, NEW u \in Users, AcceptCommit(u)
    PROVE  Guarded'
<1> USE DEF IInv, Guarded, TypeOK, AcceptCommit, Finish, Begin, Requests
<1>0. \A o \in Orgs : Owners(o)' = Owners(o)
  BY DEF Owners, None
<1>1. OwnerKept'
  BY <1>0 DEF OwnerKept, Protected
<1>2. UnbornUnused'
  BY DEF UnbornUnused, NoReq, InTransaction, Leaving, Removing, None
<1>3. RemovalSafe'
  BY <1>0 DEF RemovalSafe, Removing, Protected
<1>4. OwnershipListed'
  BY DEF OwnershipListed, Leaving, NoReq, InTransaction, Removing
<1>5. PurgeSafe'
  BY <1>0 DEF PurgeSafe, Protected, Leaving
<1> QED BY <1>1, <1>2, <1>3, <1>4, <1>5

\* What the removal counted under its lock still holds when it commits.
LEMMA RemoveCommitSafe ==
    ASSUME IInv, NEW u \in Users, RemoveCommit(u)
    PROVE  Guarded'
<1> USE DEF IInv, Guarded, TypeOK, RemoveCommit, Finish, Begin, Release, Requests
<1>1. OwnerKept'
  BY DEF OwnerKept, Protected, Owners, NoReq, InTransaction, Leaving, Removing, RemovalSafe
<1>2. UnbornUnused'
  BY DEF UnbornUnused, NoReq, InTransaction, Leaving, Removing
<1>3. RemovalSafe'
  BY DEF RemovalSafe, Removing, Protected, Owners, NoReq, InTransaction, Leaving
<1>4. OwnershipListed'
  BY DEF OwnershipListed, Leaving, NoReq, InTransaction, Removing, None
<1>5. PurgeSafe'
  BY DEF PurgeSafe, Protected, Owners, NoReq, InTransaction, Leaving, Removing, RemovalSafe
<1> QED BY <1>1, <1>2, <1>3, <1>4, <1>5

\* An organization that is deleted needs no owner.
LEMMA DeletePurgeSafe ==
    ASSUME IInv, NEW u \in Users, DeletePurge(u)
    PROVE  Guarded'
<1> USE DEF IInv, Guarded, TypeOK, DeletePurge, Finish, Begin, Requests
<1>1. OwnerKept'
  BY DEF OwnerKept, Protected, Owners, NoReq, InTransaction, Leaving, Removing, None
<1>2. UnbornUnused'
  BY DEF UnbornUnused, NoReq, InTransaction, Leaving, Removing, None
<1>3. RemovalSafe'
  BY DEF RemovalSafe, Removing, Protected, Owners, NoReq, InTransaction, Leaving, None
<1>4. OwnershipListed'
  BY DEF OwnershipListed, Leaving, NoReq, InTransaction, Removing, None
<1>5. PurgeSafe'
  BY DEF PurgeSafe, Protected, Owners, NoReq, InTransaction, Leaving, Removing, None
<1> QED BY <1>1, <1>2, <1>3, <1>4, <1>5

\* The recount: each organization listed, and locked, has another owner.
LEMMA PurgeCountSafe ==
    ASSUME IInv, NEW u \in Users, PurgeCount(u), SoleOwnerships(u) = {},
           pc' = [pc EXCEPT ![u] = "purge_counted"], UNCHANGED <<req, lock>>
    PROVE  Guarded'
<1> USE DEF IInv, Guarded, TypeOK, PurgeCount, membership, Requests
<1>1. OwnerKept'
  BY DEF OwnerKept, Protected, Owners, InTransaction, Leaving, Removing
<1>2. UnbornUnused'
  BY DEF UnbornUnused, InTransaction, Leaving, Removing
<1>3. RemovalSafe'
  BY DEF RemovalSafe, Removing, Protected, Owners, InTransaction, Leaving
<1>4. OwnershipListed'
  BY DEF OwnershipListed, Leaving, InTransaction, Removing
<1>5. PurgeSafe'
  BY DEF PurgeSafe, Protected, Owners, InTransaction, Leaving, Removing, OwnerKept, SoleOwnerships, OwnedBy, StillToLock
<1> QED BY <1>1, <1>2, <1>3, <1>4, <1>5

\* The purge leaves only organizations it locked, or that it never owned.
LEMMA PurgeDeleteSafe ==
    ASSUME IInv, NEW u \in Users, PurgeDelete(u)
    PROVE  Guarded'
<1> USE DEF IInv, Guarded, TypeOK, PurgeDelete, Begin, Release, Requests
<1>1. OwnerKept'
  BY DEF OwnerKept, Protected, Owners, NoReq, InTransaction, Leaving, Removing, None, OwnershipListed, PurgeSafe
<1>2. UnbornUnused'
  BY DEF UnbornUnused, NoReq, InTransaction, Leaving, Removing, None
<1>3. RemovalSafe'
  <2> SUFFICES ASSUME NEW v \in Users, pc'[v] \in Removing
               PROVE  /\ req'[v].org \in Orgs /\ lock'[req'[v].org] = v
                      /\ Protected(req[v].org)' => Owners(req[v].org)' \ {req'[v].target} # {}
    BY DEF RemovalSafe
  <2>1. v # u /\ pc[v] \in Removing /\ req'[v] = req[v]
    BY DEF Removing
  <2>2. PICK o \in Orgs : o = req[v].org /\ lock[o] = v /\ lock'[o] = v
    BY <2>1 DEF RemovalSafe
  <2>3. Protected(o)' => Protected(o)
    BY DEF Protected
  <2>4. Protected(o) => u \notin Owners(o)
    BY <2>1, <2>2 DEF OwnershipListed, PurgeSafe, Owners, Leaving, Protected
  <2>5. Protected(o) => Owners(o)' = Owners(o)
    BY <2>2, <2>4 DEF Owners, None
  <2>6. Protected(o) => Owners(o) \ {req[v].target} # {}
    BY <2>1, <2>2 DEF RemovalSafe
  <2>7. req[v].org' = o /\ req'[v].target = req[v].target
    BY <2>1, <2>2
  <2> QED BY <2>2, <2>3, <2>5, <2>6, <2>7
<1>4. OwnershipListed'
  BY DEF OwnershipListed, Leaving, NoReq, InTransaction, Removing, None
<1>5. PurgeSafe'
  BY DEF PurgeSafe, Protected, Owners, NoReq, InTransaction, Leaving, Removing, None, OwnershipListed
<1> QED BY <1>1, <1>2, <1>3, <1>4, <1>5

\* Neither outcome of the seat synchronisation changes a membership.
LEMMA SyncSafe ==
    ASSUME IInv, NEW u \in Users, NEW adds, NEW next,
           \/ pc[u] = "accept_sync" /\ next = "accept_commit"
           \/ pc[u] = "remove_sync" /\ next = "remove_commit",
           SyncSeats(u, adds, next), UNCHANGED <<membership, inv>>
    PROVE  Guarded'
<1>1. CASE pc' = [pc EXCEPT ![u] = next] /\ UNCHANGED <<req, lock>>
  BY <1>1, SyncAdvanceSafe
<1>2. CASE Finish(u) /\ Release(u)
  <2>1. \A o \in Orgs, i \in Invs :
            life[o] = "unborn" /\ inv'[i].status = "pending" => inv'[i].org # o
    BY DEF IInv, Guarded, UnbornUnused
  <2> QED BY <1>2, <2>1, QuietStep
      DEF IInv, TypeOK, Finish, Begin, Release, InTransaction, Leaving
<1> QED BY <1>1, <1>2 DEF SyncSeats

\* Reading the access at the start of a request changes no membership.
LEMMA RequestedSafe ==
    ASSUME IInv, NEW u \in Users, Requested(u)
    PROVE  Guarded'
<1>1. ASSUME NEW p \in {"invite", "reissue", "revoke", "remove", "role", "delete"}, NEW r,
             Begin(u, p, r), UNCHANGED <<membership, inv, lock>>
      PROVE  Guarded'
  <2>1. \A o \in Orgs, i \in Invs :
            life[o] = "unborn" /\ inv'[i].status = "pending" => inv'[i].org # o
    BY <1>1 DEF IInv, Guarded, UnbornUnused, membership
  <2> QED BY <1>1, <2>1, QuietStep DEF IInv, TypeOK, Begin, InTransaction, Leaving
<1> QED
  BY <1>1, CreateSafe, AcceptBeginSafe, PurgeBeginSafe
     DEF Requested, DeleteBegin, InviteBegin, RemoveBegin, RoleBegin, RevokeBegin,
         ReissueBegin

\* The steps that take the lock of an organization preserve the invariant.
LEMMA LockStepsSafe ==
    ASSUME IInv, NEW u \in Users, LockSteps(u)
    PROVE  Guarded'
<1>1. ASSUME RemoveLock(u) PROVE Guarded'
  <2>1. CASE Removable(u)
    BY <1>1, <2>1, RemoveLockSafe DEF RemoveLock
  <2>2. CASE ~ Removable(u)
    <3>1. Finish(u) /\ UNCHANGED <<membership, inv, lock>>
      BY <1>1, <2>2 DEF RemoveLock
    <3>2. \A o \in Orgs, i \in Invs :
              life[o] = "unborn" /\ inv'[i].status = "pending" => inv'[i].org # o
      BY <3>1 DEF IInv, Guarded, UnbornUnused, membership
    <3> QED BY <3>1, <3>2, QuietStep DEF IInv, TypeOK, Finish, Begin, InTransaction, Leaving
  <2> QED BY <2>1, <2>2
<1> QED BY <1>1, RoleApplySafe, PurgeLockSafe DEF LockSteps

\* Every step of a request preserves the invariant.
LEMMA ServerStepsSafe ==
    ASSUME IInv, NEW u \in Users, ServerSteps(u)
    PROVE  Guarded'
<1> DEFINE NoNewPending ==
      \A o \in Orgs, i \in Invs :
          life[o] = "unborn" /\ inv'[i].status = "pending" => inv'[i].org # o
<1> HIDE DEF NoNewPending
<1>1. ASSUME NoNewPending, UNCHANGED membership, Finish(u), lock' = lock \/ Release(u)
      PROVE  Guarded'
  BY <1>1, QuietStep
     DEF NoNewPending, IInv, TypeOK, Finish, Begin, Release, InTransaction, Leaving
<1>2. ASSUME UNCHANGED inv PROVE NoNewPending
  BY <1>2 DEF NoNewPending, IInv, Guarded, UnbornUnused
<1>3. ASSUME NEW i \in Invs, InviteWrite(u, i) PROVE Guarded'
  <2>1. NoNewPending
    <3>1. CASE UNCHANGED inv
      BY <1>2, <3>1
    <3>2. CASE /\ life[req[u].org] = "live"
               /\ inv' = [inv EXCEPT ![i] = [status |-> "pending", org |-> req[u].org,
                                             to |-> req[u].target, age |-> "fresh"]]
      BY <3>2 DEF NoNewPending, IInv, TypeOK, Guarded, UnbornUnused
    <3> QED BY <1>3, <3>1, <3>2 DEF InviteWrite
  <2> QED BY <1>1, <1>3, <2>1 DEF InviteWrite
<1>4. ASSUME ReissueWrite(u) PROVE Guarded'
  <2>1. NoNewPending
    <3>1. req[u].inv \in Invs /\ req[u].issued \in Invs
      BY <1>4 DEF ReissueWrite, IInv, Addressed
    <3>2. CASE UNCHANGED inv
      BY <1>2, <3>2
    <3>3. ASSUME NEW i \in Invs, NEW j \in Invs, inv[i].status = "pending",
                 inv' = [inv EXCEPT ![i].status = "revoked",
                                    ![j] = [inv[i] EXCEPT !.age = "fresh"]]
          PROVE  NoNewPending
      <4>1. ASSUME NEW k \in Invs, inv'[k].status = "pending"
            PROVE  \E m \in Invs : inv[m].status = "pending" /\ inv'[k].org = inv[m].org
        <5>1. CASE k = j
          <6>1. inv'[j] = [inv[i] EXCEPT !.age = "fresh"] /\ inv[i] \in Invitations
            BY <3>3, <5>1 DEF IInv, TypeOK
          <6> QED BY <3>3, <5>1, <6>1 DEF Invitations
        <5>2. CASE k # j /\ k # i
          BY <3>3, <4>1, <5>2 DEF IInv, TypeOK
        <5>3. CASE k = i /\ i # j
          <6>1. inv'[i] = [inv[i] EXCEPT !.status = "revoked"] /\ inv[i] \in Invitations
            BY <3>3, <5>3 DEF IInv, TypeOK
          <6> QED BY <4>1, <5>3, <6>1 DEF Invitations
        <5> QED BY <5>1, <5>2, <5>3
      <4> QED BY <4>1 DEF NoNewPending, IInv, Guarded, UnbornUnused
    <3> QED BY <1>4, <3>1, <3>2, <3>3 DEF ReissueWrite
  <2> QED BY <1>1, <1>4, <2>1 DEF ReissueWrite
<1>5. ASSUME RevokeWrite(u) PROVE Guarded'
  <2>1. NoNewPending
    BY <1>5 DEF NoNewPending, RevokeWrite, IInv, TypeOK, Guarded, UnbornUnused, Invitations
  <2> QED BY <1>1, <1>5, <2>1 DEF RevokeWrite
<1>6. ASSUME AcceptSync(u) PROVE Guarded'
  BY <1>6, SyncSafe DEF AcceptSync
<1>7. ASSUME RemoveSync(u) PROVE Guarded'
  BY <1>7, SyncSafe DEF RemoveSync
<1>8. ASSUME DeleteCancel(u) PROVE Guarded'
  <2>1. CASE Finish(u)
    BY <1>1, <1>2, <1>8, <2>1 DEF DeleteCancel
  <2>2. CASE pc' = [pc EXCEPT ![u] = "delete_cancelled"] /\ UNCHANGED req
    BY <1>2, <1>8, <2>2, QuietStep
       DEF NoNewPending, DeleteCancel, IInv, TypeOK, InTransaction, Leaving
  <2> QED BY <1>8, <2>1, <2>2 DEF DeleteCancel
<1>9. ASSUME PurgeCount(u) PROVE Guarded'
  <2>1. CASE Finish(u) /\ Release(u)
    BY <1>1, <1>2, <1>9, <2>1 DEF PurgeCount
  <2>2. CASE /\ SoleOwnerships(u) = {}
             /\ pc' = [pc EXCEPT ![u] = "purge_counted"] /\ UNCHANGED <<req, lock>>
    BY <1>9, <2>2, PurgeCountSafe
  <2> QED BY <1>9, <2>1, <2>2 DEF PurgeCount
<1>10. ASSUME PurgeMail(u) PROVE Guarded'
  <2>1. NoNewPending
    BY <1>10 DEF NoNewPending, PurgeMail, IInv, TypeOK, Guarded, UnbornUnused, Invitations
  <2> QED BY <1>1, <1>10, <2>1 DEF PurgeMail
<1> QED
  BY <1>3, <1>4, <1>5, <1>6, <1>7, <1>8, <1>9, <1>10, AcceptCommitSafe, RemoveCommitSafe,
     DeletePurgeSafe, PurgeDeleteSafe DEF ServerSteps

\* A crash rolls back and releases: the invariant survives it.
LEMMA CrashSafe ==
    ASSUME IInv, NEW u \in Users, Crash(u)
    PROVE  Guarded'
<1>1. \A o \in Orgs, i \in Invs :
          life[o] = "unborn" /\ inv'[i].status = "pending" => inv'[i].org # o
  BY DEF Crash, IInv, Guarded, UnbornUnused
<1> QED BY <1>1, QuietStep DEF Crash, IInv, TypeOK, Finish, Begin, Release, InTransaction, Leaving

\* So does what happens outside any request.
LEMMA EnvironmentSafe ==
    ASSUME IInv, Environment
    PROVE  Guarded'
<1>1. ASSUME NEW i \in Invs, Expire(i) PROVE Guarded'
  BY <1>1, ForeignStep DEF Expire, IInv, TypeOK, Invitations
<1>2. ASSUME NEW o \in Orgs, ForgetKeys(o) \/ ProviderCancels(o) \/ CacheMoves(o)
                             \/ ReconcileRead(o) \/ ReconcileWrite(o)
      PROVE  Guarded'
  BY <1>2, ForeignStep DEF ForgetKeys, ProviderCancels, CacheMoves, ReconcileRead, ReconcileWrite
<1> QED BY <1>1, <1>2 DEF Environment

\* The inductive invariant holds initially.
LEMMA InitInductive == Init => IInv
<1> SUFFICES ASSUME Init PROVE IInv
  OBVIOUS
<1>1. TypeOK /\ Addressed
  BY InitTypes, InitAddressed
<1>2. OwnerKept
  BY OrganizationsAssumption DEF Init, OwnerKept, Owners
<1>3. UnbornUnused
  BY DEF Init, UnbornUnused, NoInvitation, InTransaction, Leaving
<1>4. RemovalSafe /\ OwnershipListed /\ PurgeSafe
  BY DEF Init, RemovalSafe, OwnershipListed, PurgeSafe, Removing, Leaving
<1> QED BY <1>1, <1>2, <1>3, <1>4 DEF IInv, Guarded

\* Every step preserves the inductive invariant.
LEMMA StepInductive ==
    ASSUME IInv, [Next]_vars
    PROVE  IInv'
<1>1. TypeOK' /\ Addressed'
  BY StepTypes, StepAddressed DEF IInv
<1>2. CASE UNCHANGED vars
  BY <1>1, <1>2, ForeignStep DEF IInv, vars, membership
<1>3. CASE Next
  BY <1>1, <1>3, RequestedSafe, LockStepsSafe, ServerStepsSafe, CrashSafe, EnvironmentSafe
     DEF IInv, Next
<1> QED BY <1>2, <1>3

\* Whatever removals, role changes, transfers and purges run together, and however many
\* accounts take part, a live organization keeps an owner, unless its ownership was
\* handed to an account whose purge had already listed what it owned.
THEOREM OwnerAlwaysKept == Spec => []OwnerKept
<1>1. IInv => OwnerKept
  BY DEF IInv, Guarded
<1> QED BY <1>1, InitInductive, StepInductive, PTL DEF Spec

(***************************************************************************)
(* Who removes whom.                                                       *)
(***************************************************************************)

Asking == {"role", "remove"} \cup Removing

\* A role change names a role.  A removal goes on under an access that allows it: between
\* the lock and the commit nobody becomes an owner or an admin of the organization.
RemovalAllowed ==
    \A u \in Users :
        /\ pc[u] = "role" => req[u].next \in Roles
        /\ pc[u] \in {"remove"} \cup Removing =>
              /\ req[u].target \in Users
              /\ req[u].target = u \/ req[u].acc \in {"owner", "admin"}
        /\ pc[u] \in Removing =>
              \/ req[u].target = u \/ req[u].acc = "owner"
              \/ role[req[u].org][req[u].target] \notin {"owner", "admin"}

\* Steps that start no removal and change no role of an organization under removal.
LEMMA AllowedKept ==
    ASSUME IInv, RemovalAllowed,
           \A v \in Users : pc'[v] \in Asking =>
               /\ pc[v] = pc'[v] \/ (pc[v] = "remove_sync" /\ pc'[v] = "remove_commit")
               /\ req'[v] = req[v],
           \A v \in Users :
               /\ pc[v] \in Removing
               /\ role'[req[v].org][req[v].target] \in {"owner", "admin"}
               => role[req[v].org][req[v].target] \in {"owner", "admin"}
    PROVE  RemovalAllowed'
<1> SUFFICES ASSUME NEW v \in Users, pc'[v] \in Asking
             PROVE  /\ pc'[v] = "role" => req'[v].next \in Roles
                    /\ pc'[v] \in {"remove"} \cup Removing =>
                          /\ req'[v].target \in Users
                          /\ req'[v].target = v \/ req'[v].acc \in {"owner", "admin"}
                    /\ pc'[v] \in Removing =>
                          \/ req'[v].target = v \/ req'[v].acc = "owner"
                          \/ role'[req'[v].org][req'[v].target] \notin {"owner", "admin"}
  BY DEF RemovalAllowed, Asking
<1>1. /\ req'[v] = req[v]
      /\ pc'[v] = "role" => pc[v] = "role"
      /\ pc'[v] \in {"remove"} \cup Removing => pc[v] \in {"remove"} \cup Removing
      /\ pc'[v] \in Removing => pc[v] \in Removing
  BY DEF Removing
<1> QED BY <1>1 DEF RemovalAllowed

\* Every step keeps the removals under way allowed.
LEMMA AllowedStep ==
    ASSUME IInv, RemovalAllowed, [Next]_vars
    PROVE  RemovalAllowed'
<1> USE DEF membership
<1>0. TypeOK BY DEF IInv
<1>1. ASSUME UNCHANGED role, NEW u \in Users, NEW p \in Pcs \ Asking, NEW r,
             Begin(u, p, r)
      PROVE  RemovalAllowed'
  BY <1>0, <1>1, AllowedKept DEF Begin, TypeOK
<1>2. ASSUME UNCHANGED <<role, pc, req>> PROVE RemovalAllowed'
  BY <1>2 DEF RemovalAllowed
<1>3. ASSUME NEW u \in Users, NEW o \in Orgs, CreateOrganization(u, o) PROVE RemovalAllowed'
  <2>1. \A v \in Users : pc[v] \in Removing => req[v].org # o
    BY <1>3 DEF CreateOrganization, IInv, Guarded, UnbornUnused, InTransaction, Asking, Removing
  <2>2. \A q \in Orgs : q # o => role'[q] = role[q]
    BY <1>0, <1>3 DEF CreateOrganization, TypeOK
  <2>3. \A v \in Users : pc[v] \in Removing => role'[req[v].org] = role[req[v].org]
    BY <2>1, <2>2 DEF IInv, Guarded, RemovalSafe
  <2> QED BY <1>3, <2>3, AllowedKept DEF CreateOrganization
<1>4. ASSUME NEW u \in Users, NEW o \in Orgs, NEW t \in Users, RemoveBegin(u, o, t)
      PROVE  RemovalAllowed'
  <2>1. pc'[u] = "remove" /\ req'[u].target = t /\ req'[u].acc = role[o][u]
    BY <1>0, <1>4 DEF RemoveBegin, Begin, TypeOK, NoReq
  <2>2. u = t \/ role[o][u] \in {"owner", "admin"}
    BY <1>4 DEF RemoveBegin, Allows
  <2>3. \A v \in Users : v # u => pc'[v] = pc[v] /\ req'[v] = req[v]
    BY <1>0, <1>4 DEF RemoveBegin, Begin, TypeOK
  <2>4. role' = role BY <1>4 DEF RemoveBegin
  <2> QED BY <2>1, <2>2, <2>3, <2>4 DEF RemovalAllowed, Removing
<1>5. ASSUME NEW u \in Users, RemoveLock(u) PROVE RemovalAllowed'
  <2>1. CASE Finish(u)
    BY <1>1, <1>5, <2>1 DEF RemoveLock, Finish, Pcs, Asking, Removing
  <2>2. CASE ~ Finish(u)
    <3>1. /\ Removable(u) /\ role' = role
          /\ pc[u] = "remove"
          /\ Begin(u, "remove_sync", [req[u] EXCEPT !.seats = SeatsWithout(req[u].org, req[u].target)])
      BY <1>5, <2>2 DEF RemoveLock
    <3>2. /\ req'[u].target = req[u].target /\ req'[u].acc = req[u].acc /\ req'[u].org = req[u].org
          /\ pc'[u] = "remove_sync"
      BY <1>0, <3>1 DEF Begin, TypeOK, Requests
    <3>3. \A v \in Users : v # u => pc'[v] = pc[v] /\ req'[v] = req[v]
      BY <1>0, <3>1 DEF Begin, TypeOK
    <3>4. \/ req[u].target = u \/ req[u].acc = "owner"
          \/ role[req[u].org][req[u].target] \notin {"owner", "admin"}
      BY <3>1 DEF Removable, UnremovableRoles, RemovalAllowed
    <3> QED BY <3>1, <3>2, <3>3, <3>4 DEF RemovalAllowed
  <2> QED BY <2>1, <2>2
<1>6. ASSUME NEW u \in Users, RoleApply(u) PROVE RemovalAllowed'
  <2> DEFINE o == req[u].org
  <2>1. \A q \in Orgs : q # o => role'[q] = role[q]
    BY <1>0, <1>6 DEF RoleApply, Transferred, TypeOK
  <2>2. \A v \in Users : pc[v] \in Removing => req[v].org # o /\ req[v].org \in Orgs
    BY <1>6, OrganizationsAssumption DEF RoleApply, Free, IInv, Guarded, RemovalSafe
  <2>3. \A v \in Users : pc'[v] \in Asking => pc'[v] = pc[v] /\ req'[v] = req[v]
    BY <1>0, <1>6 DEF RoleApply, Finish, Begin, TypeOK, Asking, Removing
  <2> QED BY <2>1, <2>2, <2>3, AllowedKept
<1>7. ASSUME NEW u \in Users, AcceptCommit(u) PROVE RemovalAllowed'
  <2>1. \A q \in Orgs, v \in Users : role'[q][v] \in {"owner", "admin"} => role[q][v] \in {"owner", "admin"}
    BY <1>0, <1>7 DEF AcceptCommit, TypeOK
  <2>2. \A v \in Users : pc'[v] \in Asking => pc'[v] = pc[v] /\ req'[v] = req[v]
    BY <1>0, <1>7 DEF AcceptCommit, Finish, Begin, TypeOK, Asking, Removing
  <2>3. \A v \in Users : pc[v] \in Removing => req[v].org \in Orgs /\ req[v].target \in Users
    BY DEF IInv, Guarded, RemovalSafe, RemovalAllowed
  <2> QED BY <2>1, <2>2, <2>3, AllowedKept
<1>8. ASSUME NEW u \in Users, RemoveCommit(u) \/ DeletePurge(u) \/ PurgeDelete(u)
      PROVE  RemovalAllowed'
  <2>1. \A o \in Orgs, v \in Users : role'[o][v] \in {role[o][v], None}
    <3>1. CASE RemoveCommit(u) BY <1>0, <3>1 DEF RemoveCommit, TypeOK
    <3>2. CASE DeletePurge(u) BY <1>0, <3>2 DEF DeletePurge, TypeOK
    <3>3. CASE PurgeDelete(u) BY <1>0, <3>3 DEF PurgeDelete, TypeOK
    <3> QED BY <1>8, <3>1, <3>2, <3>3
  <2>2. \A v \in Users : pc'[v] \in Asking => pc'[v] = pc[v] /\ req'[v] = req[v]
    BY <1>0, <1>8 DEF RemoveCommit, DeletePurge, PurgeDelete, Finish, Begin, TypeOK, Asking, Removing
  <2>3. \A v \in Users : pc[v] \in Removing => req[v].org \in Orgs /\ req[v].target \in Users
    BY DEF IInv, Guarded, RemovalSafe, RemovalAllowed
  <2> QED BY <2>1, <2>2, <2>3, AllowedKept DEF None
<1>9. ASSUME NEW u \in Users, NEW adds,
             \/ SyncSeats(u, adds, "accept_commit") /\ pc[u] = "accept_sync"
             \/ SyncSeats(u, adds, "remove_commit") /\ pc[u] = "remove_sync",
             UNCHANGED role
      PROVE  RemovalAllowed'
  <2>1. CASE Finish(u)
    BY <1>1, <1>9, <2>1 DEF Finish, Pcs, Asking, Removing
  <2>2. CASE UNCHANGED req /\ (\/ pc[u] = "accept_sync" /\ pc' = [pc EXCEPT ![u] = "accept_commit"]
                               \/ pc[u] = "remove_sync" /\ pc' = [pc EXCEPT ![u] = "remove_commit"])
    BY <1>0, <1>9, <2>2, AllowedKept DEF TypeOK, Asking, Removing
  <2> QED BY <1>9, <2>1, <2>2 DEF SyncSeats
<1>10. ASSUME NEW u \in Users, Requested(u) PROVE RemovalAllowed'
  <2>1. ASSUME NEW o \in Orgs, NEW t \in Users, NEW c \in Roles, RoleBegin(u, o, t, c)
        PROVE  RemovalAllowed'
    <3>1. pc'[u] = "role" /\ req'[u].next = c /\ role' = role
      BY <1>0, <2>1 DEF RoleBegin, Begin, TypeOK, NoReq
    <3>2. \A v \in Users : v # u => pc'[v] = pc[v] /\ req'[v] = req[v]
      BY <1>0, <2>1 DEF RoleBegin, Begin, TypeOK
    <3> QED BY <3>1, <3>2 DEF RemovalAllowed, Removing
  <2>2. ASSUME NEW p \in {"delete", "invite", "revoke", "accept_sync", "reissue", "purge_lock"},
               NEW c, Begin(u, p, c), UNCHANGED role
        PROVE  RemovalAllowed'
    BY <1>1, <2>2 DEF Pcs, InTransaction, Asking, Removing
  <2> QED
    BY <1>3, <1>4, <1>10, <2>1, <2>2
       DEF Requested, DeleteBegin, InviteBegin, RevokeBegin, AcceptBegin, ReissueBegin, PurgeBegin
<1>11. ASSUME NEW u \in Users, ServerSteps(u) PROVE RemovalAllowed'
  <2>1. CASE AcceptSync(u) \/ RemoveSync(u)
    BY <1>9, <2>1 DEF AcceptSync, RemoveSync
  <2>2. CASE (\E i \in Invs : InviteWrite(u, i)) \/ ReissueWrite(u) \/ RevokeWrite(u) \/ PurgeMail(u)
    BY <1>1, <2>2 DEF InviteWrite, ReissueWrite, RevokeWrite, PurgeMail, Finish, Pcs, Asking, Removing
  <2>3. CASE DeleteCancel(u) \/ PurgeCount(u)
    <3>1. UNCHANGED role BY <2>3 DEF DeleteCancel, PurgeCount
    <3>2. CASE Finish(u) BY <1>1, <3>1, <3>2 DEF Finish, Pcs, Asking, Removing
    <3>3. CASE ~ Finish(u)
      <4>1. /\ UNCHANGED req
            /\ pc' = [pc EXCEPT ![u] = "delete_cancelled"] \/ pc' = [pc EXCEPT ![u] = "purge_counted"]
        BY <2>3, <3>3 DEF DeleteCancel, PurgeCount
      <4> QED BY <1>0, <3>1, <4>1, AllowedKept DEF TypeOK, Asking, Removing
    <3> QED BY <3>2, <3>3
  <2> QED BY <1>7, <1>8, <1>11, <2>1, <2>2, <2>3 DEF ServerSteps
<1>12. ASSUME NEW u \in Users, LockSteps(u) PROVE RemovalAllowed'
  BY <1>2, <1>5, <1>6, <1>12 DEF LockSteps, PurgeLock
<1>13. ASSUME NEW u \in Users, Crash(u) PROVE RemovalAllowed'
  BY <1>1, <1>13 DEF Crash, Finish, Pcs, Asking, Removing
<1>14. CASE Environment \/ UNCHANGED vars
  BY <1>2, <1>14 DEF Environment, Expire, ForgetKeys, ProviderCancels, CacheMoves, ReconcileRead, ReconcileWrite, vars
<1> QED BY <1>10, <1>11, <1>12, <1>13, <1>14 DEF Next

LEMMA InitAllowed == Init => RemovalAllowed
BY DEF Init, RemovalAllowed, Removing

LEMMA AllowedInvariant == Spec => [](IInv /\ RemovalAllowed)
BY InitInductive, InitAllowed, StepInductive, AllowedStep, PTL DEF Spec

\* Somebody who administers an organization without owning it removes neither an owner
\* nor another admin, even when the target is promoted while the removal waits.
THEOREM AdminsAreSafe == Spec => AdminRemovesOnlyMembers
<1> DEFINE Rightly == \A o \in Orgs, t \in Users :
      role[o][t] \in {"owner", "admin"} /\ role'[o][t] = None =>
         \/ life'[o] = "deleted"
         \/ pc[t] = "purge_counted"
         \/ \E u \in Users : /\ pc[u] = "remove_commit"
                             /\ req[u].org = o /\ req[u].target = t
                             /\ u = t \/ req[u].acc = "owner"
<1>1. IInv /\ RemovalAllowed /\ [Next]_vars => [Rightly]_vars
  <2> SUFFICES ASSUME IInv, RemovalAllowed, [Next]_vars, NEW o \in Orgs, NEW t \in Users,
                      role[o][t] \in {"owner", "admin"}, role'[o][t] = None
               PROVE  \/ life'[o] = "deleted"
                      \/ pc[t] = "purge_counted"
                      \/ \E u \in Users : /\ pc[u] = "remove_commit"
                                          /\ req[u].org = o /\ req[u].target = t
                                          /\ u = t \/ req[u].acc = "owner"
    OBVIOUS
  <2>0. TypeOK /\ role' # role BY DEF IInv, None
  <2>1. ASSUME NEW u \in Users, RemoveCommit(u)
        PROVE  req[u].org = o /\ req[u].target = t /\ (u = t \/ req[u].acc = "owner")
    <3>1. req[u].org = o /\ req[u].target = t
      BY <2>0, <2>1 DEF RemoveCommit, TypeOK, None
    <3> QED BY <2>1, <3>1 DEF RemoveCommit, RemovalAllowed, Removing
  <2>2. ASSUME NEW u \in Users, DeletePurge(u) PROVE life'[o] = "deleted"
    BY <2>0, <2>2 DEF DeletePurge, TypeOK, None
  <2>3. ASSUME NEW u \in Users, PurgeDelete(u) PROVE pc[t] = "purge_counted"
    BY <2>0, <2>3 DEF PurgeDelete, TypeOK, None
  <2>4. ASSUME NEW u \in Users, NEW q \in Orgs, CreateOrganization(u, q) PROVE FALSE
    BY <2>0, <2>4 DEF CreateOrganization, TypeOK, None
  <2>5. ASSUME NEW u \in Users, RoleApply(u) PROVE FALSE
    <3>1. req[u].next \in Roles BY <2>5 DEF RoleApply, RemovalAllowed
    <3>2. \A c \in Roles : c # None BY DEF Roles, None
    <3>3. role'[o][t] \in {role[o][t], req[u].next, "owner", "admin"}
      <4>1. CASE role' = Transferred(req[u].org, u, req[u].target)
        BY <2>0, <4>1 DEF Transferred, TypeOK
      <4>2. CASE role' = [role EXCEPT ![req[u].org][req[u].target] = req[u].next]
        BY <2>0, <4>2 DEF TypeOK
      <4> QED BY <2>0, <2>5, <4>1, <4>2 DEF RoleApply
    <3> QED BY <3>1, <3>2, <3>3 DEF Roles
  <2>6. ASSUME NEW u \in Users, AcceptCommit(u) PROVE FALSE
    BY <2>0, <2>6 DEF AcceptCommit, TypeOK, None
  <2>7. ASSUME NEW u \in Users, Requested(u) PROVE FALSE
    BY <2>0, <2>4, <2>7
       DEF Requested, DeleteBegin, InviteBegin, RemoveBegin, RoleBegin, RevokeBegin, AcceptBegin,
           ReissueBegin, PurgeBegin, membership
  <2>8. ASSUME NEW u \in Users, LockSteps(u) PROVE FALSE
    BY <2>0, <2>5, <2>8 DEF LockSteps, RemoveLock, PurgeLock, membership
  <2>9. ASSUME NEW u \in Users, ServerSteps(u)
        PROVE  RemoveCommit(u) \/ DeletePurge(u) \/ PurgeDelete(u)
    BY <2>0, <2>6, <2>9
       DEF ServerSteps, InviteWrite, ReissueWrite, RevokeWrite, AcceptSync, RemoveSync, DeleteCancel,
           PurgeCount, PurgeMail, membership
  <2>10. ~ Environment /\ ~ UNCHANGED vars /\ \A u \in Users : ~ Crash(u)
    BY <2>0 DEF Environment, Expire, ForgetKeys, ProviderCancels, CacheMoves, ReconcileRead, ReconcileWrite, Crash, membership, vars
  <2>11. PICK u \in Users : RemoveCommit(u) \/ DeletePurge(u) \/ PurgeDelete(u)
    BY <2>7, <2>8, <2>9, <2>10 DEF Next
  <2>12. CASE RemoveCommit(u)
    <3>1. pc[u] = "remove_commit" BY <2>12 DEF RemoveCommit
    <3> QED BY <2>1, <2>12, <3>1
  <2> QED BY <2>2, <2>3, <2>11, <2>12
<1> QED BY <1>1, AllowedInvariant, PTL DEF Spec, AdminRemovesOnlyMembers
(***************************************************************************)
(* Who enters.                                                             *)
(***************************************************************************)

Accepting == {"accept_sync", "accept_commit"}

\* The invitation an acceptance is consuming stays pending, for the same account and
\* organization: its row is locked.
Admitting ==
    /\ \A u \in Users : pc[u] = "invite" => req[u].org \in Orgs
    /\ \A i \in Invs : inv[i].status = "pending" => inv[i].org \in Orgs
    /\ \A u \in Users : pc[u] \in Accepting =>
          /\ req[u].inv \in Invs
          /\ inv[req[u].inv].status = "pending"
          /\ inv[req[u].inv].org = req[u].org /\ inv[req[u].inv].to = u

\* Steps that start no invitation and no acceptance, and leave alone the invitations
\* that are being consumed.
LEMMA AdmittingKept ==
    ASSUME Admitting,
           \A v \in Users : pc'[v] \in {"invite"} \cup Accepting =>
               /\ pc[v] = pc'[v] \/ (pc[v] = "accept_sync" /\ pc'[v] = "accept_commit")
               /\ req'[v] = req[v],
           \A i \in Invs : inv'[i].status = "pending" => inv'[i].org \in Orgs,
           \A v \in Users : pc'[v] \in Accepting =>
               /\ inv'[req[v].inv].status = inv[req[v].inv].status
               /\ inv'[req[v].inv].org = inv[req[v].inv].org
               /\ inv'[req[v].inv].to = inv[req[v].inv].to
    PROVE  Admitting'
<1>1. ASSUME NEW v \in Users, pc'[v] = "invite" PROVE req'[v].org \in Orgs
  <2>1. pc[v] = "invite" /\ req'[v] = req[v] BY <1>1 DEF Accepting
  <2> QED BY <2>1 DEF Admitting
<1>2. ASSUME NEW v \in Users, pc'[v] \in Accepting
      PROVE  /\ req'[v].inv \in Invs
             /\ inv'[req'[v].inv].status = "pending"
             /\ inv'[req'[v].inv].org = req'[v].org /\ inv'[req'[v].inv].to = v
  <2>1. pc[v] \in Accepting /\ req'[v] = req[v] BY <1>2 DEF Accepting
  <2> QED BY <1>2, <2>1 DEF Admitting
<1> QED BY <1>1, <1>2 DEF Admitting

LEMMA AdmittingStep ==
    ASSUME TypeOK, Addressed, Admitting, [Next]_vars
    PROVE  Admitting'
<1> USE DEF membership
<1>1. ASSUME NEW u \in Users, NEW p \in Pcs \ ({"invite"} \cup Accepting), NEW r, Begin(u, p, r),
             \A i \in Invs : inv'[i].status = "pending" => inv'[i].org \in Orgs,
             \A v \in Users \ {u} : pc[v] \in Accepting =>
                 /\ inv'[req[v].inv].status = inv[req[v].inv].status
                 /\ inv'[req[v].inv].org = inv[req[v].inv].org
                 /\ inv'[req[v].inv].to = inv[req[v].inv].to
      PROVE  Admitting'
  <2>1. pc'[u] = p /\ \A v \in Users : v # u => pc'[v] = pc[v] /\ req'[v] = req[v]
    BY <1>1 DEF Begin, TypeOK
  <2> QED BY <1>1, <2>1, AdmittingKept
<1>2. ASSUME NEW u \in Users, NEW p \in Pcs \ ({"invite"} \cup Accepting), NEW r, Begin(u, p, r),
             UNCHANGED inv
      PROVE  Admitting'
  BY <1>1, <1>2 DEF Admitting
<1>3. ASSUME UNCHANGED <<inv, pc, req>> PROVE Admitting'
  BY <1>3 DEF Admitting
<1>4. ASSUME NEW u \in Users, Finish(u), UNCHANGED inv PROVE Admitting'
  BY <1>2, <1>4 DEF Finish, Pcs, Accepting
<1>5. ASSUME NEW u \in Users, NEW o \in Orgs, NEW c \in Users, InviteBegin(u, o, c) PROVE Admitting'
  <2>1. pc'[u] = "invite" /\ req'[u].org = o /\ UNCHANGED inv
    BY <1>5 DEF InviteBegin, Begin, TypeOK, NoReq
  <2>2. \A v \in Users : v # u => pc'[v] = pc[v] /\ req'[v] = req[v]
    BY <1>5 DEF InviteBegin, Begin, TypeOK
  <2> QED BY <2>1, <2>2 DEF Admitting, Accepting
<1>6. ASSUME NEW u \in Users, NEW i \in Invs, AcceptBegin(u, i) PROVE Admitting'
  <2>1. pc'[u] = "accept_sync" /\ req'[u].org = inv[i].org /\ req'[u].inv = i /\ UNCHANGED inv
    BY <1>6 DEF AcceptBegin, Begin, TypeOK, NoReq
  <2>2. \A v \in Users : v # u => pc'[v] = pc[v] /\ req'[v] = req[v]
    BY <1>6 DEF AcceptBegin, Begin, TypeOK
  <2>3. inv[i].status = "pending" /\ inv[i].to = u BY <1>6 DEF AcceptBegin
  <2> QED BY <2>1, <2>2, <2>3 DEF Admitting, Accepting
<1>7. ASSUME NEW u \in Users, Requested(u) PROVE Admitting'
  <2>1. ASSUME NEW p \in {"delete", "remove", "role", "revoke", "reissue", "purge_lock"}, NEW r,
               Begin(u, p, r), UNCHANGED inv
        PROVE  Admitting'
    BY <1>2, <2>1 DEF Pcs, InTransaction, Accepting
  <2>2. ASSUME NEW o \in Orgs, CreateOrganization(u, o) PROVE Admitting'
    BY <1>3, <2>2 DEF CreateOrganization
  <2> QED
    BY <1>5, <1>6, <1>7, <2>1, <2>2
       DEF Requested, DeleteBegin, RemoveBegin, RoleBegin, RevokeBegin, ReissueBegin, PurgeBegin
<1>8. ASSUME NEW u \in Users, LockSteps(u) PROVE Admitting'
  <2>1. ASSUME NEW r, Begin(u, "remove_sync", r), UNCHANGED inv PROVE Admitting'
    BY <1>2, <2>1 DEF Pcs, InTransaction, Accepting
  <2>2. CASE RemoveLock(u)
    BY <1>4, <2>1, <2>2 DEF RemoveLock
  <2>3. CASE RoleApply(u) BY <1>4, <2>3 DEF RoleApply
  <2>4. ASSUME NEW o \in Orgs, PurgeLock(u, o) PROVE Admitting'
    BY <1>3, <2>4 DEF PurgeLock
  <2> QED BY <1>8, <2>2, <2>3, <2>4 DEF LockSteps
<1>9. ASSUME NEW u \in Users, NEW i \in Invs, InviteWrite(u, i) PROVE Admitting'
  <2>1. inv[i].status = "unused" /\ req[u].org \in Orgs /\ Finish(u)
    BY <1>9 DEF InviteWrite, Admitting
  <2>2. UNCHANGED inv \/ inv' = [inv EXCEPT ![i] = [status |-> "pending", org |-> req[u].org,
                                                    to |-> req[u].target, age |-> "fresh"]]
    BY <1>9 DEF InviteWrite
  <2>3. \A k \in Invs : inv'[k].status = "pending" => inv'[k].org \in Orgs
    BY <2>1, <2>2 DEF Admitting, TypeOK
  <2>4. \A v \in Users : pc[v] \in Accepting => req[v].inv # i
    BY <2>1 DEF Admitting
  <2>5. \A v \in Users : pc[v] \in Accepting => inv'[req[v].inv] = inv[req[v].inv]
    BY <2>2, <2>4 DEF Admitting, TypeOK
  <2> QED BY <1>1, <2>1, <2>3, <2>5 DEF Finish, Pcs, Accepting
<1>10. ASSUME NEW u \in Users, ReissueWrite(u) PROVE Admitting'
  <2> DEFINE i == req[u].inv
             j == req[u].issued
  <2>1. i \in Invs /\ j \in Invs /\ Finish(u) BY <1>10 DEF ReissueWrite, Addressed
  <2>2. \A v \in Users : pc[v] \in Accepting => req[v].inv # i
    BY <1>10 DEF ReissueWrite, BusyInvitation, Accepting
  <2>3. CASE UNCHANGED inv BY <1>4, <2>1, <2>3
  <2>4. CASE /\ inv[i].status = "pending" /\ inv[j].status = "unused"
             /\ inv' = [inv EXCEPT ![i].status = "revoked", ![j] = [inv[i] EXCEPT !.age = "fresh"]]
    <3>1. \A v \in Users : pc[v] \in Accepting => req[v].inv # j
      BY <2>4 DEF Admitting
    <3>2. \A v \in Users : pc[v] \in Accepting => inv'[req[v].inv] = inv[req[v].inv]
      BY <2>2, <2>4, <3>1 DEF Admitting, TypeOK
    <3>3. inv[i] \in Invitations /\ inv[i].org \in Orgs
      BY <2>1, <2>4 DEF Admitting, TypeOK
    <3>4. inv'[i].status = "revoked" /\ inv'[j].org = inv[i].org
            /\ \A k \in Invs : k # i /\ k # j => inv'[k] = inv[k]
      BY <2>1, <2>4, <3>3 DEF TypeOK, Invitations
    <3>5. \A k \in Invs : inv'[k].status = "pending" => inv'[k].org \in Orgs
      BY <3>3, <3>4 DEF Admitting
    <3> QED BY <1>1, <2>1, <3>2, <3>5 DEF Finish, Pcs, Accepting
  <2> QED BY <1>10, <2>3, <2>4 DEF ReissueWrite
<1>11. ASSUME NEW u \in Users, RevokeWrite(u) PROVE Admitting'
  <2> DEFINE i == req[u].inv
  <2>1. \A v \in Users : pc[v] \in Accepting => req[v].inv # i
    BY <1>11 DEF RevokeWrite, BusyInvitation, Accepting
  <2>2. \A k \in Invs : inv'[k].org = inv[k].org /\ (inv'[k].status = "pending" => inv[k].status = "pending")
    BY <1>11 DEF RevokeWrite, TypeOK, Invitations
  <2>3. \A k \in Invs : k # i => inv'[k] = inv[k]
    BY <1>11 DEF RevokeWrite, TypeOK
  <2>4. \A v \in Users : pc[v] \in Accepting => inv'[req[v].inv] = inv[req[v].inv]
    BY <2>1, <2>3 DEF Admitting
  <2>5. \A k \in Invs : inv'[k].status = "pending" => inv'[k].org \in Orgs
    BY <2>2 DEF Admitting
  <2> QED BY <1>1, <1>11, <2>4, <2>5 DEF RevokeWrite, Finish, Pcs, Accepting
<1>12. ASSUME NEW u \in Users, AcceptCommit(u) PROVE Admitting'
  <2> DEFINE i == req[u].inv
  <2>1. i \in Invs /\ inv[i].to = u
    BY <1>12 DEF AcceptCommit, Admitting, Accepting
  <2>2. \A v \in Users \ {u} : pc[v] \in Accepting => req[v].inv # i
    BY <2>1 DEF Admitting
  <2>3. \A k \in Invs : k # i => inv'[k] = inv[k]
    BY <1>12 DEF AcceptCommit, TypeOK
  <2>4. inv'[i].status = "accepted"
    BY <1>12, <2>1 DEF AcceptCommit, TypeOK, Invitations
  <2>5. \A v \in Users \ {u} : pc[v] \in Accepting => inv'[req[v].inv] = inv[req[v].inv]
    BY <2>2, <2>3 DEF Admitting
  <2>6. \A k \in Invs : inv'[k].status = "pending" => inv'[k].org \in Orgs
    BY <2>3, <2>4 DEF Admitting
  <2> QED BY <1>1, <1>12, <2>5, <2>6 DEF AcceptCommit, Finish, Pcs, Accepting
<1>13. ASSUME NEW u \in Users, DeletePurge(u) PROVE Admitting'
  <2> DEFINE o == req[u].org
  <2>1. \A v \in Users : pc[v] \in Accepting => inv[req[v].inv].org # o
    BY <1>13 DEF DeletePurge, InFlight, InTransaction, Admitting, Accepting
  <2>2. \A k \in Invs : inv[k].org # o => inv'[k] = inv[k]
    BY <1>13 DEF DeletePurge
  <2>3. \A k \in Invs : inv'[k].org = inv[k].org /\ (inv'[k].status = "pending" => inv[k].status = "pending")
    BY <1>13 DEF DeletePurge, TypeOK, Invitations
  <2>4. \A v \in Users : pc[v] \in Accepting => inv'[req[v].inv] = inv[req[v].inv]
    BY <2>1, <2>2 DEF Admitting
  <2>5. \A k \in Invs : inv'[k].status = "pending" => inv'[k].org \in Orgs
    BY <2>3 DEF Admitting
  <2> QED BY <1>1, <1>13, <2>4, <2>5 DEF DeletePurge, Finish, Pcs, Accepting
<1>14. ASSUME NEW u \in Users, PurgeMail(u) PROVE Admitting'
  <2>1. \A k \in Invs : inv[k].to # u => inv'[k] = inv[k]
    BY <1>14 DEF PurgeMail
  <2>2. \A k \in Invs : inv'[k].org = inv[k].org /\ (inv'[k].status = "pending" => inv[k].status = "pending")
    BY <1>14 DEF PurgeMail, TypeOK, Invitations
  <2>3. \A v \in Users \ {u} : pc[v] \in Accepting => inv'[req[v].inv] = inv[req[v].inv]
    BY <2>1 DEF Admitting
  <2>4. \A k \in Invs : inv'[k].status = "pending" => inv'[k].org \in Orgs
    BY <2>2 DEF Admitting
  <2> QED BY <1>1, <1>14, <2>3, <2>4 DEF PurgeMail, Finish, Pcs, Accepting
<1>15. ASSUME NEW u \in Users, AcceptSync(u) PROVE Admitting'
  <2>1. UNCHANGED inv /\ pc[u] = "accept_sync" BY <1>15 DEF AcceptSync
  <2>2. Finish(u) \/ (UNCHANGED req /\ pc' = [pc EXCEPT ![u] = "accept_commit"])
    BY <1>15 DEF AcceptSync, SyncSeats
  <2>3. CASE UNCHANGED req /\ pc' = [pc EXCEPT ![u] = "accept_commit"]
    <3>1. \A v \in Users : pc'[v] = pc[v] \/ (pc[v] = "accept_sync" /\ pc'[v] = "accept_commit")
      BY <2>1, <2>3 DEF TypeOK
    <3>2. \A i \in Invs : inv'[i].status = "pending" => inv'[i].org \in Orgs
      BY <2>1 DEF Admitting
    <3> QED BY <2>1, <2>3, <3>1, <3>2, AdmittingKept
  <2> QED BY <1>4, <2>1, <2>2, <2>3
<1>16. ASSUME NEW u \in Users, RemoveSync(u) \/ DeleteCancel(u) \/ PurgeCount(u) PROVE Admitting'
  <2>1. UNCHANGED inv BY <1>16 DEF RemoveSync, DeleteCancel, PurgeCount
  <2>2. \/ Finish(u)
        \/ UNCHANGED req /\ \E p \in {"remove_commit", "delete_cancelled", "purge_counted"} :
                                pc' = [pc EXCEPT ![u] = p]
    BY <1>16 DEF RemoveSync, SyncSeats, DeleteCancel, PurgeCount
  <2>3. ASSUME NEW p \in {"remove_commit", "delete_cancelled", "purge_counted"}, UNCHANGED req,
               pc' = [pc EXCEPT ![u] = p]
        PROVE  Admitting'
    <3>1. \A v \in Users : pc'[v] \in {"invite"} \cup Accepting => pc'[v] = pc[v]
      BY <2>3 DEF TypeOK, Accepting
    <3>2. \A i \in Invs : inv'[i].status = "pending" => inv'[i].org \in Orgs
      BY <2>1 DEF Admitting
    <3> QED BY <2>1, <2>3, <3>1, <3>2, AdmittingKept
  <2> QED BY <1>4, <2>1, <2>2, <2>3
<1>17. ASSUME NEW u \in Users, RemoveCommit(u) \/ PurgeDelete(u) \/ Crash(u) PROVE Admitting'
  <2>1. UNCHANGED inv BY <1>17 DEF RemoveCommit, PurgeDelete, Crash
  <2>2. Finish(u) \/ Begin(u, "purge_mail", NoReq)
    BY <1>17 DEF RemoveCommit, PurgeDelete, Crash
  <2> QED BY <1>2, <1>4, <2>1, <2>2 DEF Pcs, InTransaction, Accepting
<1>18. ASSUME NEW u \in Users, ServerSteps(u) PROVE Admitting'
  BY <1>9, <1>10, <1>11, <1>12, <1>13, <1>14, <1>15, <1>16, <1>17, <1>18 DEF ServerSteps
<1>19. ASSUME NEW i \in Invs, Expire(i) PROVE Admitting'
  <2>1. \A k \in Invs : /\ inv'[k].status = inv[k].status /\ inv'[k].org = inv[k].org
                        /\ inv'[k].to = inv[k].to
    BY <1>19 DEF Expire, TypeOK, Invitations
  <2> QED BY <1>19, <2>1 DEF Expire, Admitting
<1>20. CASE Environment \/ UNCHANGED vars
  BY <1>3, <1>19, <1>20 DEF Environment, ForgetKeys, ProviderCancels, CacheMoves, ReconcileRead, ReconcileWrite, vars
<1> QED BY <1>7, <1>8, <1>17, <1>18, <1>20 DEF Next

LEMMA InitAdmitting == Init => Admitting
BY DEF Init, Admitting, Accepting, NoInvitation

LEMMA AdmittingInvariant == Spec => [](IInv /\ Admitting)
<1>1. IInv /\ Admitting /\ [Next]_vars => Admitting'
  BY AdmittingStep DEF IInv
<1> QED BY InitInductive, InitAdmitting, StepInductive, <1>1, PTL DEF Spec

\* Nobody enters an organization that exists but by an invitation consumed in the same
\* transaction, and an invitation is consumed for nothing by nobody.
THEOREM AdmissionsAreAtomic == Spec => AdmissionIsAtomic
<1> DEFINE Entered(o, u) ==
      role[o][u] = None /\ role'[o][u] # None =>
         \/ life[o] = "unborn"
         \/ \E i \in Invs : /\ inv[i].org = o /\ inv[i].to = u
                            /\ inv[i].status = "pending"
                            /\ inv'[i].status = "accepted"
    Consumed(i) ==
      inv[i].status # "accepted" /\ inv'[i].status = "accepted" =>
         /\ inv[i].status = "pending"
         /\ role'[inv[i].org][inv[i].to] # None
<1>1. ASSUME IInv, Admitting, [Next]_vars, NEW o \in Orgs, NEW u \in Users PROVE Entered(o, u)
  <2> SUFFICES ASSUME role[o][u] = None, role'[o][u] # None
               PROVE  \/ life[o] = "unborn"
                      \/ \E i \in Invs : /\ inv[i].org = o /\ inv[i].to = u
                                         /\ inv[i].status = "pending"
                                         /\ inv'[i].status = "accepted"
    OBVIOUS
  <2>0. TypeOK /\ role' # role BY <1>1 DEF IInv
  <2>1. ASSUME NEW v \in Users, NEW q \in Orgs, CreateOrganization(v, q) PROVE life[o] = "unborn"
    BY <2>0, <2>1 DEF CreateOrganization, TypeOK
  <2>2. ASSUME NEW v \in Users, AcceptCommit(v)
        PROVE  \E i \in Invs : /\ inv[i].org = o /\ inv[i].to = u
                               /\ inv[i].status = "pending" /\ inv'[i].status = "accepted"
    <3>1. v = u /\ req[v].org = o BY <2>0, <2>2 DEF AcceptCommit, TypeOK
    <3>2. /\ req[v].inv \in Invs /\ inv[req[v].inv].status = "pending"
          /\ inv[req[v].inv].org = o /\ inv[req[v].inv].to = u
      BY <1>1, <2>2, <3>1 DEF AcceptCommit, Admitting, Accepting
    <3>3. inv'[req[v].inv].status = "accepted"
      BY <2>0, <2>2, <3>2 DEF AcceptCommit, TypeOK, Invitations
    <3> QED BY <3>2, <3>3
  <2>3. ASSUME NEW v \in Users, RoleApply(v) PROVE FALSE
    <3>1. CASE role' = Transferred(req[v].org, v, req[v].target) /\ role[req[v].org][req[v].target] # None
      BY <2>0, <3>1 DEF Transferred, TypeOK
    <3>2. CASE role' = [role EXCEPT ![req[v].org][req[v].target] = req[v].next]
               /\ role[req[v].org][req[v].target] # None
      BY <2>0, <3>2 DEF TypeOK
    <3> QED BY <2>0, <2>3, <3>1, <3>2 DEF RoleApply
  <2>4. ASSUME NEW v \in Users, RemoveCommit(v) \/ DeletePurge(v) \/ PurgeDelete(v) PROVE FALSE
    <3>1. CASE RemoveCommit(v) BY <2>0, <3>1 DEF RemoveCommit, TypeOK
    <3>2. CASE DeletePurge(v) BY <2>0, <3>2 DEF DeletePurge, TypeOK
    <3>3. CASE PurgeDelete(v) BY <2>0, <3>3 DEF PurgeDelete, TypeOK
    <3> QED BY <2>4, <3>1, <3>2, <3>3
  <2>5. ASSUME NEW v \in Users, Requested(v) PROVE \E q \in Orgs : CreateOrganization(v, q)
    BY <2>0, <2>5
       DEF Requested, DeleteBegin, InviteBegin, RemoveBegin, RoleBegin, RevokeBegin, AcceptBegin,
           ReissueBegin, PurgeBegin, membership
  <2>6. ASSUME NEW v \in Users, LockSteps(v) PROVE FALSE
    BY <2>0, <2>3, <2>6 DEF LockSteps, RemoveLock, PurgeLock, membership
  <2>7. ASSUME NEW v \in Users, ServerSteps(v) PROVE AcceptCommit(v)
    BY <2>0, <2>4, <2>7
       DEF ServerSteps, InviteWrite, ReissueWrite, RevokeWrite, AcceptSync, RemoveSync, DeleteCancel,
           PurgeCount, PurgeMail, membership
  <2>8. ~ Environment /\ ~ UNCHANGED vars /\ \A v \in Users : ~ Crash(v)
    BY <2>0 DEF Environment, Expire, ForgetKeys, ProviderCancels, CacheMoves, ReconcileRead, ReconcileWrite, Crash, membership, vars
  <2> QED BY <1>1, <2>1, <2>2, <2>5, <2>6, <2>7, <2>8 DEF Next
<1>2. ASSUME IInv, Admitting, [Next]_vars, NEW i \in Invs PROVE Consumed(i)
  <2> SUFFICES ASSUME inv[i].status # "accepted", inv'[i].status = "accepted"
               PROVE  inv[i].status = "pending" /\ role'[inv[i].org][inv[i].to] # None
    OBVIOUS
  <2>0. TypeOK /\ Addressed /\ inv' # inv /\ inv[i] \in Invitations
    BY <1>2 DEF IInv, TypeOK
  <2>1. ASSUME NEW v \in Users, AcceptCommit(v)
        PROVE  inv[i].status = "pending" /\ role'[inv[i].org][inv[i].to] # None
    <3>1. req[v].inv = i BY <2>0, <2>1 DEF AcceptCommit, TypeOK
    <3>2. inv[i].status = "pending" /\ inv[i].org = req[v].org /\ inv[i].to = v /\ req[v].org \in Orgs
      BY <1>2, <2>1, <3>1 DEF AcceptCommit, Admitting, Accepting
    <3>3. role'[req[v].org][v] # None
      BY <2>0, <2>1, <3>2 DEF AcceptCommit, TypeOK, None
    <3> QED BY <3>2, <3>3
  <2>2. ASSUME NEW v \in Users, NEW k \in Invs, InviteWrite(v, k) PROVE FALSE
    <3>1. inv' = [inv EXCEPT ![k] = [status |-> "pending", org |-> req[v].org,
                                     to |-> req[v].target, age |-> "fresh"]]
      BY <2>0, <2>2 DEF InviteWrite
    <3>2. inv'[i] = inv[i] \/ inv'[i].status = "pending"
      BY <2>0, <3>1 DEF TypeOK
    <3> QED BY <3>2
  <2>3. ASSUME NEW v \in Users, ReissueWrite(v) PROVE FALSE
    <3> DEFINE k == req[v].inv
               j == req[v].issued
    <3>1. /\ k \in Invs /\ j \in Invs /\ inv[k] \in Invitations /\ inv[k].status = "pending"
          /\ inv' = [inv EXCEPT ![k].status = "revoked", ![j] = [inv[k] EXCEPT !.age = "fresh"]]
      BY <2>0, <2>3 DEF ReissueWrite, Addressed, TypeOK
    <3>2. inv'[j].status = "pending" /\ (k # j => inv'[k].status = "revoked")
            /\ \A m \in Invs : m # k /\ m # j => inv'[m] = inv[m]
      BY <2>0, <3>1 DEF TypeOK, Invitations
    <3> QED BY <3>1, <3>2
  <2>4. ASSUME NEW v \in Users, RevokeWrite(v) \/ PurgeMail(v) \/ DeletePurge(v) PROVE FALSE
    <3>1. ASSUME RevokeWrite(v) PROVE FALSE
      BY <2>0, <3>1 DEF RevokeWrite, TypeOK, Invitations
    <3>2. ASSUME PurgeMail(v) PROVE FALSE
      BY <2>0, <3>2 DEF PurgeMail, TypeOK, Invitations
    <3>3. ASSUME DeletePurge(v) PROVE FALSE
      <4>1. inv'[i] = inv[i] \/ inv'[i] = [inv[i] EXCEPT !.status = "erased"]
        BY <2>0, <3>3 DEF DeletePurge
      <4> QED BY <2>0, <4>1 DEF TypeOK, Invitations
    <3> QED BY <2>4, <3>1, <3>2, <3>3
  <2>5. ASSUME NEW k \in Invs, Expire(k) PROVE FALSE
    BY <2>0, <2>5 DEF Expire, TypeOK, Invitations
  <2>6. ASSUME NEW v \in Users, Requested(v) \/ LockSteps(v) \/ Crash(v) PROVE FALSE
    BY <2>0, <2>6
       DEF Requested, CreateOrganization, DeleteBegin, InviteBegin, RemoveBegin, RoleBegin,
           RevokeBegin, AcceptBegin, ReissueBegin, PurgeBegin, LockSteps, RemoveLock, RoleApply,
           PurgeLock, Crash
  <2>7. ASSUME NEW v \in Users, ServerSteps(v) PROVE AcceptCommit(v)
    BY <2>0, <2>2, <2>3, <2>4, <2>7
       DEF ServerSteps, AcceptSync, RemoveSync, RemoveCommit, DeleteCancel, PurgeCount, PurgeDelete
  <2>8. ~ Environment /\ ~ UNCHANGED vars
    BY <2>0, <2>5 DEF Environment, ForgetKeys, ProviderCancels, CacheMoves, ReconcileRead, ReconcileWrite, vars
  <2> QED BY <1>2, <2>1, <2>6, <2>7, <2>8 DEF Next
<1>3. IInv /\ Admitting /\ [Next]_vars
      => [(\A o \in Orgs, u \in Users : Entered(o, u)) /\ \A i \in Invs : Consumed(i)]_vars
  BY <1>1, <1>2
<1> QED BY <1>3, AdmittingInvariant, PTL DEF Spec, AdmissionIsAtomic

(***************************************************************************)
(* The billed seats.  SeatsExact says nothing while a change is under way  *)
(* and is not inductive: what was counted must still be right when it is   *)
(* written, and what was written when it commits (Apart, Exact).           *)
(***************************************************************************)

Committing == {"accept_commit", "remove_commit"}

\* The members of o once the change u has begun is committed.
After(u, o) == IF pc[u] \in Accepting THEN Members(o) \cup {u}
               ELSE Members(o) \ {req[u].target}

\* Without overlap a change or a reconciliation is alone with the members it counted.
Apart(o) ==
    "overlap" \notin drift[o] =>
       /\ \A u, v \in InFlight(o) : u = v
       /\ \A u \in InFlight(o) : req[u].seats = Cardinality(After(u, o))
       /\ rec[o] # 0 => InFlight(o) = {} /\ rec[o] = Cardinality(Members(o))

\* Without drift the provider bills the members, or those that the one change about to
\* commit leaves, and nothing is there to reconcile.
Exact(o) ==
    drift[o] = {} =>
       /\ rec[o] = 0
       /\ \A u \in InFlight(o) : pc[u] \in Committing => quantity[o] = req[u].seats
       /\ (\A u \in InFlight(o) : pc[u] \notin Committing)
             => quantity[o] = Cardinality(Members(o))

\* Without overlap, and with every addition asked of the limit, neither the members nor an
\* acceptance about to commit pass it.
Within(o) ==
    {"overlap", "unchecked"} \cap drift[o] = {} =>
       /\ Cardinality(Members(o)) <= SeatLimit
       /\ \A u \in InFlight(o) : pc[u] = "accept_commit" => req[u].seats <= SeatLimit

\* A live organization whose subscription lives, at the provider if not in its local row.
Seated(o) == life[o] = "live" /\ sub[o] = "live"

\* Nothing is subscribed before it is founded; a role that is asked for exists.
Subscribed ==
    /\ \A o \in Orgs : life[o] = "unborn" => sub[o] # "live"
    /\ \A u \in Users : pc[u] = "role" => req[u].next \in Roles

Billing ==
    /\ TypeOK /\ Addressed /\ Subscribed
    /\ \A o \in Orgs : Seated(o) => Apart(o) /\ Exact(o)
Limited == \A o \in Orgs : Seated(o) => Within(o)

\* Nothing is subscribed before it exists, and no request is under way.
LEMMA InitBilling == Init => Billing
<1> SUFFICES ASSUME Init PROVE Billing
  OBVIOUS
<1>1. TypeOK /\ Addressed
  BY InitTypes, InitAddressed
<1>2. Subscribed
  BY OrganizationsAssumption DEF Init, Subscribed
<1>3. ASSUME NEW o \in Orgs, Seated(o) PROVE Apart(o) /\ Exact(o)
  <2>1. InFlight(o) = {} /\ rec[o] = 0
    BY DEF Init, InFlight, InTransaction
  <2>2. quantity[o] = Cardinality(Members(o))
    BY <1>3 DEF Init, Members, Seated
  <2> QED BY <2>1, <2>2 DEF Apart, Exact
<1> QED BY <1>1, <1>2, <1>3 DEF Billing

\* Every step keeps subscriptions to founded organizations.
LEMMA StepSubscribed ==
    ASSUME TypeOK, Addressed, Subscribed, [Next]_vars
    PROVE  Subscribed'
<1> USE DEF TypeOK, Subscribed
<1>1. ASSUME \A o \in Orgs : life'[o] = "unborn" => life[o] = "unborn",
             \A o \in Orgs : sub'[o] = "live" => sub[o] = "live", NEW u \in Users,
             NEW p \in Pcs \ {"role"}, NEW r,
             pc' = [pc EXCEPT ![u] = p], req' = [req EXCEPT ![u] = r] \/ req' = req
      PROVE  Subscribed'
  BY <1>1
<1>2. ASSUME NEW u \in Users, NEW o \in Orgs, CreateOrganization(u, o) PROVE Subscribed'
  BY <1>2 DEF CreateOrganization, provider
<1>3. ASSUME NEW u \in Users, NEW o \in Orgs, NEW t \in Users, NEW r \in Roles, RoleBegin(u, o, t, r)
      PROVE  Subscribed'
  BY <1>3 DEF RoleBegin, Begin, NoReq, membership, provider
<1>4. ASSUME NEW u \in Users, DeleteCancel(u) PROVE Subscribed'
  <2>1. life' = life /\ \A o \in Orgs : sub'[o] = "live" => sub[o] = "live"
    BY <1>4 DEF DeleteCancel, membership
  <2>2. CASE pc' = [pc EXCEPT ![u] = "delete_cancelled"] /\ UNCHANGED req
    BY <1>1, <2>1, <2>2 DEF Pcs
  <2>3. CASE Finish(u)
    BY <1>1, <2>1, <2>3 DEF Finish, Begin, Pcs
  <2> QED BY <1>4, <2>2, <2>3 DEF DeleteCancel
<1>5. ASSUME NEW u \in Users, DeletePurge(u) PROVE Subscribed'
  BY <1>5 DEF DeletePurge, Finish, Begin
<1>6. ASSUME NEW u \in Users, Requested(u) PROVE Subscribed'
  <2>1. ASSUME UNCHANGED <<life, sub>>, NEW p \in Pcs \ {"role"}, NEW r, Begin(u, p, r)
        PROVE  Subscribed'
    BY <2>1, <1>1 DEF Begin
  <2> QED BY <1>6, <1>2, <1>3, <2>1
      DEF Requested, DeleteBegin, InviteBegin, RemoveBegin, RevokeBegin, AcceptBegin,
          ReissueBegin, PurgeBegin, membership, provider, Pcs, InTransaction
<1>7. ASSUME NEW u \in Users, LockSteps(u) PROVE Subscribed'
  <2>1. ASSUME RemoveLock(u) PROVE Subscribed'
    BY <2>1, <1>1 DEF RemoveLock, Finish, Begin, membership, provider, Pcs, InTransaction
  <2>2. ASSUME RoleApply(u) PROVE Subscribed'
    BY <2>2 DEF RoleApply, Finish, Begin, provider
  <2>3. ASSUME NEW o \in Orgs, PurgeLock(u, o) PROVE Subscribed'
    BY <2>3 DEF PurgeLock, membership, provider
  <2> QED BY <1>7, <2>1, <2>2, <2>3 DEF LockSteps
<1>8. ASSUME NEW u \in Users, ServerSteps(u) PROVE Subscribed'
  <2>1. CASE UNCHANGED <<life, sub>> /\ Finish(u)
    BY <2>1, <1>1 DEF Finish, Begin, Pcs
  <2>2. CASE AcceptSync(u) \/ RemoveSync(u)
    BY <2>1, <2>2, <1>1
       DEF AcceptSync, RemoveSync, SyncSeats, membership, provider, Pcs, InTransaction
  <2>3. CASE PurgeCount(u)
    BY <2>1, <2>3, <1>1 DEF PurgeCount, membership, provider, Pcs
  <2>4. CASE PurgeDelete(u)
    BY <2>4, <1>1 DEF PurgeDelete, Begin, provider, Pcs
  <2> QED BY <1>4, <1>5, <1>8, <2>1, <2>2, <2>3, <2>4
      DEF ServerSteps, InviteWrite, ReissueWrite, RevokeWrite, AcceptCommit, RemoveCommit,
          PurgeMail, membership, provider
<1>9. ASSUME NEW u \in Users, Crash(u) PROVE Subscribed'
  BY <1>9, <1>1 DEF Crash, Finish, Begin, membership, provider, Pcs
<1>10. CASE Environment
  BY <1>10 DEF Environment, Expire, ForgetKeys, ProviderCancels, CacheMoves, ReconcileRead,
               ReconcileWrite, membership, provider
<1>11. CASE UNCHANGED vars
  BY <1>11 DEF vars
<1> QED BY <1>6, <1>7, <1>8, <1>9, <1>10, <1>11 DEF Next

\* What a step must keep about the seats of one organization.
Carried(o) == Apart(o)' /\ Exact(o)' /\ (Within(o) => Within(o)')

\* A subscribed organization whose parts were carried over one step.
Ready(o) == o \in Orgs /\ Seated(o) /\ Apart(o) /\ Exact(o)

\* A step that admits and removes nobody, counts nothing and writes no seats of o.
LEMMA Uncounted ==
    ASSUME TypeOK, NEW o, Ready(o),
           \A u \in Users : role'[o][u] = None <=> role[o][u] = None,
           quantity'[o] = quantity[o], rec'[o] = rec[o], drift'[o] = drift[o],
           \A u \in Users :
              \/ pc'[u] = pc[u] /\ req'[u] = req[u]
              \/ /\ pc[u] \notin InTransaction \/ req[u].org # o
                 /\ pc'[u] \notin InTransaction \/ req'[u].org # o
    PROVE  Carried(o)
<1>1. Members(o)' = Members(o)
  BY DEF Members
<1>2. InFlight(o)' = InFlight(o)
  BY DEF InFlight
<1>3. \A u \in InFlight(o) : pc'[u] = pc[u] /\ req'[u] = req[u]
  BY DEF InFlight
<1>4. \A u \in InFlight(o) : After(u, o)' = After(u, o)
  BY <1>1, <1>3 DEF After
<1>5. Apart(o)' BY <1>1, <1>2, <1>3, <1>4 DEF Apart, Ready
<1>6. Exact(o)' BY <1>1, <1>2, <1>3 DEF Exact, Ready
<1>7. Within(o) => Within(o)' BY <1>1, <1>2, <1>3 DEF Within
<1> QED BY <1>5, <1>6, <1>7 DEF Carried

\* A change begins: who begins it has counted what it will leave behind.
LEMMA BeginSeats ==
    ASSUME TypeOK, NEW o, Ready(o), NEW u \in Users, pc[u] \notin InTransaction,
           NEW p \in {"accept_sync", "remove_sync"}, NEW r \in Requests, r.org = o,
           Begin(u, p, r), NoteOverlap(o), UNCHANGED <<role, rec, quantity>>,
           r.seats = Cardinality(IF p = "accept_sync" THEN Members(o) \cup {u}
                                 ELSE Members(o) \ {r.target})
    PROVE  Carried(o)
<1>1. Members(o)' = Members(o)
  BY DEF Members
<1>2. InFlight(o)' = InFlight(o) \cup {u} /\ pc'[u] = p /\ req'[u] = r
  BY DEF InFlight, Begin, TypeOK, InTransaction
<1>3. "overlap" \notin drift'[o] => InFlight(o) = {} /\ rec[o] = 0 /\ drift'[o] = drift[o]
  BY DEF NoteOverlap, SeatsQuiet, TypeOK, Ready
<1>4. After(u, o)' = IF p = "accept_sync" THEN Members(o) \cup {u} ELSE Members(o) \ {r.target}
  BY <1>1, <1>2 DEF After, Accepting
<1>5. Apart(o)'
  BY <1>1, <1>2, <1>3, <1>4 DEF Apart
<1>6. Exact(o)'
  BY <1>1, <1>2, <1>3 DEF Exact, Ready, Committing
<1>7. Within(o) => Within(o)'
  BY <1>1, <1>2, <1>3 DEF Within
<1> QED BY <1>5, <1>6, <1>7 DEF Carried

\* A change ends without having been written: whatever it counted is forgotten.
LEMMA WithdrawSeats ==
    ASSUME TypeOK, NEW o, Ready(o), NEW u \in Users, u \in InFlight(o), Finish(u),
           UNCHANGED <<role, rec>>,
           \/ drift'[o] = drift[o] /\ quantity'[o] = quantity[o] /\ pc[u] \notin Committing
           \/ "lost" \in drift'[o] /\ drift[o] \subseteq drift'[o]
    PROVE  Carried(o)
<1>1. Members(o)' = Members(o)
  BY DEF Members
<1>2. InFlight(o)' = InFlight(o) \ {u}
  BY DEF InFlight, Finish, Begin, TypeOK, InTransaction
<1>3. \A v \in InFlight(o) \ {u} : pc'[v] = pc[v] /\ req'[v] = req[v] /\ After(v, o)' = After(v, o)
  BY <1>1 DEF InFlight, Finish, Begin, TypeOK, After
<1>4. Apart(o)'
  BY <1>1, <1>2, <1>3 DEF Apart, Ready
<1>5. Exact(o)'
  <2> SUFFICES ASSUME drift'[o] = {} PROVE Exact(o)'
    BY DEF Exact
  <2>1. drift[o] = {} /\ quantity'[o] = quantity[o] /\ pc[u] \notin Committing
    OBVIOUS
  <2>2. InFlight(o) = {u}
    BY <2>1 DEF Apart, Ready
  <2>3. quantity[o] = Cardinality(Members(o)) /\ rec[o] = 0
    BY <2>1, <2>2 DEF Exact, Ready
  <2> QED BY <1>1, <1>2, <2>1, <2>2, <2>3 DEF Exact
<1>6. Within(o) => Within(o)'
  BY <1>1, <1>2, <1>3 DEF Within
<1> QED BY <1>4, <1>5, <1>6 DEF Carried

\* A change is written at the provider and goes on to its commit.
LEMMA WriteSeats ==
    ASSUME TypeOK, NEW o, Ready(o), NEW u \in Users, u \in InFlight(o),
           pc[u] \in {"accept_sync", "remove_sync"},
           pc' = [pc EXCEPT ![u] = IF pc[u] = "accept_sync" THEN "accept_commit"
                                   ELSE "remove_commit"],
           ProviderWrites(o, req[u].seats),
           drift' = [drift EXCEPT ![o] = @ \cup ReplayOf(o, req[u].seats)],
           ~ OverLimit(pc[u] = "accept_sync", req[u].seats),
           UNCHANGED <<role, rec, req>>
    PROVE  Carried(o)
<1>1. Members(o)' = Members(o)
  BY DEF Members
<1>2. InFlight(o)' = InFlight(o)
  BY DEF InFlight, TypeOK, InTransaction
<1>3. \A v \in InFlight(o) : After(v, o)' = After(v, o)
  BY <1>1 DEF After, InFlight, TypeOK, Accepting
<1>4. drift[o] \subseteq drift'[o]
  BY DEF TypeOK, Ready
<1>5. Apart(o)'
  BY <1>1, <1>2, <1>3, <1>4 DEF Apart, Ready
<1>6. Exact(o)'
  <2> SUFFICES ASSUME drift'[o] = {} PROVE Exact(o)'
    BY DEF Exact
  <2>1. drift[o] = {} /\ InFlight(o) = {u} /\ rec[o] = 0
    BY <1>4 DEF Apart, Exact, Ready
  <2>2. quantity'[o] = req[u].seats
    BY DEF ProviderWrites, ReplayOf, TypeOK, Ready
  <2>3. pc'[u] \in Committing
    BY DEF TypeOK, Committing
  <2> QED BY <1>2, <2>1, <2>2, <2>3 DEF Exact
<1>7. Within(o) => Within(o)'
  <2> SUFFICES ASSUME Within(o), {"overlap", "unchecked"} \cap drift'[o] = {} PROVE Within(o)'
    BY DEF Within
  <2>1. {"overlap", "unchecked"} \cap drift[o] = {}
    BY <1>4
  <2>2. ASSUME NEW v \in InFlight(o), pc'[v] = "accept_commit" PROVE req[v].seats <= SeatLimit
    <3>1. CASE v = u
      BY <2>2, <3>1, OrganizationsAssumption DEF OverLimit, TypeOK, Requests
    <3>2. CASE v # u
      BY <2>1, <2>2, <3>2 DEF Within, TypeOK, InFlight
    <3> QED BY <3>1, <3>2
  <2> QED BY <1>1, <1>2, <2>1, <2>2 DEF Within
<1> QED BY <1>5, <1>6, <1>7 DEF Carried

\* A change goes on to its commit under a local row that grants nothing.
LEMMA SkipSeats ==
    ASSUME TypeOK, NEW o, Ready(o), NEW u \in Users, u \in InFlight(o),
           pc[u] \in {"accept_sync", "remove_sync"},
           pc' = [pc EXCEPT ![u] = IF pc[u] = "accept_sync" THEN "accept_commit"
                                   ELSE "remove_commit"],
           drift' = [drift EXCEPT ![o] = @ \cup Unsynced(o, pc[u] = "accept_sync")],
           UNCHANGED <<role, rec, req>>
    PROVE  Carried(o)
<1>1. Members(o)' = Members(o)
  BY DEF Members
<1>2. InFlight(o)' = InFlight(o)
  BY DEF InFlight, TypeOK, InTransaction
<1>3. \A v \in InFlight(o) : After(v, o)' = After(v, o)
  BY <1>1 DEF After, InFlight, TypeOK, Accepting
<1>4. /\ drift[o] \subseteq drift'[o] /\ "unwritten" \in drift'[o]
      /\ pc[u] = "accept_sync" => "unchecked" \in drift'[o]
  BY DEF TypeOK, Ready, Seated, Unsynced
<1>5. Apart(o)'
  BY <1>1, <1>2, <1>3, <1>4 DEF Apart, Ready
<1>6. Exact(o)'
  BY <1>4 DEF Exact
<1>7. Within(o) => Within(o)'
  <2> SUFFICES ASSUME Within(o), {"overlap", "unchecked"} \cap drift'[o] = {} PROVE Within(o)'
    BY DEF Within
  <2>1. {"overlap", "unchecked"} \cap drift[o] = {} /\ pc[u] = "remove_sync"
    BY <1>4
  <2>2. \A v \in InFlight(o) : pc'[v] = "accept_commit" => pc[v] = "accept_commit"
    BY <2>1 DEF TypeOK, InFlight
  <2> QED BY <1>1, <1>2, <2>1, <2>2 DEF Within
<1> QED BY <1>5, <1>6, <1>7 DEF Carried

\* A change commits: the members are those it counted, and those the provider was told.
LEMMA CommitSeats ==
    ASSUME TypeOK, NEW o, Ready(o), NEW u \in Users, u \in InFlight(o),
           pc[u] \in Committing, Finish(u), Members(o)' = After(u, o),
           UNCHANGED <<rec, quantity, drift>>
    PROVE  Carried(o)
<1>1. InFlight(o)' = InFlight(o) \ {u}
  BY DEF InFlight, Finish, Begin, TypeOK, InTransaction
<1>2. "overlap" \notin drift[o] =>
         /\ InFlight(o)' = {} /\ rec[o] = 0
         /\ Cardinality(Members(o)') = req[u].seats
  BY <1>1 DEF Apart, Ready
<1>3. Apart(o)'
  BY <1>2 DEF Apart
<1>4. Exact(o)'
  <2>1. drift[o] = {} => quantity[o] = req[u].seats
    BY DEF Exact, Ready
  <2> QED BY <1>2, <2>1 DEF Exact
<1>5. Within(o) => Within(o)'
  <2> SUFFICES ASSUME Within(o), {"overlap", "unchecked"} \cap drift[o] = {} PROVE Within(o)'
    BY DEF Within
  <2>1. Cardinality(Members(o)') <= SeatLimit
    <3>1. CASE pc[u] = "accept_commit"
      BY <1>2, <3>1 DEF Within
    <3>2. CASE pc[u] = "remove_commit"
      <4>1. Members(o)' \subseteq Members(o) /\ Members(o) \in SUBSET Users
        BY <3>2 DEF After, Accepting, Members
      <4>2. IsFiniteSet(Members(o))
        BY <4>1, OrganizationsAssumption, FS_Subset
      <4>3. /\ Cardinality(Members(o)') <= Cardinality(Members(o))
            /\ Cardinality(Members(o)) \in Nat /\ Cardinality(Members(o)') \in Nat
        BY <4>1, <4>2, FS_Subset, FS_CardinalityType
      <4>4. Cardinality(Members(o)) <= SeatLimit
        BY DEF Within
      <4> QED BY <4>3, <4>4, OrganizationsAssumption
    <3> QED BY <3>1, <3>2 DEF Committing
  <2> QED BY <1>2, <2>1 DEF Within
<1> QED BY <1>3, <1>4, <1>5 DEF Carried

\* The purge of an account takes its seats away and tells the provider nothing.
LEMMA PurgeSeats ==
    ASSUME TypeOK, NEW o, Ready(o), NEW u \in Users, PurgeDelete(u)
    PROVE  Carried(o)
<1>1. CASE role[o][u] = None
  <2>1. pc[u] \notin InTransaction /\ pc'[u] \notin InTransaction
    BY DEF PurgeDelete, Begin, TypeOK, InTransaction
  <2> QED BY <1>1, <2>1, Uncounted DEF PurgeDelete, Begin, TypeOK, Ready, provider
<1>2. CASE role[o][u] # None
  <2>1. /\ "purge" \in drift'[o]
        /\ "overlap" \notin drift'[o] => InFlight(o) = {} /\ rec[o] = 0 /\ "overlap" \notin drift[o]
    BY <1>2 DEF PurgeDelete, SeatsQuiet, TypeOK, Ready
  <2>2. InFlight(o)' = InFlight(o) /\ rec' = rec
    BY DEF PurgeDelete, Begin, InFlight, TypeOK, InTransaction
  <2>3. Apart(o)' /\ Exact(o)'
    BY <2>1, <2>2 DEF Apart, Exact
  <2>4. Within(o) => Within(o)'
    <3>1. Members(o)' \subseteq Members(o) /\ Members(o) \in SUBSET Users
      BY DEF PurgeDelete, Members, TypeOK, Ready
    <3>2. IsFiniteSet(Members(o))
      BY <3>1, OrganizationsAssumption, FS_Subset
    <3>3. /\ Cardinality(Members(o)') <= Cardinality(Members(o))
          /\ Cardinality(Members(o)) \in Nat /\ Cardinality(Members(o)') \in Nat
      BY <3>1, <3>2, FS_Subset, FS_CardinalityType
    <3>4. drift[o] \subseteq drift'[o]
      BY DEF PurgeDelete, TypeOK, Ready
    <3>5. Within(o) /\ {"overlap", "unchecked"} \cap drift'[o] = {}
             => Cardinality(Members(o)') <= SeatLimit
      BY <3>3, <3>4, OrganizationsAssumption DEF Within
    <3> QED BY <2>1, <2>2, <3>4, <3>5 DEF Within
  <2> QED BY <2>3, <2>4 DEF Carried
<1> QED BY <1>1, <1>2

\* A reconciliation reads the members: it never has to when nothing drifted.
LEMMA ReconcileReadSeats ==
    ASSUME TypeOK, NEW o, Ready(o), ReconcileRead(o)
    PROVE  Carried(o)
<1>1. Members(o)' = Members(o) /\ InFlight(o)' = InFlight(o)
  BY DEF ReconcileRead, membership, Members, InFlight
<1>2. "overlap" \notin drift'[o] => InFlight(o) = {} /\ drift'[o] = drift[o]
  BY DEF ReconcileRead, NoteOverlap, SeatsQuiet, TypeOK, Ready
<1>3. rec'[o] = Cardinality(Members(o)) /\ quantity[o] # Cardinality(Members(o))
  BY DEF ReconcileRead, TypeOK, Ready
<1>4. Apart(o)'
  BY <1>1, <1>2, <1>3 DEF Apart
<1>5. Exact(o)'
  <2>1. drift'[o] # {}
    BY <1>2, <1>3 DEF Exact, Ready
  <2> QED BY <2>1 DEF Exact
<1>6. Within(o) => Within(o)'
  BY <1>1, <1>2 DEF Within
<1> QED BY <1>4, <1>5, <1>6 DEF Carried

\* A reconciliation that ran alone bills the members.
LEMMA ReconcileWriteSeats ==
    ASSUME TypeOK, NEW o, Ready(o), ReconcileWrite(o)
    PROVE  Carried(o)
<1>1. /\ Members(o)' = Members(o) /\ InFlight(o)' = InFlight(o) /\ rec'[o] = 0 /\ rec[o] # 0
      /\ pc' = pc /\ req' = req
  BY DEF ReconcileWrite, membership, Members, InFlight, TypeOK, Ready
<1>2. \A u \in InFlight(o) : After(u, o)' = After(u, o)
  BY <1>1 DEF After
<1>3. {"overlap", "unchecked"} \cap drift[o] \subseteq drift'[o]
  BY SMTT(20) DEF ReconcileWrite, TypeOK, Ready
<1>4. Apart(o)'
  BY <1>1, <1>2, <1>3 DEF Apart, Ready
<1>5. Exact(o)'
  <2> SUFFICES ASSUME drift'[o] = {} PROVE Exact(o)'
    BY DEF Exact
  <2>1. InFlight(o) = {} /\ rec[o] = Cardinality(Members(o))
    BY <1>1, <1>3 DEF Apart, Ready
  <2>2. drift[o] # {}
    BY <1>1 DEF Exact, Ready
  <2>3. quantity'[o] = rec[o]
    BY <2>2 DEF ReconcileWrite, ProviderWrites, TypeOK, Ready
  <2> QED BY <1>1, <2>1, <2>3 DEF Exact
<1>6. Within(o) => Within(o)'
  BY <1>1, <1>3 DEF Within
<1> QED BY <1>4, <1>5, <1>6 DEF Carried

\* A subscription never comes back to life.
LEMMA SubscriptionsEnd ==
    ASSUME TypeOK, [Next]_vars, NEW o \in Orgs, sub'[o] = "live"
    PROVE  sub[o] = "live"
<1>1. ASSUME NEW u \in Users, DeleteCancel(u) PROVE sub[o] = "live"
  BY <1>1 DEF DeleteCancel, TypeOK
<1>2. ASSUME NEW u \in Users, Requested(u) PROVE UNCHANGED sub
  BY <1>2
     DEF Requested, CreateOrganization, DeleteBegin, InviteBegin, RemoveBegin, RoleBegin,
         RevokeBegin, AcceptBegin, ReissueBegin, PurgeBegin, provider
<1>3. ASSUME NEW u \in Users, LockSteps(u) PROVE UNCHANGED sub
  BY <1>3 DEF LockSteps, RemoveLock, RoleApply, PurgeLock, provider
<1>4. ASSUME NEW u \in Users, ServerSteps(u) PROVE UNCHANGED sub \/ DeleteCancel(u)
  <2>1. AcceptSync(u) \/ RemoveSync(u) => UNCHANGED sub
    BY DEF AcceptSync, RemoveSync, SyncSeats, provider
  <2> QED BY <1>4, <2>1
      DEF ServerSteps, InviteWrite, ReissueWrite, RevokeWrite, AcceptCommit, RemoveCommit,
          DeletePurge, PurgeCount, PurgeDelete, PurgeMail, provider
<1>5. ASSUME Environment \/ \E u \in Users : Crash(u) PROVE sub[o] = "live"
  BY <1>5 DEF Environment, Expire, ForgetKeys, ProviderCancels, CacheMoves, ReconcileRead,
              ReconcileWrite, Crash, provider, TypeOK
<1> QED BY <1>1, <1>2, <1>3, <1>4, <1>5 DEF Next, vars

\* An organization that lives and is subscribed after a step was so before it.
LEMMA SeatedBefore ==
    ASSUME Billing, [Next]_vars, NEW o \in Orgs, Seated(o)'
    PROVE  Seated(o)
<1> USE DEF TypeOK
<1>1. sub[o] = "live" /\ life[o] # "unborn"
  BY SubscriptionsEnd DEF Billing, Subscribed, Seated
<1>2. TypeOK
  BY DEF Billing
<1>3. ASSUME NEW u \in Users, Requested(u) PROVE life[o] = "live"
  <2>1. ASSUME NEW p \in Orgs, CreateOrganization(u, p) PROVE life[o] = "live"
    BY <1>1, <1>2, <2>1 DEF CreateOrganization, Seated
  <2> QED BY <1>3, <2>1
      DEF Requested, DeleteBegin, InviteBegin, RemoveBegin, RoleBegin, RevokeBegin,
          AcceptBegin, ReissueBegin, PurgeBegin, membership, Seated
<1>4. ASSUME NEW u \in Users, LockSteps(u) PROVE life[o] = "live"
  BY <1>4 DEF LockSteps, RemoveLock, RoleApply, PurgeLock, membership, Seated
<1>5. ASSUME NEW u \in Users, ServerSteps(u) PROVE life[o] = "live"
  <2>1. ASSUME DeletePurge(u) PROVE life[o] = "live"
    BY <1>2, <2>1 DEF DeletePurge, Seated
  <2> QED BY <1>5, <2>1
      DEF ServerSteps, InviteWrite, ReissueWrite, RevokeWrite, AcceptSync, AcceptCommit,
          RemoveSync, RemoveCommit, DeleteCancel, PurgeCount, PurgeDelete, PurgeMail,
          membership, Seated
<1>6. ASSUME Environment \/ \E u \in Users : Crash(u) PROVE life[o] = "live"
  BY <1>6 DEF Environment, Expire, ForgetKeys, ProviderCancels, CacheMoves, ReconcileRead,
              ReconcileWrite, Crash, membership, Seated
<1>7. CASE UNCHANGED vars
  BY <1>7 DEF vars, Seated
<1> QED BY <1>1, <1>3, <1>4, <1>5, <1>6, <1>7 DEF Next, Seated

\* The seats of a subscribed organization, through every request.
LEMMA RequestedSeats ==
    ASSUME Billing, NEW o, Ready(o), NEW u \in Users, Requested(u)
    PROVE  Carried(o)
<1> USE DEF membership, provider
<1>1. TypeOK /\ o \in Orgs /\ life[o] = "live"
  BY DEF Billing, Ready, Seated
<1>2. ASSUME NEW p \in Orgs, CreateOrganization(u, p) PROVE Carried(o)
  <2>1. o # p
    BY <1>1, <1>2 DEF CreateOrganization
  <2> QED BY <1>1, <1>2, <2>1, Uncounted DEF CreateOrganization, TypeOK
<1>3. ASSUME NEW p \in Pcs \ InTransaction, NEW r, pc[u] = "idle", Begin(u, p, r),
             UNCHANGED <<role, quantity, rec, drift>>
      PROVE  Carried(o)
  BY <1>1, <1>3, Uncounted DEF Begin, TypeOK, InTransaction
<1>4. ASSUME NEW i \in Invs, AcceptBegin(u, i) PROVE Carried(o)
  <2> DEFINE q == inv[i].org
             r == [NoReq EXCEPT !.org = q, !.inv = i, !.seats = Cardinality(Members(q) \cup {u})]
  <2>1. CASE q = o
    <3>1. Cardinality(Members(o) \cup {u}) \in Nat
      BY HeadCount DEF Members
    <3>2. r \in Requests /\ r.org = o /\ r.seats = Cardinality(Members(o) \cup {u})
      BY <1>1, <2>1, <3>1 DEF NoReq, Requests
    <3>3. pc[u] \notin InTransaction /\ Begin(u, "accept_sync", r) /\ NoteOverlap(o)
          /\ UNCHANGED <<role, rec, quantity>>
      BY <1>4, <2>1 DEF AcceptBegin, Idle, InTransaction
    <3> HIDE DEF r
    <3> QED BY <1>1, <3>2, <3>3, BeginSeats
  <2>2. CASE q # o
    <3>1. drift'[o] = drift[o]
      BY <1>1, <1>4, <2>2 DEF AcceptBegin, NoteOverlap, TypeOK
    <3>2. \A v \in Users : \/ pc'[v] = pc[v] /\ req'[v] = req[v]
                           \/ pc[v] \notin InTransaction /\ req'[v].org # o
      BY <1>1, <1>4, <2>2 DEF AcceptBegin, Idle, Begin, NoReq, TypeOK, InTransaction
    <3> QED BY <1>1, <1>4, <3>1, <3>2, Uncounted DEF AcceptBegin
  <2> QED BY <2>1, <2>2
<1>5. ASSUME NEW p \in Orgs, NEW t \in Users, InviteBegin(u, p, t) \/ RemoveBegin(u, p, t)
      PROVE  Carried(o)
  BY <1>3, <1>5 DEF InviteBegin, RemoveBegin, Idle, Pcs, InTransaction
<1>6. ASSUME NEW p \in Orgs, NEW t \in Users, NEW r \in Roles, RoleBegin(u, p, t, r)
      PROVE  Carried(o)
  BY <1>3, <1>6 DEF RoleBegin, Idle, Pcs, InTransaction
<1>7. ASSUME NEW p \in Orgs, DeleteBegin(u, p) PROVE Carried(o)
  BY <1>3, <1>7 DEF DeleteBegin, Idle, Pcs, InTransaction
<1>8. ASSUME NEW i \in Invs, NEW j \in Invs, RevokeBegin(u, i) \/ ReissueBegin(u, i, j)
      PROVE  Carried(o)
  BY <1>3, <1>8 DEF RevokeBegin, ReissueBegin, Idle, Pcs, InTransaction
<1>9. ASSUME PurgeBegin(u) PROVE Carried(o)
  BY <1>3, <1>9 DEF PurgeBegin, Idle, Pcs, InTransaction
<1> QED BY <1>2, <1>4, <1>5, <1>6, <1>7, <1>8, <1>9 DEF Requested

\* Through every step that takes a lock.
LEMMA LockSeats ==
    ASSUME Billing, NEW o, Ready(o), NEW u \in Users, LockSteps(u)
    PROVE  Carried(o)
<1> USE DEF membership, provider
<1>1. TypeOK /\ Addressed /\ Subscribed /\ o \in Orgs
  BY DEF Billing, Ready
<1>2. ASSUME RemoveLock(u), Removable(u) PROVE Carried(o)
  <2> DEFINE q == req[u].org
             r == [req[u] EXCEPT !.seats = SeatsWithout(q, req[u].target)]
  <2>0. /\ pc[u] = "remove" /\ Begin(u, "remove_sync", r) /\ NoteOverlap(q)
        /\ UNCHANGED <<role, rec, quantity>>
    BY <1>2 DEF RemoveLock
  <2>1. CASE q = o
    <3>1. Cardinality(Members(o) \ {req[u].target}) \in Nat
      BY HeadCount DEF Members
    <3>2. /\ r \in Requests /\ r.org = o /\ r.target = req[u].target
          /\ r.seats = Cardinality(Members(o) \ {req[u].target})
      BY ZenonT(40), <1>1, <2>1, <3>1 DEF TypeOK, Requests, SeatsWithout
    <3>3. pc[u] \notin InTransaction /\ NoteOverlap(o)
      BY <2>0, <2>1 DEF InTransaction
    <3> HIDE DEF r
    <3> QED BY <1>1, <2>0, <3>2, <3>3, BeginSeats
  <2>2. CASE q # o
    <3>1. drift'[o] = drift[o]
      BY <1>1, <2>0, <2>2 DEF NoteOverlap, TypeOK
    <3>2. \A v \in Users : \/ pc'[v] = pc[v] /\ req'[v] = req[v]
                           \/ pc[v] \notin InTransaction /\ req'[v].org # o
      BY <1>1, <2>0, <2>2 DEF Begin, TypeOK, Requests, InTransaction
    <3> QED BY <1>1, <2>0, <3>1, <3>2, Uncounted
  <2> QED BY <2>1, <2>2
<1>3. ASSUME RemoveLock(u), ~ Removable(u) PROVE Carried(o)
  BY <1>1, <1>3, Uncounted DEF RemoveLock, Finish, Begin, TypeOK, InTransaction
<1>4. ASSUME RoleApply(u) PROVE Carried(o)
  <2> DEFINE q == req[u].org
             t == req[u].target
  <2>0. pc[u] = "role" /\ Finish(u) /\ UNCHANGED <<quantity, rec, drift>>
    BY <1>4 DEF RoleApply
  <2>1. q \in Orgs /\ t \in Users /\ req[u].next \in Roles
    BY <1>1, <2>0 DEF Addressed, Subscribed
  <2>2. \A v \in Users : role'[o][v] = None <=> role[o][v] = None
    <3>1. CASE role[q][t] # None /\ role' = Transferred(q, u, t)
      BY <1>1, <2>1, <3>1 DEF Transferred, TypeOK, None
    <3>2. CASE role[q][t] # None /\ role' = [role EXCEPT ![q][t] = req[u].next]
      BY <1>1, <2>1, <3>2 DEF TypeOK, Roles, None
    <3>3. CASE UNCHANGED role
      BY <3>3
    <3> QED BY <1>4, <3>1, <3>2, <3>3 DEF RoleApply
  <2>3. \A v \in Users : \/ pc'[v] = pc[v] /\ req'[v] = req[v]
                         \/ pc[v] \notin InTransaction /\ pc'[v] \notin InTransaction
    BY <1>1, <2>0 DEF Finish, Begin, TypeOK, InTransaction
  <2> QED BY <1>1, <2>0, <2>2, <2>3, Uncounted
<1>5. ASSUME NEW p \in Orgs, PurgeLock(u, p) PROVE Carried(o)
  BY <1>1, <1>5, Uncounted DEF PurgeLock
<1> QED BY <1>2, <1>3, <1>4, <1>5 DEF LockSteps, RemoveLock

\* Through the synchronization of the seats, answered, refused or not heard of.
LEMMA SyncedSeats ==
    ASSUME Billing, NEW o, Ready(o), NEW u \in Users, AcceptSync(u) \/ RemoveSync(u)
    PROVE  Carried(o)
<1> DEFINE q == req[u].org
           adds == pc[u] = "accept_sync"
           next == IF pc[u] = "accept_sync" THEN "accept_commit" ELSE "remove_commit"
<1>1. TypeOK /\ o \in Orgs /\ sub[o] = "live"
  BY DEF Billing, Ready, Seated
<1>2. /\ pc[u] \in {"accept_sync", "remove_sync"} /\ SyncSeats(u, adds, next)
      /\ UNCHANGED <<role, rec>>
  BY DEF AcceptSync, RemoveSync, membership
<1>3. CASE q # o
  <2>1. \A v \in Users : \/ pc'[v] = pc[v] /\ req'[v] = req[v]
                         \/ req[v].org # o /\ (pc'[v] \notin InTransaction \/ req'[v].org # o)
    BY <1>1, <1>2, <1>3 DEF SyncSeats, Finish, Begin, TypeOK, InTransaction
  <2>2. quantity'[o] = quantity[o] /\ drift'[o] = drift[o]
    BY <1>1, <1>2, <1>3 DEF SyncSeats, ProviderWrites, TypeOK, provider
  <2> QED BY <1>1, <1>2, <2>1, <2>2, Uncounted
<1>4. CASE q = o
  <2>1. u \in InFlight(o)
    BY <1>2, <1>4 DEF InFlight, InTransaction
  <2>2. CASE Finish(u) /\ UNCHANGED <<provider, drift>>
    BY <1>1, <1>2, <2>1, <2>2, WithdrawSeats DEF provider, Committing
  <2>3. CASE /\ ~ OverLimit(adds, req[u].seats) /\ ProviderWrites(o, req[u].seats)
             /\ drift' = [drift EXCEPT ![o] = @ \cup ReplayOf(o, req[u].seats)]
             /\ pc' = [pc EXCEPT ![u] = next] /\ UNCHANGED req
    BY <1>1, <1>2, <2>1, <2>3, WriteSeats
  <2>4. CASE Finish(u) /\ drift' = [drift EXCEPT ![o] = @ \cup {"lost"}]
    <3>1. "lost" \in drift'[o] /\ drift[o] \subseteq drift'[o]
      BY <1>1, <2>4 DEF TypeOK
    <3> QED BY <1>1, <1>2, <2>1, <2>4, <3>1, WithdrawSeats
  <2>5. CASE /\ drift' = [drift EXCEPT ![o] = @ \cup Unsynced(o, adds)]
             /\ pc' = [pc EXCEPT ![u] = next] /\ UNCHANGED req
    BY <1>1, <1>2, <2>1, <2>5, SkipSeats
  <2> QED BY <1>1, <1>2, <1>4, <2>2, <2>3, <2>4, <2>5 DEF SyncSeats
<1> QED BY <1>3, <1>4

\* Through the commits.
LEMMA CommittedSeats ==
    ASSUME Billing, NEW o, Ready(o), NEW u \in Users, AcceptCommit(u) \/ RemoveCommit(u)
    PROVE  Carried(o)
<1> DEFINE q == req[u].org
<1>1. TypeOK /\ o \in Orgs
  BY DEF Billing, Ready
<1>2. pc[u] \in Committing /\ Finish(u) /\ UNCHANGED <<rec, quantity, drift>>
  BY DEF AcceptCommit, RemoveCommit, Committing, provider
<1>3. CASE q # o
  <2>1. role'[o] = role[o]
    BY <1>1, <1>3 DEF AcceptCommit, RemoveCommit, TypeOK
  <2>2. \A v \in Users : \/ pc'[v] = pc[v] /\ req'[v] = req[v]
                         \/ req[v].org # o /\ pc'[v] \notin InTransaction
    BY <1>1, <1>2, <1>3 DEF Finish, Begin, TypeOK, InTransaction
  <2> QED BY <1>1, <1>2, <2>1, <2>2, Uncounted
<1>4. CASE q = o
  <2>1. u \in InFlight(o)
    BY <1>2, <1>4 DEF InFlight, InTransaction, Committing
  <2>2. CASE AcceptCommit(u)
    <3>1. \A v \in Users : role'[o][v] # None <=> v = u \/ role[o][v] # None
      BY <1>1, <1>4, <2>2 DEF AcceptCommit, TypeOK, None
    <3>2. Members(o)' = Members(o) \cup {u}
      BY <3>1 DEF Members
    <3>3. After(u, o) = Members(o) \cup {u}
      BY <2>2 DEF AcceptCommit, After, Accepting
    <3> QED BY <1>1, <1>2, <2>1, <3>2, <3>3, CommitSeats
  <2>3. CASE RemoveCommit(u)
    <3>1. Members(o)' = Members(o) \ {req[u].target}
      BY <1>1, <1>4, <2>3 DEF RemoveCommit, TypeOK, Members
    <3>2. After(u, o) = Members(o) \ {req[u].target}
      BY <2>3 DEF RemoveCommit, After, Accepting
    <3> QED BY <1>1, <1>2, <2>1, <3>1, <3>2, CommitSeats
  <2> QED BY <2>2, <2>3
<1> QED BY <1>3, <1>4

\* Through every other step of the server.
LEMMA ServerSeats ==
    ASSUME Billing, NEW o, Ready(o), NEW u \in Users, ServerSteps(u), Seated(o)'
    PROVE  Carried(o)
<1> USE DEF membership, provider
<1>1. TypeOK /\ o \in Orgs
  BY DEF Billing, Ready
<1>2. CASE AcceptSync(u) \/ RemoveSync(u)
  BY <1>2, SyncedSeats
<1>3. CASE AcceptCommit(u) \/ RemoveCommit(u)
  BY <1>3, CommittedSeats
<1>4. CASE PurgeDelete(u)
  BY <1>1, <1>4, PurgeSeats
<1>5. ASSUME NEW p \in Pcs \ InTransaction, NEW r, pc[u] \notin InTransaction,
             pc' = [pc EXCEPT ![u] = p], req' = [req EXCEPT ![u] = r] \/ req' = req,
             role'[o] = role[o], UNCHANGED <<quantity, rec, drift>>
      PROVE  Carried(o)
  BY <1>1, <1>5, Uncounted DEF TypeOK
<1>6. CASE DeletePurge(u)
  <2>1. req[u].org # o
    BY <1>1, <1>6 DEF DeletePurge, Seated, TypeOK
  <2>2. role'[o] = role[o]
    BY <1>1, <1>6, <2>1 DEF DeletePurge, TypeOK
  <2> QED BY <1>5, <1>6, <2>2 DEF DeletePurge, Finish, Begin, Pcs, InTransaction
<1>7. CASE \/ \E i \in Invs : InviteWrite(u, i)
           \/ ReissueWrite(u) \/ RevokeWrite(u) \/ PurgeMail(u)
  BY <1>5, <1>7 DEF InviteWrite, ReissueWrite, RevokeWrite, PurgeMail, Finish, Begin, Pcs, InTransaction
<1>8. CASE DeleteCancel(u) \/ PurgeCount(u)
  BY <1>5, <1>8 DEF DeleteCancel, PurgeCount, Finish, Begin, Pcs, InTransaction
<1> QED BY <1>2, <1>3, <1>4, <1>6, <1>7, <1>8 DEF ServerSteps

\* Through a crash.
LEMMA CrashSeats ==
    ASSUME Billing, NEW o, Ready(o), NEW u \in Users, Crash(u)
    PROVE  Carried(o)
<1>1. TypeOK /\ o \in Orgs /\ sub[o] = "live"
  BY DEF Billing, Ready, Seated
<1>2. Finish(u) /\ UNCHANGED <<role, rec, quantity>>
  BY DEF Crash, membership, provider
<1>3. CASE u \in InFlight(o)
  <2>1. \/ drift'[o] = drift[o] /\ pc[u] \notin Committing
        \/ "lost" \in drift'[o] /\ drift[o] \subseteq drift'[o]
    BY <1>1, <1>3 DEF Crash, InFlight, Committing, TypeOK
  <2> QED BY <1>1, <1>2, <1>3, <2>1, WithdrawSeats
<1>4. CASE u \notin InFlight(o)
  <2>1. drift'[o] = drift[o]
    BY <1>1, <1>4 DEF Crash, InFlight, InTransaction, TypeOK
  <2>2. \A v \in Users : \/ pc'[v] = pc[v] /\ req'[v] = req[v]
                         \/ /\ pc[v] \notin InTransaction \/ req[v].org # o
                            /\ pc'[v] \notin InTransaction
    BY <1>1, <1>2, <1>4 DEF Finish, Begin, InFlight, InTransaction, TypeOK
  <2> QED BY <1>1, <1>2, <2>1, <2>2, Uncounted
<1> QED BY <1>3, <1>4

\* Through the steps nobody requests.
LEMMA EnvironmentSeats ==
    ASSUME Billing, NEW o, Ready(o), Environment
    PROVE  Carried(o)
<1> USE DEF membership, provider
<1>1. TypeOK /\ o \in Orgs
  BY DEF Billing, Ready
<1>2. ASSUME NEW i \in Invs, Expire(i) PROVE Carried(o)
  BY <1>1, <1>2, Uncounted DEF Expire
<1>3. ASSUME NEW p \in Orgs, ForgetKeys(p) \/ ProviderCancels(p) \/ CacheMoves(p)
      PROVE  Carried(o)
  BY <1>1, <1>3, Uncounted DEF ForgetKeys, ProviderCancels, CacheMoves
<1>4. ASSUME NEW p \in Orgs \ {o}, ReconcileRead(p) PROVE Carried(o)
  <2>1. rec'[o] = rec[o] /\ drift'[o] = drift[o]
    BY <1>1, <1>4 DEF ReconcileRead, NoteOverlap, TypeOK
  <2> QED BY <1>1, <1>4, <2>1, Uncounted DEF ReconcileRead
<1>5. ASSUME NEW p \in Orgs \ {o}, ReconcileWrite(p) PROVE Carried(o)
  <2>1. rec'[o] = rec[o] /\ drift'[o] = drift[o] /\ quantity'[o] = quantity[o]
    BY <1>1, <1>5 DEF ReconcileWrite, ProviderWrites, TypeOK
  <2> QED BY <1>1, <1>5, <2>1, Uncounted DEF ReconcileWrite
<1> QED BY <1>1, <1>2, <1>3, <1>4, <1>5, ReconcileReadSeats, ReconcileWriteSeats DEF Environment

\* Through every step.
LEMMA StepSeats ==
    ASSUME Billing, NEW o, Ready(o), [Next]_vars, Seated(o)'
    PROVE  Carried(o)
<1>1. CASE UNCHANGED vars
  BY <1>1, Uncounted DEF vars, Billing
<1>2. CASE Next
  BY <1>2, RequestedSeats, LockSeats, ServerSeats, CrashSeats, EnvironmentSeats DEF Next
<1> QED BY <1>1, <1>2

\* The strengthening is inductive.
LEMMA StepBilling == Billing /\ [Next]_vars => Billing'
<1> SUFFICES ASSUME Billing, [Next]_vars PROVE Billing'
  OBVIOUS
<1>1. TypeOK' /\ Addressed' /\ Subscribed'
  BY StepTypes, StepAddressed, StepSubscribed DEF Billing
<1>2. ASSUME NEW o \in Orgs, Seated(o)' PROVE Apart(o)' /\ Exact(o)'
  <2>1. Ready(o)
    BY <1>2, SeatedBefore DEF Billing, Ready
  <2> QED BY <1>2, <2>1, StepSeats DEF Carried
<1> QED BY <1>1, <1>2 DEF Billing

\* Whatever joins, leaves, transfers, reconciliations, failures, crashes and changes of the
\* local row interleave, with no change under way the provider bills exactly the members
\* of an organization whose subscription it holds, outside the causes of drift the model
\* records.
THEOREM SeatsStayExact == Spec => []SeatsExact
<1>1. Billing => SeatsExact
  BY DEF Billing, SeatsExact, Exact, SeatsQuiet, Seated
<1> QED BY <1>1, InitBilling, StepBilling, PTL DEF Spec

\* The limit is asked of additions only: an organization that subscribed beyond it stays
\* beyond it.
StartsWithinLimit ==
    \A o \in Billed : Cardinality({u \in Users : InitialRole[o][u] # None}) <= SeatLimit

\* Without overlap, and with every addition made under a local row that grants access, no
\* acceptance brings a subscribed organization over the seat limit,
\* whatever its size, if it subscribed within it.
THEOREM LimitKept == StartsWithinLimit /\ Spec => []LimitHeld
<1>1. StartsWithinLimit /\ Init => Limited
  <2> SUFFICES ASSUME StartsWithinLimit, Init, NEW o \in Orgs, Seated(o) PROVE Within(o)
    BY DEF Limited
  <2>1. o \in Billed /\ InFlight(o) = {} /\ role[o] = InitialRole[o]
    BY DEF Init, InFlight, InTransaction, Seated
  <2>2. Cardinality(Members(o)) <= SeatLimit
    BY <2>1 DEF StartsWithinLimit, Members
  <2> QED BY <2>1, <2>2 DEF Within
<1>2. Billing /\ Limited /\ [Next]_vars => Limited'
  <2> SUFFICES ASSUME Billing, Limited, [Next]_vars, NEW o \in Orgs, Seated(o)'
               PROVE  Within(o)'
    BY DEF Limited
  <2>1. Ready(o) /\ Within(o)
    BY SeatedBefore DEF Billing, Ready, Limited
  <2> QED BY <2>1, StepSeats DEF Carried
<1>3. Limited => LimitHeld
  BY DEF Limited, LimitHeld, Within, Seated
<1> QED BY <1>1, <1>2, <1>3, InitBilling, StepBilling, PTL DEF Spec

=============================================================================
