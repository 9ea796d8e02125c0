--------------------------- MODULE Administration ---------------------------
(***************************************************************************)
(* Platform roles, bans and borrowed sessions: packages/modules/admin over *)
(* the account and session tables of packages/modules/auth.                *)
(*                                                                         *)
(* A gesture is one request of the back office (or one sign-in), cut at    *)
(* its awaits.  Every write of the role, and every ban, runs in a          *)
(* transaction that holds one advisory lock; the accounts are read, and    *)
(* the ban itself written, on a second connection of the same pool.  The   *)
(* lifting of a ban, a deletion request and a sign-in take no lock.        *)
(* A statement of SQL is one step, but for the two readings of a count of  *)
(* the superadmins, which are one.  The purge that erases an account, and  *)
(* takes its role with it, comes after its deletion request.               *)
(***************************************************************************)
EXTENDS Integers, FiniteSets

CONSTANTS
  Accounts,     \* the accounts
  Gestures,     \* the requests served, each once
  Designated,   \* the account SUPERADMIN_EMAIL names
  FirstRole,    \* the superadmins of the initial state
  Nobody,       \* impersonated_by of a session nobody borrows; a free lock
  MaxSessions,  \* bound: sessions ever written
  Pool,         \* connections of the pool
  Ttl,          \* bound: steps of time before a borrowed session expires
  MaxLeaving    \* bound: deletion requests

ASSUME AdministrationAssumption ==
  /\ Designated \in Accounts /\ FirstRole \subseteq Accounts
  /\ Nobody \notin Accounts /\ Nobody \notin Gestures
  /\ MaxSessions \in Nat /\ Pool \in Nat /\ Ttl \in Nat \ {0}
  /\ MaxLeaving \in Nat

VARIABLES
  role,      \* admin_platform_role: the accounts with a superadmin row
  banned,    \* auth_user.banned
  leaving,   \* auth_user.deletion_requested_at is not null
  sessions,  \* auth_session
  issued,    \* session identifiers drawn so far
  lock,      \* the gesture that holds pg_advisory_xact_lock
  gest       \* the requests, with what each has read

vars == <<role, banned, leaving, sessions, issued, lock, gest>>

Locking == {"revoke", "ban", "grant"}
Kinds == Locking \cup {"unban", "kick", "start", "stop", "signin"}
Opening == {"start", "stop", "signin"}

(* late is history: the user, or the borrower, had already lost the        *)
(* account or the role when the row was inserted.                          *)
SessionRows == [id : Nat, user : Accounts, by : Accounts \cup {Nobody},
                left : 0..Ttl, late : BOOLEAN]

Idle == [kind |-> "none", actor |-> Nobody, target |-> Nobody, cookie |-> 0,
         borrower |-> Nobody, blocked |-> {}, pc |-> "idle"]

Ended == {"idle", "done", "halted"}

Closed == banned \cup leaving          \* refusesSignIn
Capable == role \ Closed               \* signInCapableSuperadmins
Holders == role \ banned

(* getSession: the row exists and has not expired *)
Resolved(sid) == {s \in sessions : s.id = sid /\ s.left > 0}

(* A transaction keeps its connection from BEGIN to COMMIT, also while it  *)
(* waits for the lock.                                                     *)
InTransaction ==
  {g \in Gestures : gest[g].pc \in {"enlist", "wait", "read", "write", "seal"}}
FreeConnection == Cardinality(InTransaction) < Pool

Row(id, user, by) ==
  [id |-> id, user |-> user, by |-> by, left |-> Ttl,
   late |-> user \in Closed \/ (by # Nobody /\ by \notin Holders)]

Init ==
  /\ role = FirstRole
  /\ leaving = {}
  /\ banned \in SUBSET Accounts /\ Capable # {}
  /\ \E own \in Capable, borrowed \in SUBSET (Accounts \ (role \cup banned)) :
       /\ Cardinality(borrowed) <= 1
       /\ sessions = {Row(1, own, Nobody)} \cup {Row(2, user, own) : user \in borrowed}
  /\ issued = 2
  /\ lock = Nobody
  /\ gest = [g \in Gestures |-> Idle]

-----------------------------------------------------------------------------
(* The steps every gesture shares *)

(* Once a request has ended, what it had read is forgotten. *)
Goto(g, pc) ==
  gest' = [gest EXCEPT ![g] = IF pc = "done" THEN [Idle EXCEPT !.pc = "done"]
                                             ELSE [@ EXCEPT !.pc = pc]]

RowsUnchanged == UNCHANGED <<role, banned, leaving>>
SessionsUnchanged == UNCHANGED <<sessions, issued>>

(* Identifiers promised to the gestures that may still write a session *)
Promised == {g \in Gestures : gest[g].kind \in Opening /\ gest[g].pc \notin Ended}

(* The router resolves the cookie: the gesture acts for the user of the    *)
(* session, borrowed or not.  stopImpersonation needs nothing more.        *)
Enter(g) ==
  /\ gest[g].pc = "idle"
  /\ \E k \in Kinds \ {"signin"}, s \in sessions, t \in Accounts :
       /\ s.left > 0
       /\ k \in Opening => issued + Cardinality(Promised) < MaxSessions
       /\ k = "stop" => t = s.user
       /\ gest' = [gest EXCEPT ![g] =
            [Idle EXCEPT !.kind = k, !.actor = s.user, !.target = t, !.cookie = s.id,
                         !.pc = IF k = "stop" THEN "find" ELSE "authorize"]]
  /\ RowsUnchanged /\ SessionsUnchanged /\ UNCHANGED lock

(* authorize, first part: a borrowed session does not administer, nor one  *)
(* that cannot be read.  A session that is gone by now is nobody's borrow. *)
AuthorizeSession(g) ==
  /\ gest[g].pc = "authorize"
  /\ \/ Goto(g, "done")
     \/ /\ \A s \in Resolved(gest[g].cookie) : s.by = Nobody
        /\ Goto(g, "count")
  /\ RowsUnchanged /\ SessionsUnchanged /\ UNCHANGED lock

(* designateFirstSuperadmin: nobody is designated when a superadmin can    *)
(* sign in, nor when the accounts cannot be read or the address is that of *)
(* no account.                                                             *)
CountSuperadmins(g) ==
  /\ gest[g].pc = "count"
  /\ \/ Goto(g, "check")
     \/ Capable = {} /\ Goto(g, "designate")
  /\ RowsUnchanged /\ SessionsUnchanged /\ UNCHANGED lock

(* The configured account receives the role in a transaction of its own,   *)
(* under the lock, whatever happened since the count.                      *)
Designate(g) ==
  /\ gest[g].pc = "enlist" /\ lock = Nobody
  /\ role' = role \cup {Designated}
  /\ Goto(g, "check")
  /\ UNCHANGED <<banned, leaving, lock>> /\ SessionsUnchanged

FirstStep(kind) ==
  IF kind \in Locking THEN "begin" ELSE IF kind = "start" THEN "aim" ELSE "act"

(* authorize, last part.  Only a start looks at its session again. *)
AuthorizeRole(g) ==
  /\ gest[g].pc = "check"
  /\ IF gest[g].actor \notin role
       THEN Goto(g, "done")
       ELSE gest' = [gest EXCEPT ![g].pc = FirstStep(gest[g].kind),
              ![g].cookie = IF gest[g].kind = "start" THEN @ ELSE 0,
              ![g].actor = IF gest[g].kind = "start" THEN @ ELSE Nobody]
  /\ RowsUnchanged /\ SessionsUnchanged /\ UNCHANGED lock

-----------------------------------------------------------------------------
(* Transactions under the advisory lock *)

Begin(g) ==
  /\ gest[g].pc \in {"begin", "designate"} /\ FreeConnection
  /\ Goto(g, IF gest[g].pc = "begin" THEN "wait" ELSE "enlist")
  /\ RowsUnchanged /\ SessionsUnchanged /\ UNCHANGED lock

(* The pool, which the whole product shares, refuses a connection after    *)
(* five seconds: the request fails.                                        *)
BeginTimesOut(g) ==
  /\ gest[g].pc \in {"begin", "designate"}
  /\ Goto(g, "done")
  /\ RowsUnchanged /\ SessionsUnchanged /\ UNCHANGED lock

(* lockPlatformRole, for a revocation or a ban *)
TakeLock(g) ==
  /\ gest[g].pc = "wait" /\ gest[g].kind # "grant" /\ lock = Nobody
  /\ lock' = g
  /\ Goto(g, "read")
  /\ RowsUnchanged /\ SessionsUnchanged

(* Mutant: the promotion takes no lock *)
GrantUnlocked(g) ==
  /\ gest[g].pc = "wait" /\ gest[g].kind = "grant"
  /\ role' = role \cup {gest[g].target}
  /\ Goto(g, "done")
  /\ UNCHANGED <<banned, leaving, lock>> /\ SessionsUnchanged

(* grantSuperadmin: lock, insert, commit *)
Grant(g) ==
  /\ gest[g].pc = "wait" /\ gest[g].kind = "grant" /\ lock = Nobody
  /\ role' = role \cup {gest[g].target}
  /\ Goto(g, "done")
  /\ UNCHANGED <<banned, leaving, lock>> /\ SessionsUnchanged

(* readState: the superadmins, and on a second connection which of them    *)
(* the accounts refuse.                                                    *)
ReadState(g) ==
  /\ gest[g].pc = "read" /\ FreeConnection
  /\ gest' = [gest EXCEPT ![g].pc = "write", ![g].blocked = role \cap Closed]
  /\ RowsUnchanged /\ SessionsUnchanged /\ UNCHANGED lock

(* Mutant: the pool lets a request wait for ever *)
ReadNeverFails(g) == FALSE /\ ReadState(g)

(* accounts_unavailable: no second connection, or the read failed *)
ReadFails(g) ==
  /\ gest[g].pc = "read"
  /\ Goto(g, "done")
  /\ lock' = Nobody
  /\ RowsUnchanged /\ SessionsUnchanged

(* The delete carries its own predicate: another row whose holder was not  *)
(* among the refused ones, unless the target itself was refused.           *)
SurvivorLeft(g) ==
  \/ gest[g].target \in gest[g].blocked
  \/ role \ (gest[g].blocked \cup {gest[g].target}) # {}

RevokeWrite(g) ==
  /\ gest[g].pc = "write" /\ gest[g].kind = "revoke"
  /\ lock' = Nobody
  /\ IF gest[g].target \in role /\ SurvivorLeft(g)
       THEN role' = role \ {gest[g].target} /\ Goto(g, "close")
       ELSE role' = role /\ Goto(g, "done")
  /\ UNCHANGED <<banned, leaving>> /\ SessionsUnchanged

(* endBorrowsBy, after the commit *)
EndBorrows(g) ==
  /\ gest[g].pc = "close"
  /\ sessions' = {s \in sessions : s.by # gest[g].target}
  /\ Goto(g, "done")
  /\ RowsUnchanged /\ UNCHANGED <<issued, lock>>

(* readOr answers { ok: false }: the revocation is reported done *)
EndBorrowsFails(g) ==
  /\ gest[g].pc = "close"
  /\ Goto(g, "halted")
  /\ RowsUnchanged /\ SessionsUnchanged /\ UNCHANGED lock

(* banRefusal, on the facts read under the lock *)
BanRefused(g) ==
  /\ gest[g].target \in role \ gest[g].blocked
  /\ Cardinality(role \ gest[g].blocked) <= 1

(* setBanned, committed on a connection of its own *)
BanMark(g) ==
  /\ gest[g].pc = "write" /\ gest[g].kind = "ban"
  /\ IF BanRefused(g)
       THEN banned' = banned /\ lock' = Nobody /\ Goto(g, "done")
       ELSE FreeConnection /\ banned' = banned \cup {gest[g].target}
            /\ lock' = lock /\ Goto(g, "seal")
  /\ UNCHANGED <<role, leaving>> /\ SessionsUnchanged

(* Mutant: the sessions the account borrows are not looked at *)
BanSealOwn(g) ==
  /\ gest[g].pc = "seal" /\ FreeConnection
  /\ sessions' = {s \in sessions : s.user # gest[g].target}
  /\ lock' = Nobody
  /\ Goto(g, "done")
  /\ RowsUnchanged /\ UNCHANGED issued

(* revokeAllForUser: the sessions of the account and those it borrows *)
BanSeal(g) ==
  /\ gest[g].pc = "seal" /\ FreeConnection
  /\ sessions' = {s \in sessions : gest[g].target \notin {s.user, s.by}}
  /\ lock' = Nobody
  /\ Goto(g, "done")
  /\ RowsUnchanged /\ UNCHANGED issued

(* Either write throws: the transaction rolls back, which undoes nothing *)
BanFails(g) ==
  /\ gest[g].kind = "ban" /\ gest[g].pc \in {"write", "seal"}
  /\ gest[g].pc = "write" => ~BanRefused(g)
  /\ lock' = Nobody
  /\ Goto(g, IF gest[g].pc = "seal" THEN "halted" ELSE "done")
  /\ RowsUnchanged /\ SessionsUnchanged

-----------------------------------------------------------------------------
(* Gestures without the lock *)

Unban(g) ==
  /\ gest[g].pc = "act" /\ gest[g].kind = "unban"
  /\ banned' = banned \ {gest[g].target}
  /\ Goto(g, "done")
  /\ UNCHANGED <<role, leaving, lock>> /\ SessionsUnchanged

(* revokeAccountSession: the row, if it is the target's *)
Kick(g) ==
  /\ gest[g].pc = "act" /\ gest[g].kind = "kick"
  /\ \E s \in sessions : s.user = gest[g].target /\ sessions' = sessions \ {s}
  /\ Goto(g, "done")
  /\ RowsUnchanged /\ UNCHANGED <<issued, lock>>

KickNothing(g) ==
  /\ gest[g].pc = "act" /\ gest[g].kind = "kick"
  /\ \A s \in sessions : s.user # gest[g].target
  /\ Goto(g, "done")
  /\ RowsUnchanged /\ SessionsUnchanged /\ UNCHANGED lock

(* sessions.create: insert ... select from an account that may sign in *)
CreateGuarded(g, user, by, next) ==
  IF user \in Closed
    THEN SessionsUnchanged /\ Goto(g, "done")
    ELSE /\ sessions' = sessions \cup {Row(issued + 1, user, by)}
         /\ issued' = issued + 1
         /\ Goto(g, next)

(* startImpersonation: no peer is borrowed *)
StartAim(g) ==
  /\ gest[g].pc = "aim"
  /\ Goto(g, IF gest[g].target \in role THEN "done" ELSE "resolve")
  /\ RowsUnchanged /\ SessionsUnchanged /\ UNCHANGED lock

(* rotates: the current session, resolved again, or none.  cookie = 0: none *)
StartResolve(g) ==
  /\ gest[g].pc = "resolve"
  /\ gest' = [gest EXCEPT ![g].pc = "open",
        ![g].cookie = IF Resolved(gest[g].cookie) = {} THEN 0 ELSE gest[g].cookie]
  /\ RowsUnchanged /\ SessionsUnchanged /\ UNCHANGED lock

StartOpen(g) ==
  /\ gest[g].pc = "open"
  /\ CreateGuarded(g, gest[g].target, gest[g].actor, "rotate")
  /\ RowsUnchanged /\ UNCHANGED lock

(* closeImpersonation: the borrow, and who gets his hand back *)
StopFind(g) ==
  /\ gest[g].pc = "find"
  /\ LET borrow == {s \in Resolved(gest[g].cookie) : s.by # Nobody}
     IN IF borrow = {}
          THEN Goto(g, "done")
          ELSE gest' = [gest EXCEPT ![g].pc = "restore",
                                    ![g].borrower = (CHOOSE s \in borrow : TRUE).by]
  /\ RowsUnchanged /\ SessionsUnchanged /\ UNCHANGED lock

StopRestore(g) ==
  /\ gest[g].pc = "restore"
  /\ CreateGuarded(g, gest[g].borrower, Nobody, "rotate")
  /\ RowsUnchanged /\ UNCHANGED lock

(* deleteById: the session the new one replaces *)
Rotate(g) ==
  /\ gest[g].pc = "rotate"
  /\ sessions' = {s \in sessions : s.id # gest[g].cookie}
  /\ Goto(g, "done")
  /\ RowsUnchanged /\ UNCHANGED <<issued, lock>>

(* A sign-in: the hook asks whether the account is closed, then the        *)
(* library inserts.                                                        *)
SignInHook(g) ==
  /\ gest[g].pc = "idle" /\ issued + Cardinality(Promised) < MaxSessions
  /\ \E a \in Accounts \ Closed :
       gest' = [gest EXCEPT ![g] = [Idle EXCEPT !.kind = "signin", !.actor = a,
                                                !.pc = "insert"]]
  /\ RowsUnchanged /\ SessionsUnchanged /\ UNCHANGED lock

SignInInsert(g) ==
  /\ gest[g].pc = "insert"
  /\ sessions' = sessions \cup {Row(issued + 1, gest[g].actor, Nobody)}
  /\ issued' = issued + 1
  /\ Goto(g, "done")
  /\ RowsUnchanged /\ UNCHANGED lock

-----------------------------------------------------------------------------
(* Around the gestures *)

(* requestAccountDeletion marks the account, without the lock *)
MarkLeaving(a) ==
  /\ a \in Accounts \ leaving /\ Cardinality(leaving) < MaxLeaving
  /\ leaving' = leaving \cup {a}
  /\ UNCHANGED <<role, banned, lock, gest>> /\ SessionsUnchanged

(* Time passes for a session; an ordinary one is bounded at one step from  *)
(* its expiry, which the library owns.                                     *)
Tick(s) ==
  /\ s.left > (IF s.by = Nobody THEN 1 ELSE 0)
  /\ sessions' = (sessions \ {s}) \cup {[s EXCEPT !.left = @ - 1]}
  /\ RowsUnchanged /\ UNCHANGED <<issued, lock, gest>>

(* Mutant: the library extends a borrowed session like any other *)
RefreshAll(s) ==
  /\ 0 < s.left /\ s.left < Ttl
  /\ sessions' = (sessions \ {s}) \cup {[s EXCEPT !.left = Ttl]}
  /\ RowsUnchanged /\ UNCHANGED <<issued, lock, gest>>

(* The library extends the session it resolves; the adapter writes that    *)
(* only where impersonated_by is null.                                     *)
Refresh(s) ==
  /\ 0 < s.left /\ s.left < Ttl
  /\ sessions' = IF s.by = Nobody
                   THEN (sessions \ {s}) \cup {[s EXCEPT !.left = Ttl]}
                   ELSE sessions
  /\ RowsUnchanged /\ UNCHANGED <<issued, lock, gest>>

(* The hourly job impersonation-expiry *)
Sweep ==
  /\ \E s \in sessions : s.by # Nobody /\ s.left = 0
  /\ sessions' = {s \in sessions : s.by = Nobody \/ s.left > 0}
  /\ RowsUnchanged /\ UNCHANGED <<issued, lock, gest>>

Arrive(g) == Enter(g) \/ SignInHook(g)

Step(g) ==
  \/ AuthorizeSession(g) \/ CountSuperadmins(g) \/ Designate(g) \/ AuthorizeRole(g)
  \/ Begin(g) \/ BeginTimesOut(g) \/ TakeLock(g) \/ Grant(g)
  \/ ReadState(g) \/ ReadFails(g) \/ RevokeWrite(g) \/ EndBorrows(g)
  \/ EndBorrowsFails(g) \/ BanMark(g) \/ BanSeal(g) \/ BanFails(g)
  \/ Unban(g) \/ Kick(g) \/ KickNothing(g)
  \/ StartAim(g) \/ StartResolve(g) \/ StartOpen(g)
  \/ StopFind(g) \/ StopRestore(g) \/ Rotate(g) \/ SignInInsert(g)

Around ==
  \/ \E a \in Accounts : MarkLeaving(a)
  \/ \E s \in sessions : Tick(s) \/ Refresh(s)
  \/ Sweep

Next == (\E g \in Gestures : Arrive(g) \/ Step(g)) \/ Around

Spec == Init /\ [][Next]_vars

(* A served request runs to its end; time passes; the job is scheduled.    *)
Passing(n) == \E s \in sessions : s.id = n /\ Tick(s)

Fairness ==
  /\ \A g \in Gestures : WF_vars(Step(g))
  /\ \A n \in 1..MaxSessions : WF_vars(Passing(n))
  /\ WF_vars(Sweep)

FairSpec == Spec /\ Fairness

-----------------------------------------------------------------------------
GestureRecords ==
  [kind : Kinds \cup {"none"}, actor : Accounts \cup {Nobody},
   target : Accounts \cup {Nobody}, cookie : Nat,
   borrower : Accounts \cup {Nobody}, blocked : SUBSET Accounts,
   pc : Ended \cup {"authorize", "count", "designate", "enlist", "check", "begin",
                    "wait", "read", "write", "seal", "close", "act", "aim", "resolve", "open", "rotate", "find",
                    "restore", "insert"}]

(* The type of the state. *)
TypeOK ==
  /\ role \subseteq Accounts /\ banned \subseteq Accounts /\ leaving \subseteq Accounts
  /\ sessions \subseteq SessionRows
  /\ issued \in Nat
  /\ lock \in Gestures \cup {Nobody}
  /\ gest \in [Gestures -> GestureRecords]

(* The gesture about to write has read the accounts before a superadmin    *)
(* asked for its deletion ...                                              *)
OutrunByLeaving(g) ==
  gest[g].pc = "write" /\ \E a \in role \cap leaving : a \notin gest[g].blocked

(* ... or has read that no superadmin could sign in, so that whoever can   *)
(* now was unbanned since.                                                 *)
OutrunByUnban(g) == gest[g].pc = "write" /\ role \subseteq gest[g].blocked

(* No sequence of revocations, bans and promotions takes the platform its  *)
(* last superadmin able to sign in.  The step that leaves none is a        *)
(* deletion request, or a revocation or a ban decided on a reading that is *)
(* out of date in one of two ways: a superadmin has asked for its deletion *)
(* since, or all were refused and the ban of one was lifted since.         *)
LastSuperadminKept ==
  [][Capable # {} /\ Capable' = {}
       => \/ leaving' # leaving
          \/ \E g \in Gestures : OutrunByLeaving(g) \/ OutrunByUnban(g)]_vars

(* The same without the second way: a ban lifted during a gesture, which   *)
(* takes no lock, only makes it refuse (drizzle-platform-role-repository). *)
(* It is not so: a target that was read as refused is removed although it  *)
(* is by then the only one able to sign in.                                *)
UnbanOnlyRefuses ==
  [][Capable # {} /\ Capable' = {}
       => leaving' # leaving \/ \E g \in Gestures : OutrunByLeaving(g)]_vars

(* A ban, or a revocation, of this account is on its way to the sessions,  *)
(* or lost them on the way.                                                *)
Sealing(a) ==
  \E g \in Gestures : /\ gest[g].kind = "ban" /\ gest[g].target = a
                      /\ gest[g].pc \in {"seal", "halted"}
Detaching(a) ==
  \E g \in Gestures : /\ gest[g].kind = "revoke" /\ gest[g].target = a
                      /\ gest[g].pc \in {"close", "halted"}

(* Sessions answer to the account and to the role: a banned account holds  *)
(* no session and borrows none, a demoted one borrows none, once the       *)
(* gesture that said so has closed them.  The exception is a row inserted  *)
(* by a request that was let in before.                                    *)
AccessFollowsState ==
  \A s \in sessions : ~s.late =>
    /\ s.user \in banned => Sealing(s.user)
    /\ s.by \in banned => Sealing(s.by)
    /\ s.by # Nobody /\ s.by \notin role => Detaching(s.by)

(* Every gesture ends, although each transaction keeps a connection while  *)
(* it waits for the lock and its holder needs a second one.                *)
GesturesEnd ==
  \A g \in Gestures : gest[g].pc # "idle" ~> gest[g].pc \in Ended

(* A borrowed session ends by itself, used or not, whatever became of the  *)
(* borrower.                                                               *)
BorrowsEnd ==
  \A n \in 1..MaxSessions :
    (\E s \in sessions : s.id = n /\ s.by # Nobody) ~> (\A s \in sessions : s.id # n)
=============================================================================
