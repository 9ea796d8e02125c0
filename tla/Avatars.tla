------------------------------- MODULE Avatars -------------------------------
(***************************************************************************)
(* The avatar of one owner, packages/modules/storage: a client uploads to  *)
(* a pending key with a presigned URL, the confirmation checks the bytes,  *)
(* writes them under the served key and points the row at it.  The row is  *)
(* in the database and the objects are in a bucket: no transaction spans   *)
(* both, and every await is a step.                                        *)
(*                                                                         *)
(* An upload names its pending key and its served key, which have the same *)
(* name in two spaces.  The keys of two owners have no name in common.     *)
(***************************************************************************)
EXTENDS Naturals, FiniteSets

CONSTANTS
  Uploads,
  Requests,   \* HTTP requests served at the same time
  None,
  MaxPuts,    \* bound of the uploads to a presigned URL
  MaxFails    \* bound of the calls that fail and of the processes that die

Bytes == {"image", "other"}   \* what validateStoredAvatar accepts or not

ASSUME AvatarAssumption ==
  None \notin Uploads \cup Requests \cup Bytes /\ MaxPuts \in Nat /\ MaxFails \in Nat

VARIABLES
  avatar,     \* storage_file of the owner: the served key, or None
  pending,    \* the objects under the pending keys
  served,     \* the objects under the served keys
  url,        \* the presigned URL of each upload
  request,    \* the requests under way
  lock,       \* pg_advisory_xact_lock of the owner
  puts, fails,
  raced,      \* history: uploads confirmed while their object was to go
  dropped     \* history: served keys a failure left to nobody

vars == <<avatar, pending, served, url, request, lock, puts, fails, raced, dropped>>

Record(pc, u, bytes, old) == [pc |-> pc, u |-> u, bytes |-> bytes, old |-> old]
Idle == Record("idle", None, "other", {})
At(q, pc) == request[q].pc = pc
Upload(q) == request[q].u
Turn(q, pc) == request' = [request EXCEPT ![q].pc = pc]
Answer(q) == request' = [request EXCEPT ![q] = Idle]
\* The keys that a request still has to remove, if any.
TurnToDrop(q, keys) ==
  request' = [request EXCEPT ![q] =
    IF keys = {} THEN Idle ELSE Record("drop", None, "other", keys)]

Init ==
  /\ avatar = None
  /\ pending = [u \in Uploads |-> None] /\ served = [u \in Uploads |-> None]
  /\ url = [u \in Uploads |-> "none"] /\ lock = None
  /\ request = [q \in Requests |-> Idle]
  /\ puts = 0 /\ fails = 0
  /\ raced = {} /\ dropped = {}

HistoryUnchanged == UNCHANGED dropped
ClientUnchanged == UNCHANGED <<url, puts>>
StoreUnchanged == UNCHANGED <<pending, served>>

-----------------------------------------------------------------------------
(* The client *)

PresignAvatar(u) ==
  /\ url[u] = "none"
  /\ url' = [url EXCEPT ![u] = "valid"]
  /\ StoreUnchanged /\ HistoryUnchanged
  /\ UNCHANGED <<avatar, request, lock, puts, fails>>

(* The URL may be used again, after a confirmation too. *)
Put(u, bytes) ==
  /\ url[u] = "valid" /\ puts < MaxPuts
  /\ puts' = puts + 1
  /\ pending' = [pending EXCEPT ![u] = bytes]
  /\ HistoryUnchanged /\ UNCHANGED <<avatar, served, url, request, lock, fails>>

UrlExpires(u) ==
  /\ url[u] = "valid"
  /\ url' = [url EXCEPT ![u] = "expired"]
  /\ StoreUnchanged /\ HistoryUnchanged
  /\ UNCHANGED <<avatar, request, lock, puts, fails>>

-----------------------------------------------------------------------------
(* confirmAvatar *)

(* storage.read, then validateStoredAvatar on the bytes that were read.    *)
(* Nothing under the key: already confirmed or not found, nothing changes. *)
ReadPending(q, u) ==
  /\ At(q, "idle") /\ pending[u] # None
  /\ request' = [request EXCEPT ![q] =
       Record(IF pending[u] = "image" THEN "promote" ELSE "discard", u, pending[u], {})]
  /\ StoreUnchanged /\ HistoryUnchanged /\ ClientUnchanged
  /\ UNCHANGED <<avatar, lock, fails>>

DiscardPending(q) ==
  /\ At(q, "discard")
  /\ pending' = [pending EXCEPT ![Upload(q)] = None]
  /\ Answer(q)
  /\ HistoryUnchanged /\ ClientUnchanged /\ UNCHANGED <<avatar, served, lock, fails>>

\* Mutant of Promoted: the bucket copies what is under the pending key.
PromotedCopy(q) == pending[Upload(q)]

Promoted(q) == request[q].bytes

WriteServed(q) ==
  /\ At(q, "promote")
  /\ served' = [served EXCEPT ![Upload(q)] = Promoted(q)]
  /\ Turn(q, "consume")
  /\ ClientUnchanged /\ UNCHANGED <<avatar, pending, lock, fails, dropped>>

RemovePending(q) ==
  /\ At(q, "consume")
  /\ pending' = [pending EXCEPT ![Upload(q)] = None]
  /\ Turn(q, "lock")
  /\ HistoryUnchanged /\ ClientUnchanged /\ UNCHANGED <<avatar, served, lock, fails>>

\* Mutant of Replaced: the previous key is removed whatever it is.
ReplacedAlways(q) == request[q].old

Replaced(q) == request[q].old \ {Upload(q)}

\* Mutant of ReplaceLock: two replacements read the same previous key.
ReplaceNoLock(q) ==
  /\ At(q, "lock")
  /\ request' = [request EXCEPT ![q] =
       Record("upsert", @.u, @.bytes, {avatar} \ {None})]
  /\ StoreUnchanged /\ HistoryUnchanged /\ ClientUnchanged
  /\ UNCHANGED <<avatar, lock, fails>>

(* replaceAvatar: the lock, the previous key, the upsert *)
ReplaceLock(q) ==
  /\ At(q, "lock") /\ lock = None
  /\ lock' = q
  /\ request' = [request EXCEPT ![q] =
       Record("upsert", @.u, @.bytes, {avatar} \ {None})]
  /\ StoreUnchanged /\ HistoryUnchanged /\ ClientUnchanged
  /\ UNCHANGED <<avatar, fails>>

ReplaceUpsert(q) ==
  /\ At(q, "upsert")
  /\ avatar' = Upload(q)
  /\ lock' = IF lock = q THEN None ELSE lock
  /\ TurnToDrop(q, Replaced(q))
  /\ StoreUnchanged /\ HistoryUnchanged /\ ClientUnchanged /\ UNCHANGED fails

-----------------------------------------------------------------------------
(* removeAvatar, and purge: deleteOwnedBy returns what it deletes *)

RemoveRow(q) ==
  /\ At(q, "idle") /\ avatar # None
  /\ avatar' = None
  /\ TurnToDrop(q, {avatar})
  /\ StoreUnchanged /\ HistoryUnchanged /\ ClientUnchanged /\ UNCHANGED <<lock, fails>>

RemoveObjects(q) ==
  /\ At(q, "drop")
  /\ served' = [u \in Uploads |-> IF u \in request[q].old THEN None ELSE served[u]]
  /\ Answer(q)
  /\ HistoryUnchanged /\ ClientUnchanged /\ UNCHANGED <<avatar, pending, lock, fails>>

-----------------------------------------------------------------------------
(* Failures *)

(* A failed write ends the confirmation; the pending object stays. *)
WriteFails(q) ==
  /\ At(q, "promote") /\ fails < MaxFails /\ fails' = fails + 1
  /\ Answer(q)
  /\ StoreUnchanged /\ HistoryUnchanged /\ ClientUnchanged /\ UNCHANGED <<avatar, lock>>

(* A failed removal is not looked at by a confirmation.  The objects stay, *)
(* and nothing knows them any more.                                        *)
RemovePendingFails(q) ==
  /\ At(q, "consume") /\ fails < MaxFails /\ fails' = fails + 1
  /\ Turn(q, "lock")
  /\ StoreUnchanged /\ HistoryUnchanged /\ ClientUnchanged /\ UNCHANGED <<avatar, lock>>

RemoveFails(q) ==
  /\ At(q, "drop") /\ fails < MaxFails /\ fails' = fails + 1
  /\ dropped' = dropped \cup request[q].old
  /\ Answer(q)
  /\ StoreUnchanged /\ ClientUnchanged /\ UNCHANGED <<avatar, lock>>

(* The process dies, or the transaction of the row fails. *)
RequestDies(q) ==
  /\ ~At(q, "idle") /\ fails < MaxFails /\ fails' = fails + 1
  /\ dropped' = dropped \cup
       (IF request[q].pc \in {"consume", "lock", "upsert"} THEN {Upload(q)} ELSE {})
       \cup (IF At(q, "drop") THEN request[q].old ELSE {})
  /\ lock' = IF lock = q THEN None ELSE lock
  /\ Answer(q)
  /\ StoreUnchanged /\ ClientUnchanged /\ UNCHANGED avatar

Step ==
  \/ \E u \in Uploads :
       PresignAvatar(u) \/ UrlExpires(u) \/ \E bytes \in Bytes : Put(u, bytes)
  \/ \E q \in Requests :
       \/ \E u \in Uploads : ReadPending(q, u)
       \/ DiscardPending(q) \/ WriteServed(q) \/ RemovePending(q)
       \/ ReplaceLock(q) \/ ReplaceUpsert(q)
       \/ RemoveRow(q) \/ RemoveObjects(q)
       \/ WriteFails(q) \/ RemovePendingFails(q) \/ RemoveFails(q) \/ RequestDies(q)

\* An object a request is about to remove, and a confirmation of its upload.
Overlapping ==
  {u \in Uploads : /\ \E q \in Requests : At(q, "drop") /\ u \in request[q].old
                   /\ \E q \in Requests : Upload(q) = u}

Next == Step /\ raced' = raced \cup Overlapping'

Spec == Init /\ [][Next]_vars

-----------------------------------------------------------------------------
(* Properties *)

(* Type of the state; the lock is held by a replacement under way.         *)
TypeOK ==
  /\ avatar \in Uploads \cup {None}
  /\ pending \in [Uploads -> Bytes \cup {None}]
  /\ served \in [Uploads -> Bytes \cup {None}]
  /\ url \in [Uploads -> {"none", "valid", "expired"}] /\ dropped \subseteq Uploads
  /\ request \in [Requests -> [u : Uploads \cup {None}, bytes : Bytes, old : SUBSET Uploads,
       pc : {"idle", "discard", "promote", "consume", "lock", "upsert", "drop"}]]
  /\ lock \in Requests \cup {None}
  /\ lock # None => At(lock, "upsert")
  /\ puts \in 0..MaxPuts /\ fails \in 0..MaxFails /\ raced \subseteq Uploads

(* What is served was checked: the client may write under the pending key  *)
(* again between the check and the promotion, and changes nothing.         *)
ServedIsChecked == \A u \in Uploads : served[u] \in {"image", None}

(* The row of the owner points at an object that is there, unless its      *)
(* upload was confirmed again while a replacement or a removal was about   *)
(* to delete its object: a confirmation repeated because its pending       *)
(* object was left deletes nothing it serves.                              *)
AvatarHasObject ==
  avatar \notin raced \cup {None} => served[avatar] # None

(* Once nothing is under way, every served object is the one of the row    *)
(* or was left by a call that failed or a process that died: concurrent    *)
(* confirmations and removals of one owner orphan none.                    *)
NoOrphan ==
  (\A q \in Requests : At(q, "idle"))
    => \A u \in Uploads : served[u] # None => u = avatar \/ u \in dropped
=============================================================================
