---------------------------- MODULE AvatarsProofs ----------------------------
(***************************************************************************)
(* What Avatars promises for every set of uploads and requests.            *)
(*                                                                         *)
(* That no object is orphaned is not inductive: an object that is not the  *)
(* avatar is on its way to be, or on its way out, and a replacement that   *)
(* read the previous key under the lock still names the avatar it removes. *)
(***************************************************************************)
EXTENDS Avatars, TLAPS

\* A request that will point the row at an object, or remove it.
Keeps(q, u) ==
  \/ request[q].pc \in {"consume", "lock", "upsert"} /\ request[q].u = u
  \/ request[q].pc = "drop" /\ u \in request[q].old

\* The bytes about to be promoted were checked.
Checked == \A q \in Requests : At(q, "promote") => request[q].bytes = "image"

\* A confirmation names its upload.
Named ==
  \A q \in Requests :
    request[q].pc \in {"discard", "promote", "consume", "lock", "upsert"}
      => request[q].u \in Uploads

\* A replacement holds the lock and knows the key it replaces.
Replacing ==
  \A q \in Requests :
    At(q, "upsert") => lock = q /\ avatar \in request[q].old \cup {None}

\* Every served object has an owner, a request in charge, or was dropped.
Owned ==
  \A u \in Uploads :
    served[u] # None => \/ u = avatar
                        \/ u \in dropped
                        \/ \E q \in Requests : Keeps(q, u)

IInv == TypeOK /\ ServedIsChecked /\ Checked /\ Named /\ Replacing /\ Owned

RequestType ==
  [u : Uploads \cup {None}, bytes : Bytes, old : SUBSET Uploads,
   pc : {"idle", "discard", "promote", "consume", "lock", "upsert", "drop"}]

-----------------------------------------------------------------------------

\* Nothing is uploaded, served or under way at first.
LEMMA InitInductive == Init => IInv
BY AvatarAssumption
   DEF Init, IInv, TypeOK, ServedIsChecked, Checked, Named, Replacing, Owned, Idle, Record, Bytes, At

\* The client touches neither the rows, the served objects nor the requests.
LEMMA ClientStep ==
  ASSUME IInv, NEW u \in Uploads,
         PresignAvatar(u) \/ UrlExpires(u) \/ \E bytes \in Bytes : Put(u, bytes),
         raced' \subseteq Uploads
  PROVE  IInv'
<1> USE AvatarAssumption
<1>1. UNCHANGED <<avatar, served, request, lock, dropped>>
  BY DEF PresignAvatar, UrlExpires, Put, StoreUnchanged, HistoryUnchanged
<1>2. TypeOK'
  BY <1>1 DEF IInv, TypeOK, PresignAvatar, UrlExpires, Put, StoreUnchanged, HistoryUnchanged,
              Bytes, At
<1>3. (ServedIsChecked /\ Checked /\ Named /\ Replacing)'
  BY <1>1 DEF IInv, ServedIsChecked, Checked, Named, Replacing, At
<1>4. Owned'
  BY <1>1 DEF IInv, Owned, Keeps
<1> QED BY <1>2, <1>3, <1>4 DEF IInv

\* A request that reads, discards or writes.
LEMMA ConfirmStep ==
  ASSUME IInv, NEW q \in Requests,
         \/ \E u \in Uploads : ReadPending(q, u)
         \/ DiscardPending(q) \/ WriteServed(q) \/ RemovePending(q)
         \/ RemovePendingFails(q) \/ WriteFails(q),
         raced' \subseteq Uploads
  PROVE  IInv'
<1> USE AvatarAssumption DEF Record, StoreUnchanged, HistoryUnchanged, ClientUnchanged, Turn, Answer,
        Idle, At, Upload
<1>1. CASE \E u \in Uploads : ReadPending(q, u)
  <2>0. PICK u \in Uploads : ReadPending(q, u) BY <1>1
  <2>a. pending[u] \in Bytes BY <2>0 DEF IInv, TypeOK, ReadPending
  <2>b. request' \in [Requests -> RequestType]
    BY <2>0, <2>a DEF IInv, TypeOK, ReadPending, RequestType
  <2>c. lock' # None => request'[lock'].pc = "upsert"
    BY <2>0 DEF IInv, TypeOK, ReadPending
  <2>1. TypeOK' BY <2>0, <2>b, <2>c DEF IInv, TypeOK, ReadPending, RequestType
  <2>2. (ServedIsChecked /\ Checked /\ Named /\ Replacing)'
    BY <2>0, <2>a DEF IInv, TypeOK, ServedIsChecked, Checked, Named, Replacing, ReadPending
  <2>3. Owned' BY <1>1 DEF IInv, TypeOK, Owned, Keeps, ReadPending
  <2> QED BY <2>1, <2>2, <2>3 DEF IInv
<1>2. CASE DiscardPending(q)
  <2>1. TypeOK' BY <1>2 DEF IInv, TypeOK, DiscardPending, Bytes
  <2>2. (ServedIsChecked /\ Checked /\ Named /\ Replacing)'
    BY <1>2 DEF IInv, TypeOK, ServedIsChecked, Checked, Named, Replacing, DiscardPending
  <2>3. Owned' BY <1>2 DEF IInv, TypeOK, Owned, Keeps, DiscardPending
  <2> QED BY <2>1, <2>2, <2>3 DEF IInv
<1>3. CASE WriteServed(q)
  <2>1. TypeOK'
    <3>1. request[q].u \in Uploads /\ request[q].bytes \in Bytes
      BY <1>3 DEF IInv, TypeOK, Named, WriteServed
    <3>2. served' \in [Uploads -> Bytes \cup {None}]
      BY <1>3, <3>1 DEF IInv, TypeOK, WriteServed, Promoted
    <3>3. request' \in [Requests -> RequestType]
      BY <1>3 DEF IInv, TypeOK, WriteServed, RequestType
    <3> QED BY <1>3, <3>2, <3>3 DEF IInv, TypeOK, WriteServed, RequestType
  <2>2. (ServedIsChecked /\ Checked /\ Named /\ Replacing)'
    BY <1>3 DEF IInv, TypeOK, ServedIsChecked, Checked, Named, Replacing, WriteServed, Promoted
  <2>3. Owned' BY <1>3 DEF IInv, TypeOK, Owned, Keeps, Named, WriteServed, Promoted
  <2> QED BY <2>1, <2>2, <2>3 DEF IInv
<1>4. CASE RemovePending(q) \/ RemovePendingFails(q)
  <2>1. TypeOK' BY <1>4 DEF IInv, TypeOK, RemovePending, RemovePendingFails, Bytes
  <2>2. (ServedIsChecked /\ Checked /\ Named /\ Replacing)'
    BY <1>4 DEF IInv, TypeOK, ServedIsChecked, Checked, Named, Replacing, RemovePending,
                RemovePendingFails
  <2>3. Owned' BY <1>4 DEF IInv, TypeOK, Owned, Keeps, RemovePending, RemovePendingFails
  <2> QED BY <2>1, <2>2, <2>3 DEF IInv
<1>5. CASE WriteFails(q)
  <2>1. TypeOK' BY <1>5 DEF IInv, TypeOK, WriteFails, Bytes
  <2>2. (ServedIsChecked /\ Checked /\ Named /\ Replacing)'
    BY <1>5 DEF IInv, TypeOK, ServedIsChecked, Checked, Named, Replacing, WriteFails
  <2>3. Owned' BY <1>5 DEF IInv, TypeOK, Owned, Keeps, WriteFails
  <2> QED BY <2>1, <2>2, <2>3 DEF IInv
<1> QED BY <1>1, <1>2, <1>3, <1>4, <1>5

\* A replacement: what leaves the row passes to the request that removes it.
LEMMA ReplaceStep ==
  ASSUME IInv, NEW q \in Requests, ReplaceLock(q) \/ ReplaceUpsert(q), raced' \subseteq Uploads
  PROVE  IInv'
<1> USE AvatarAssumption DEF Record, StoreUnchanged, HistoryUnchanged, ClientUnchanged, TurnToDrop,
        Idle, At, Upload
<1>1. CASE ReplaceLock(q)
  <2>1. TypeOK'
    <3>1. {avatar} \ {None} \subseteq Uploads BY DEF IInv, TypeOK
    <3>2. request' \in [Requests -> RequestType] /\ request'[q].pc = "upsert"
      BY <1>1, <3>1 DEF IInv, TypeOK, ReplaceLock, RequestType
    <3> QED BY <1>1, <3>2 DEF IInv, TypeOK, ReplaceLock, RequestType
  <2>2. (ServedIsChecked /\ Checked /\ Named /\ Replacing)'
    BY <1>1 DEF IInv, TypeOK, ServedIsChecked, Checked, Named, Replacing, ReplaceLock
  <2>3. Owned' BY <1>1 DEF IInv, TypeOK, Owned, Keeps, ReplaceLock
  <2> QED BY <2>1, <2>2, <2>3 DEF IInv
<1>2. CASE ReplaceUpsert(q)
  <2>1. TypeOK' BY <1>2 DEF IInv, TypeOK, Named, Replacing, ReplaceUpsert, Replaced, Bytes
  <2>2. (ServedIsChecked /\ Checked /\ Named /\ Replacing)'
    BY <1>2 DEF IInv, TypeOK, ServedIsChecked, Checked, Named, Replacing, ReplaceUpsert, Replaced
  <2>3. Owned'
    <3> SUFFICES ASSUME NEW u \in Uploads, served'[u] # None, u # avatar', u \notin dropped'
                 PROVE  \E p \in Requests : Keeps(p, u)'
      BY DEF Owned
    <3>1. served[u] # None /\ u \notin dropped /\ u # request[q].u
      BY <1>2 DEF ReplaceUpsert
    <3>2. CASE u = avatar
      <4>1. u \in Replaced(q)
        BY <1>2, <3>1, <3>2 DEF IInv, Replacing, ReplaceUpsert, Replaced
      <4>2. Keeps(q, u)'
        BY <1>2, <4>1 DEF IInv, TypeOK, Keeps, ReplaceUpsert
      <4> QED BY <4>2
    <3>3. CASE u # avatar
      <4>1. PICK p \in Requests : Keeps(p, u)
        BY <3>1, <3>3 DEF IInv, Owned
      <4>2. p # q
        BY <1>2, <3>1, <4>1 DEF Keeps, ReplaceUpsert
      <4>3. Keeps(p, u)'
        BY <1>2, <4>1, <4>2 DEF IInv, TypeOK, Keeps, ReplaceUpsert
      <4> QED BY <4>3
    <3> QED BY <3>2, <3>3
  <2> QED BY <2>1, <2>2, <2>3 DEF IInv
<1> QED BY <1>1, <1>2

\* A removal, of the row first and of the objects then.
LEMMA RemoveStep ==
  ASSUME IInv, NEW q \in Requests, RemoveRow(q) \/ RemoveObjects(q) \/ RemoveFails(q),
         raced' \subseteq Uploads
  PROVE  IInv'
<1> USE AvatarAssumption DEF Record, StoreUnchanged, HistoryUnchanged, ClientUnchanged, TurnToDrop,
        Answer, Idle, At, Upload
<1>1. CASE RemoveRow(q)
  <2>1. TypeOK' BY <1>1 DEF IInv, TypeOK, RemoveRow, Bytes
  <2>2. (ServedIsChecked /\ Checked /\ Named /\ Replacing)'
    BY <1>1 DEF IInv, TypeOK, ServedIsChecked, Checked, Named, Replacing, RemoveRow
  <2>3. Owned' BY <1>1 DEF IInv, TypeOK, Owned, Keeps, RemoveRow
  <2> QED BY <2>1, <2>2, <2>3 DEF IInv
<1>2. CASE RemoveObjects(q)
  <2>1. TypeOK' BY <1>2 DEF IInv, TypeOK, RemoveObjects, Bytes
  <2>2. (ServedIsChecked /\ Checked /\ Named /\ Replacing)'
    BY <1>2 DEF IInv, TypeOK, ServedIsChecked, Checked, Named, Replacing, RemoveObjects
  <2>3. Owned' BY <1>2 DEF IInv, TypeOK, Owned, Keeps, RemoveObjects
  <2> QED BY <2>1, <2>2, <2>3 DEF IInv
<1>3. CASE RemoveFails(q)
  <2>1. TypeOK' BY <1>3 DEF IInv, TypeOK, RemoveFails, Bytes
  <2>2. (ServedIsChecked /\ Checked /\ Named /\ Replacing)'
    BY <1>3 DEF IInv, TypeOK, ServedIsChecked, Checked, Named, Replacing, RemoveFails
  <2>3. Owned' BY <1>3 DEF IInv, TypeOK, Owned, Keeps, RemoveFails
  <2> QED BY <2>1, <2>2, <2>3 DEF IInv
<1> QED BY <1>1, <1>2, <1>3

\* A process that dies leaves its object to nobody, and releases the lock.
LEMMA DeathStep ==
  ASSUME IInv, NEW q \in Requests, RequestDies(q), raced' \subseteq Uploads
  PROVE  IInv'
<1> USE AvatarAssumption DEF Record, StoreUnchanged, ClientUnchanged, Answer, Idle, At, Upload
<1>1. TypeOK' BY DEF IInv, TypeOK, Named, RequestDies, Bytes
<1>2. (ServedIsChecked /\ Checked /\ Named /\ Replacing)'
  BY DEF IInv, TypeOK, ServedIsChecked, Checked, Named, Replacing, RequestDies
<1>3. Owned' BY DEF IInv, TypeOK, Owned, Keeps, RequestDies
<1> QED BY <1>1, <1>2, <1>3 DEF IInv

\* Every step preserves the strengthening.
LEMMA InductiveStep == IInv /\ [Next]_vars => IInv'
<1> SUFFICES ASSUME IInv, [Next]_vars PROVE IInv'
  OBVIOUS
<1>1. CASE UNCHANGED vars
  BY <1>1 DEF vars, IInv, TypeOK, ServedIsChecked, Checked, Named, Replacing, Owned, Keeps, At
<1>2. CASE Next
  <2>1. raced' \subseteq Uploads
    BY <1>2 DEF Next, Overlapping, IInv, TypeOK
  <2>2. CASE \E u \in Uploads :
               PresignAvatar(u) \/ UrlExpires(u) \/ \E bytes \in Bytes : Put(u, bytes)
    BY <2>1, <2>2, ClientStep
  <2>3. ASSUME NEW q \in Requests,
               \/ \E u \in Uploads : ReadPending(q, u)
               \/ DiscardPending(q) \/ WriteServed(q) \/ RemovePending(q)
               \/ RemovePendingFails(q) \/ WriteFails(q)
        PROVE  IInv'
    BY <2>1, <2>3, ConfirmStep
  <2>4. ASSUME NEW q \in Requests, ReplaceLock(q) \/ ReplaceUpsert(q) PROVE IInv'
    BY <2>1, <2>4, ReplaceStep
  <2>5. ASSUME NEW q \in Requests, RemoveRow(q) \/ RemoveObjects(q) \/ RemoveFails(q)
        PROVE  IInv'
    BY <2>1, <2>5, RemoveStep
  <2>6. ASSUME NEW q \in Requests, RequestDies(q) PROVE IInv'
    BY <2>1, <2>6, DeathStep
  <2> QED BY <1>2, <2>2, <2>3, <2>4, <2>5, <2>6 DEF Next, Step
<1> QED BY <1>1, <1>2

\* The strengthening is an invariant of Avatars.
LEMMA Inductive == Spec => []IInv
<1>1. IInv /\ [Next]_vars => IInv' BY InductiveStep
<1> QED BY InitInductive, <1>1, PTL DEF Spec

\* Every reachable state of Avatars is well typed.
THEOREM AvatarTypes == Spec => []TypeOK
<1>1. IInv => TypeOK BY DEF IInv
<1> QED BY Inductive, <1>1, PTL

\* Only bytes that were checked are ever served: an upload that overwrites its
\* pending object between the check and the promotion changes nothing.
THEOREM OnlyCheckedIsServed == Spec => []ServedIsChecked
<1>1. IInv => ServedIsChecked BY DEF IInv
<1> QED BY Inductive, <1>1, PTL

\* Whatever confirmations and removals interleave, once they are over a served
\* object is the avatar, or was left by a call that failed.
THEOREM NothingOrphaned == Spec => []NoOrphan
<1>1. IInv => NoOrphan BY DEF IInv, Owned, Keeps, NoOrphan, At
<1> QED BY Inductive, <1>1, PTL

-----------------------------------------------------------------------------

\* What the row points at, or will point at, was written and nobody removes it,
\* but for the uploads that a removal overlapped.
Backed ==
  /\ Overlapping \subseteq raced
  /\ \A q \in Requests :
       request[q].pc \in {"consume", "lock", "upsert"}
         => Upload(q) \in raced \/ served[Upload(q)] # None
  /\ \A q \in Requests :
       At(q, "drop") /\ avatar \in request[q].old => avatar \in raced
  /\ AvatarHasObject

LEMMA InitBacked == Init => Backed
BY AvatarAssumption DEF Init, Backed, Overlapping, AvatarHasObject, Idle, Record, At, Upload

\* A step that leaves the served objects and the row alone, and starts no removal.
LEMMA BackedKept ==
  ASSUME IInv, Backed, Next, UNCHANGED <<avatar, served>>,
         \A q \in Requests :
           /\ At(q, "drop")' => At(q, "drop") /\ request'[q].old = request[q].old
           /\ request'[q].pc \in {"consume", "lock", "upsert"}
                => /\ request[q].pc \in {"consume", "lock", "upsert"}
                   /\ Upload(q)' = Upload(q)
  PROVE  Backed'
<1>1. raced \subseteq raced' /\ Overlapping' \subseteq raced'
  BY DEF Next
<1> QED BY <1>1 DEF Backed, AvatarHasObject, At, Upload

LEMMA BackedStep == IInv /\ Backed /\ Next => Backed'
<1> SUFFICES ASSUME IInv, Backed, Next PROVE Backed'
  OBVIOUS
<1> USE AvatarAssumption
<1>0. raced \subseteq raced' /\ Overlapping' \subseteq raced'
  BY DEF Next
<1>1. ASSUME NEW q \in Requests, WriteServed(q) PROVE Backed'
  <2>1. /\ request[q].u \in Uploads /\ request[q].bytes # None
        /\ served' = [served EXCEPT ![request[q].u] = request[q].bytes]
        /\ request' = [request EXCEPT ![q].pc = "consume"] /\ avatar' = avatar
    BY <1>1 DEF WriteServed, Promoted, Turn, Upload, At, IInv, Named, TypeOK
  <2>2. \A u \in Uploads : served[u] # None => served'[u] # None
    BY <2>1 DEF IInv, TypeOK
  <2>3. \A p \in Requests :
          request'[p].pc \in {"consume", "lock", "upsert"}
            => Upload(p)' \in raced' \/ served'[Upload(p)'] # None
    BY <1>0, <2>1, <2>2 DEF IInv, TypeOK, Named, Backed, Upload
  <2>4. \A p \in Requests :
          At(p, "drop")' /\ avatar' \in request'[p].old => avatar' \in raced'
    BY <1>0, <2>1 DEF IInv, TypeOK, Backed, At
  <2>5. AvatarHasObject'
    BY <1>0, <2>1, <2>2 DEF IInv, TypeOK, Backed, AvatarHasObject
  <2> QED BY <1>0, <2>3, <2>4, <2>5 DEF Backed
<1>2. ASSUME NEW q \in Requests, ReplaceUpsert(q) PROVE Backed'
  <2>1. /\ request[q].u \in Uploads /\ request[q].pc = "upsert"
        /\ avatar' = request[q].u /\ served' = served
    BY <1>2 DEF ReplaceUpsert, StoreUnchanged, Upload, At, IInv, Named
  <2>2. /\ \A p \in Requests : p # q => request'[p] = request[p]
        /\ request'[q].pc \in {"idle", "drop"} /\ request[q].u \notin request'[q].old
    BY <1>2 DEF ReplaceUpsert, TurnToDrop, Replaced, Record, Idle, Upload, IInv, TypeOK
  <2>3. \A p \in Requests :
          request'[p].pc \in {"consume", "lock", "upsert"}
            => Upload(p)' \in raced' \/ served'[Upload(p)'] # None
    BY <1>0, <2>1, <2>2 DEF Backed, Upload
  <2>4. \A p \in Requests :
          At(p, "drop")' /\ avatar' \in request'[p].old => avatar' \in raced'
    <3> SUFFICES ASSUME NEW p \in Requests, At(p, "drop")', avatar' \in request'[p].old
                 PROVE  avatar' \in raced'
      OBVIOUS
    <3>1. At(p, "drop") /\ request[q].u \in request[p].old
      BY <2>1, <2>2 DEF At
    <3>2. request[q].u \in Overlapping
      BY <2>1, <3>1 DEF Overlapping, Upload
    <3> QED BY <1>0, <2>1, <3>2 DEF Backed
  <2>5. AvatarHasObject'
    BY <1>0, <2>1 DEF Backed, AvatarHasObject, Upload
  <2> QED BY <1>0, <2>3, <2>4, <2>5 DEF Backed
<1>3. ASSUME NEW q \in Requests, RemoveRow(q) PROVE Backed'
  <2>1. /\ avatar' = None /\ served' = served
        /\ \A p \in Requests : p # q => request'[p] = request[p]
        /\ request'[q].pc \in {"idle", "drop"}
        /\ \A p \in Requests : None \notin request'[p].old
    BY <1>3 DEF RemoveRow, StoreUnchanged, TurnToDrop, Record, Idle, IInv, TypeOK
  <2> QED BY <1>0, <2>1 DEF Backed, AvatarHasObject, Upload, At
<1>4. ASSUME NEW q \in Requests, RemoveObjects(q) PROVE Backed'
  <2>1. /\ avatar' = avatar /\ At(q, "drop") /\ request' = [request EXCEPT ![q] = Idle]
        /\ \A u \in Uploads : u \notin request[q].old => served'[u] = served[u]
    BY <1>4 DEF RemoveObjects, Answer
  <2>2. ASSUME NEW p \in Requests, request'[p].pc \in {"consume", "lock", "upsert"}
        PROVE  Upload(p)' \in raced' \/ served'[Upload(p)'] # None
    <3>1. request'[p] = request[p] /\ request[p].u \in Uploads
      BY <2>1, <2>2 DEF Idle, Record, IInv, TypeOK, Named
    <3>2. CASE request[p].u \in request[q].old
      <4>1. request[p].u \in Overlapping
        BY <2>1, <3>1, <3>2 DEF Overlapping, Upload
      <4> QED BY <1>0, <3>1, <4>1 DEF Backed, Upload
    <3>3. CASE request[p].u \notin request[q].old
      BY <1>0, <2>1, <2>2, <3>1, <3>3 DEF Backed, Upload
    <3> QED BY <3>2, <3>3
  <2>3. \A p \in Requests :
          At(p, "drop")' /\ avatar' \in request'[p].old => avatar' \in raced'
    BY <1>0, <2>1 DEF Backed, At, Idle, Record, IInv, TypeOK
  <2>4. AvatarHasObject'
    BY <1>0, <2>1 DEF Backed, AvatarHasObject, IInv, TypeOK
  <2> QED BY <1>0, <2>2, <2>3, <2>4 DEF Backed
<1>5. ASSUME NEW u \in Uploads,
             PresignAvatar(u) \/ UrlExpires(u) \/ \E bytes \in Bytes : Put(u, bytes)
      PROVE  Backed'
  <2>1. UNCHANGED <<avatar, served, request>>
    BY <1>5 DEF PresignAvatar, UrlExpires, Put, StoreUnchanged
  <2> QED BY <2>1, BackedKept DEF At, Upload
<1>6. ASSUME NEW q \in Requests,
             \/ \E u \in Uploads : ReadPending(q, u)
             \/ DiscardPending(q) \/ RemovePending(q) \/ ReplaceLock(q)
             \/ WriteFails(q) \/ RemovePendingFails(q) \/ RemoveFails(q) \/ RequestDies(q)
      PROVE  Backed'
  <2>1. UNCHANGED <<avatar, served>>
    BY <1>6 DEF ReadPending, DiscardPending, RemovePending, ReplaceLock, WriteFails,
                RemovePendingFails, RemoveFails, RequestDies, StoreUnchanged
  <2>2. /\ \A p \in Requests : p # q => request'[p] = request[p]
        /\ request'[q].pc # "drop"
        /\ request'[q].pc \in {"consume", "lock", "upsert"}
             => /\ request[q].pc \in {"consume", "lock", "upsert"}
                /\ request'[q].u = request[q].u
    BY <1>6 DEF ReadPending, DiscardPending, RemovePending, ReplaceLock, WriteFails,
                RemovePendingFails, RemoveFails, RequestDies, Turn, Answer, Idle, Record, At,
                IInv, TypeOK
  <2> QED BY <2>1, <2>2, BackedKept DEF At, Upload
<1> QED BY <1>1, <1>2, <1>3, <1>4, <1>5, <1>6 DEF Next, Step

\* The row points at an object that is there, unless a removal of the object was
\* under way while its upload was confirmed again.
THEOREM AvatarBacked == Spec => []AvatarHasObject
<1>1. IInv /\ Backed /\ [Next]_vars => Backed'
  <2>1. Backed /\ UNCHANGED vars => Backed'
    BY DEF vars, Backed, Overlapping, AvatarHasObject, At, Upload
  <2> QED BY <2>1, BackedStep
<1>2. Backed => AvatarHasObject BY DEF Backed
<1> QED BY InitBacked, Inductive, <1>1, <1>2, PTL DEF Spec
=============================================================================
