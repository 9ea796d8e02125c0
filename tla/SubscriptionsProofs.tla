------------------------- MODULE SubscriptionsProofs -------------------------
(***************************************************************************)
(* What the cache of Subscriptions promises, for any number of             *)
(* subscriptions, events and webhooks at once.  The invariant that carries *)
(* it is Agrees: once the event of the latest change is journalled, the    *)
(* row tells the truth and its stamp is no older than that change.         *)
(***************************************************************************)
EXTENDS Subscriptions, TLAPS, FiniteSetTheorems

\* Events are numbered in the order of their emission.
Numbered ==
  /\ IsFiniteSet(events)
  /\ \A e \in events : e.id \in 1..Cardinality(events)
  /\ \A e, f \in events : e.id = f.id => e = f
  /\ journal \subseteq 1..Cardinality(events)

\* The event of the latest change.
Latest(e) ==
  e.kind = "changed" /\ e.at = truth[e.sub].at /\ e.status = truth[e.sub].status

\* Events tell the past of the truth; the last thing it did has one.
Dated ==
  /\ \A s \in Subs : truth[s].at <= clock
  /\ \A e \in events :
       /\ e.at <= truth[e.sub].at /\ truth[e.sub].status # "none"
       /\ e.status = "canceled" => Latest(e)
       /\ e.kind = "failed" => e.status = "past_due"
  /\ \A s \in Existing : \E e \in events : e.sub = s /\ Latest(e)

\* Without its customer no row is kept, and what was journalled had no effect.
Attached ==
  /\ \A h \in Handlers : handler[h].known => customer # "unlinked"
  /\ customer # "linked" => \A s \in Subs : cache[s] = Absent
  /\ customer = "unlinked" =>
       \A e \in events : e.kind = "changed" /\ Seen(e) => e.sub \in disturbed

\* The reconciliation writes what it listed, where it read something else.
Listed ==
  /\ rec.pc \in {"read", "write"} =>
       \A s \in rec.todo : rec.list[s] # Absent /\ rec.list[s].status # "none"
  /\ rec.pc = "write" =>
       /\ rec.sub \in rec.todo
       /\ rec.stored # Absent => rec.stored.status # rec.list[rec.sub].status

Agrees ==
  \A e \in events :
    /\ customer = "linked" /\ e.sub \notin disturbed /\ ~Tied(e.sub)
    /\ Latest(e) /\ Seen(e)
    => /\ cache[e.sub] # Absent
       /\ cache[e.sub].status = truth[e.sub].status
       /\ truth[e.sub].at <= cache[e.sub].at

IInv == TypeOK /\ Numbered /\ Dated /\ Attached /\ Listed /\ Agrees

-----------------------------------------------------------------------------

\* A change goes to another status; none follows a cancellation.
LEMMA Succession ==
  ASSUME NEW from \in Statuses \cup {"none"}, NEW to \in NextStatus[from]
  PROVE  to \in Statuses /\ to # from /\ from # "canceled"
<1>1. CASE from = "none" BY <1>1 DEF NextStatus, Statuses, Granting
<1>2. CASE from = "trialing" BY <1>2 DEF NextStatus, Statuses, Granting
<1>3. CASE from = "active" BY <1>3 DEF NextStatus, Statuses, Granting
<1>4. CASE from = "past_due" BY <1>4 DEF NextStatus, Statuses, Granting
<1>5. CASE from = "canceled" BY <1>5 DEF NextStatus, Statuses, Granting
<1> QED BY <1>1, <1>2, <1>3, <1>4, <1>5 DEF Statuses, Granting

\* What a change emits: one or two events, numbered after all the others.
Emits(s, status, new) ==
  /\ truth' = [truth EXCEPT ![s] = [status |-> status, at |-> clock]]
  /\ events' = events \cup new
  /\ IsFiniteSet(events') /\ Cardinality(events) <= Cardinality(events')
  /\ Cardinality(events') <= MaxEvents
  /\ \A e \in new :
       /\ e \in Events /\ e.sub = s /\ e.status = status /\ e.at = clock
       /\ e.id \in (Cardinality(events) + 1)..Cardinality(events')
       /\ e.kind = "failed" => status = "past_due"
  /\ \A e, f \in new : e.id = f.id => e = f
  /\ \E e \in new : e.kind = "changed"

LEMMA Emission ==
  ASSUME IInv, NEW s \in Subs, Change(s)
  PROVE  \E status \in NextStatus[truth[s].status] : \E new : Emits(s, status, new)
<1>1. PICK status, n, c, f, new :
        /\ status \in NextStatus[truth[s].status]
        /\ n = Cardinality(events)
        /\ c = Emitted(n + 1, "changed", s, status)
        /\ f = Emitted(n + 2, "failed", s, status)
        /\ new = {c} \cup IF status = "past_due" THEN {f} ELSE {}
        /\ n + Cardinality(new) <= MaxEvents
        /\ truth' = [truth EXCEPT ![s] = [status |-> status, at |-> clock]]
        /\ events' = events \cup new
  BY DEF Change
<1>2. n \in Nat /\ IsFiniteSet(events)
  BY <1>1, FS_CardinalityType DEF IInv, Numbered
<1>3. status \in Statuses /\ clock \in 0..MaxClock
  BY <1>1, Succession DEF IInv, TypeOK, Truths
<1>4. c \notin events /\ f \notin events /\ c # f
  <2>1. c.id = n + 1 /\ f.id = n + 2 /\ c.kind = "changed" /\ f.kind = "failed"
    BY <1>1 DEF Emitted
  <2> QED BY <1>1, <1>2, <2>1 DEF IInv, Numbered
<1>5. IsFiniteSet({c}) /\ Cardinality({c}) = 1
  BY FS_Singleton
<1>6. IsFiniteSet(events \cup {c}) /\ Cardinality(events \cup {c}) = n + 1
  <2>1. c \notin events BY <1>4
  <2>2. n = Cardinality(events) BY <1>1
  <2> QED BY <1>2, <2>1, <2>2, FS_AddElement
<1>7. CASE status = "past_due"
  <2>1. new = {c} \cup {f} /\ events' = (events \cup {c}) \cup {f}
    BY <1>1, <1>7
  <2>2. Cardinality({c} \cup {f}) = 2
    <3>1. f \notin {c} BY <1>4
    <3>2. Cardinality({c} \cup {f}) = Cardinality({c}) + 1
      BY <3>1, <1>5, FS_AddElement
    <3> QED BY <3>2, <1>5
  <2>3. IsFiniteSet((events \cup {c}) \cup {f})
          /\ Cardinality((events \cup {c}) \cup {f}) = (n + 1) + 1
    <3>1. f \notin events \cup {c} BY <1>4
    <3> QED BY <3>1, <1>6, FS_AddElement
  <2>4. n + 2 <= MaxEvents BY <1>1, <2>1, <2>2
  <2>5. c \in Events /\ f \in Events
    BY <1>1, <1>2, <1>3, <2>4, SubscriptionsAssumption DEF Events, Emitted
  <2>6. Cardinality(events') = n + 2 /\ IsFiniteSet(events')
    BY <2>1, <2>3, <1>2
  <2>7. Emits(s, status, new)
    BY <1>1, <1>2, <1>7, <2>1, <2>4, <2>5, <2>6 DEF Emits, Emitted
  <2> QED BY <1>1, <2>7
<1>8. CASE status # "past_due"
  <2>1. new = {c} /\ events' = events \cup {c} /\ n + 1 <= MaxEvents
    BY <1>1, <1>5, <1>8
  <2>2. c \in Events
    BY <1>1, <1>2, <1>3, <2>1, SubscriptionsAssumption DEF Events, Emitted
  <2>3. Cardinality(events') = n + 1 /\ IsFiniteSet(events')
    BY <2>1, <1>6
  <2>4. c.id = n + 1 /\ c.kind = "changed" /\ c.sub = s /\ c.status = status /\ c.at = clock
    BY <1>1 DEF Emitted
  <2>5. c.id \in (n + 1)..Cardinality(events')
    BY <2>3, <2>4, <1>2
  <2>6. \A e \in new : e = c
    BY <2>1
  <2>7. Cardinality(events) <= Cardinality(events') /\ Cardinality(events') <= MaxEvents
    BY <1>1, <1>2, <2>1, <2>3
  <2>8. Emits(s, status, new)
    BY <1>1, <1>8, <2>1, <2>2, <2>3, <2>4, <2>5, <2>6, <2>7 DEF Emits
  <2> QED BY <1>1, <2>8
<1> QED BY <1>7, <1>8

\* The reconciliation is a record of its parts.
LEMMA ReconciliationParts ==
  ASSUME NEW pc \in {"idle", "list", "read", "write"}, NEW at \in 0..(MaxClock + Skew),
         NEW list \in [Subs -> Truths \cup {Absent}], NEW todo \in SUBSET Subs,
         NEW sub \in Subs \cup {Absent}, NEW stored \in Rows \cup {Absent}
  PROVE  /\ Reconciliation(pc, at, list, todo, sub, stored) \in Reconciliations
         /\ Reconciliation(pc, at, list, todo, sub, stored).pc = pc
         /\ Reconciliation(pc, at, list, todo, sub, stored).at = at
         /\ Reconciliation(pc, at, list, todo, sub, stored).list = list
         /\ Reconciliation(pc, at, list, todo, sub, stored).todo = todo
         /\ Reconciliation(pc, at, list, todo, sub, stored).sub = sub
         /\ Reconciliation(pc, at, list, todo, sub, stored).stored = stored
BY DEF Reconciliation, Reconciliations

LEMMA NothingToReconcile ==
  NoReconciliation \in Reconciliations /\ NoReconciliation.pc = "idle" /\ NoReconciliation.todo = {}
<1>1. NothingListed \in [Subs -> Truths \cup {Absent}]
  BY DEF NothingListed
<1>2. 0 \in 0..(MaxClock + Skew)
  BY SubscriptionsAssumption
<1> QED BY <1>1, <1>2, ReconciliationParts DEF NoReconciliation

\* One row written, the reconciliation goes on with the others.
LEMMA AdvancedParts ==
  ASSUME NEW r \in Reconciliations, NEW s
  PROVE  /\ Advanced(r, s) \in Reconciliations
         /\ Advanced(r, s).pc \in {"idle", "read"}
         /\ Advanced(r, s).pc = "read" =>
              Advanced(r, s).list = r.list /\ Advanced(r, s).todo \subseteq r.todo
<1>1. /\ r.at \in 0..(MaxClock + Skew) /\ r.list \in [Subs -> Truths \cup {Absent}]
      /\ r.todo \ {s} \in SUBSET Subs
  BY DEF Reconciliations
<1>2. CASE r.todo = {s}
  BY <1>2, NothingToReconcile DEF Advanced
<1>3. CASE r.todo # {s}
  BY <1>1, <1>3, ReconciliationParts DEF Advanced
<1> QED BY <1>2, <1>3

LEMMA WritingParts ==
  ASSUME NEW r \in Reconciliations, NEW s \in Subs, TypeOK
  PROVE  /\ Writing(r, s) \in Reconciliations
         /\ Writing(r, s).pc = "write" /\ Writing(r, s).list = r.list
         /\ Writing(r, s).todo = r.todo /\ Writing(r, s).sub = s
         /\ Writing(r, s).stored = cache[s]
<1>1. /\ r.at \in 0..(MaxClock + Skew) /\ r.list \in [Subs -> Truths \cup {Absent}]
      /\ r.todo \in SUBSET Subs /\ cache[s] \in Rows \cup {Absent}
  BY DEF Reconciliations, TypeOK
<1> QED BY <1>1, ReconciliationParts DEF Writing

\* Nothing has happened at first.
LEMMA InitInductive == Init => IInv
<1> SUFFICES ASSUME Init PROVE IInv
  OBVIOUS
<1> USE SubscriptionsAssumption DEF Init
<1>1. TypeOK
  BY NothingToReconcile DEF TypeOK, Truths, Statuses, Rows, Events, NoRequest, Deliveries
<1>2. Numbered BY FS_EmptySet DEF Numbered
<1>3. Dated BY DEF Dated, Existing
<1>4. Attached BY DEF Attached, NoRequest
<1>5. Listed BY NothingToReconcile DEF Listed
<1>6. Agrees BY DEF Agrees
<1> QED BY <1>1, <1>2, <1>3, <1>4, <1>5, <1>6 DEF IInv

\* Every step preserves the types.
LEMMA TypesStep == IInv /\ [Next]_vars => TypeOK'
<1> SUFFICES ASSUME IInv, [Next]_vars PROVE TypeOK'
  OBVIOUS
<1> USE SubscriptionsAssumption DEF ProviderUnchanged, OursUnchanged, RecUnchanged, NoRequest
<1>1. ASSUME Tick PROVE TypeOK'
  BY <1>1 DEF IInv, TypeOK, Truths, Rows, Events, Tick
<1>2. ASSUME NEW s \in Subs, Change(s) PROVE TypeOK'
  <2>1. PICK status, new :
        status \in NextStatus[truth[s].status] /\ Emits(s, status, new)
    BY <1>2, Emission
  <2>2. status \in Statuses BY <2>1, Succession DEF IInv, TypeOK, Truths
  <2> QED BY <1>2, <2>1, <2>2 DEF IInv, TypeOK, Truths, Emits, Change
<1>3. ASSUME LinkCustomer PROVE TypeOK'
  BY <1>3 DEF IInv, TypeOK, LinkCustomer
<1>4. ASSUME DeleteScope PROVE TypeOK'
  BY <1>4 DEF IInv, TypeOK, DeleteScope
<1>5. ASSUME NEW h \in Handlers, Receive(h) PROVE TypeOK'
  <2>1. PICK e \in events :
          handler' = [handler EXCEPT ![h] = [ev |-> e, known |-> customer = "linked"]]
    BY <1>5 DEF Receive
  <2>2. [ev |-> e, known |-> customer = "linked"] \in Deliveries
    BY DEF IInv, TypeOK, Deliveries
  <2>3. handler' \in [Handlers -> Deliveries]
          /\ \A g \in Handlers : handler'[g] # NoRequest => handler'[g].ev \in events
    BY <2>1, <2>2 DEF IInv, TypeOK
  <2> QED BY <1>5, <2>3 DEF Receive, IInv, TypeOK
<1>6. ASSUME NEW h \in Handlers, ApplyEvent(h) PROVE TypeOK'
  <2> DEFINE e == handler[h].ev
  <2>1. e \in Events BY <1>6 DEF ApplyEvent, IInv, TypeOK
  <2>2. e.id \in 1..MaxEvents /\ e.sub \in Subs BY <2>1 DEF Events
  <2>3. Failed(cache[e.sub], e) \in Rows \cup {Absent} /\ Upserted(cache[e.sub], e) \in Rows \cup {Absent}
    BY <2>1, <2>2 DEF IInv, TypeOK, Failed, Upserted, Row, Rows, Events, Statuses, Granting
  <2>4. cache' \in [Subs -> Rows \cup {Absent}]
    BY <1>6, <2>2, <2>3 DEF ApplyEvent, IInv, TypeOK
  <2>5. handler' \in [Handlers -> Deliveries]
          /\ \A g \in Handlers : handler'[g] # NoRequest => handler'[g].ev \in events
    BY <1>6 DEF ApplyEvent, IInv, TypeOK, Deliveries
  <2>6. journal' \subseteq 1..MaxEvents /\ disturbed' \subseteq Subs
    BY ZenonT(40), <1>6, <2>2 DEF ApplyEvent, IInv, TypeOK
  <2> QED BY <1>6, <2>4, <2>5, <2>6 DEF ApplyEvent, IInv, TypeOK
<1>7. ASSUME NEW h \in Handlers, RequestFails(h) PROVE TypeOK'
  BY <1>7 DEF IInv, TypeOK, RequestFails, Deliveries
<1>8. ASSUME ReconcileCustomer PROVE TypeOK'
  <2>1. clock + Skew \in 0..(MaxClock + Skew) BY DEF IInv, TypeOK
  <2>2. NothingListed \in [Subs -> Truths \cup {Absent}] BY DEF NothingListed
  <2>3. rec' \in Reconciliations
    BY <1>8, <2>1, <2>2, ReconciliationParts DEF ReconcileCustomer
  <2> QED BY <1>8, <2>3 DEF IInv, TypeOK, ReconcileCustomer
<1>9. ASSUME ListFails PROVE TypeOK'
  BY <1>9, NothingToReconcile DEF IInv, TypeOK, ListFails
<1>10. ASSUME ListSubscriptions PROVE TypeOK'
  <2> DEFINE list == [s \in Subs |-> IF s \in Existing THEN truth[s] ELSE Absent]
  <2>1. list \in [Subs -> Truths \cup {Absent}] /\ Existing \subseteq Subs
    BY DEF IInv, TypeOK, Existing
  <2>2. rec.at \in 0..(MaxClock + Skew)
    BY DEF IInv, TypeOK, Reconciliations
  <2>3. rec' \in Reconciliations
    BY <1>10, <2>1, <2>2, NothingToReconcile, ReconciliationParts DEF ListSubscriptions
  <2> QED BY <1>10, <2>3 DEF IInv, TypeOK, ListSubscriptions
<1>11. ASSUME NEW s \in Subs, ReadRow(s) PROVE TypeOK'
  <2>1. Writing(rec, s) \in Reconciliations
    BY WritingParts DEF IInv, TypeOK
  <2>2. rec' \in Reconciliations
    BY <1>11, <2>1, AdvancedParts DEF IInv, TypeOK, ReadRow
  <2> QED BY <1>11, <2>2 DEF IInv, TypeOK, ReadRow
<1>12. ASSUME ReplaceRow PROVE TypeOK'
  <2>1. rec.sub \in Subs /\ rec.list[rec.sub] \in Truths /\ rec.list[rec.sub].status # "none"
    BY <1>12 DEF IInv, TypeOK, Listed, ReplaceRow, Reconciliations
  <2>2. Row(rec.list[rec.sub].status, rec.at) \in Rows
    BY <2>1 DEF IInv, TypeOK, Row, Rows, Truths, Reconciliations
  <2>3. rec' \in Reconciliations
    BY <1>12, <2>1, NothingToReconcile, AdvancedParts DEF IInv, TypeOK, ReplaceRow
  <2>4. cache' \in [Subs -> Rows \cup {Absent}] /\ disturbed' \subseteq Subs
    BY <1>12, <2>1, <2>2 DEF IInv, TypeOK, ReplaceRow
  <2> QED BY <1>12, <2>3, <2>4 DEF IInv, TypeOK, ReplaceRow
<1>13. ASSUME UNCHANGED vars PROVE TypeOK'
  BY <1>13 DEF vars, IInv, TypeOK
<1> QED
  BY <1>1, <1>2, <1>3, <1>4, <1>5, <1>6, <1>7, <1>8, <1>9, <1>10, <1>11, <1>12, <1>13
     DEF Next, Reconcile

\* The numbers of the events stay in order.
LEMMA NumberedStep == IInv /\ [Next]_vars => Numbered'
<1> SUFFICES ASSUME IInv, [Next]_vars PROVE Numbered'
  OBVIOUS
<1> USE DEF ProviderUnchanged, OursUnchanged, RecUnchanged
<1>0. Cardinality(events) \in Nat
  BY FS_CardinalityType DEF IInv, Numbered
<1>1. ASSUME NEW s \in Subs, Change(s) PROVE Numbered'
  <2>1. PICK status, new : Emits(s, status, new) /\ UNCHANGED journal
    BY <1>1, Emission DEF Change
  <2>2. Cardinality(events') \in Nat
    BY <2>1, FS_CardinalityType DEF Emits
  <2>3. \A e \in events : e.id \in 1..Cardinality(events) /\ e.id \in 1..Cardinality(events')
    BY <2>1, <2>2, <1>0 DEF Emits, IInv, Numbered
  <2>4. ASSUME NEW e \in new
        PROVE  e.id \in 1..Cardinality(events') /\ e.id \notin 1..Cardinality(events)
    <3> DEFINE n == Cardinality(events)
               m == Cardinality(events')
    <3>1. e.id \in (n + 1)..m BY <2>1 DEF Emits
    <3>2. n \in Nat /\ m \in Nat BY <2>2, <1>0
    <3> HIDE DEF n, m
    <3>3. e.id \in 1..m /\ e.id \notin 1..n BY <3>1, <3>2
    <3> QED BY <3>3 DEF n, m
  <2>5. \A e, f \in events' : e.id = f.id => e = f
    BY <2>1, <2>3, <2>4 DEF Emits, IInv, Numbered
  <2>6. journal' \subseteq 1..Cardinality(events')
    BY <2>1, <2>2, <1>0 DEF Emits, IInv, Numbered
  <2> QED BY <2>1, <2>3, <2>4, <2>5, <2>6 DEF Emits, Numbered
<1>2. ASSUME NEW h \in Handlers, ApplyEvent(h) PROVE Numbered'
  <2>1. handler[h].ev \in events BY <1>2 DEF IInv, TypeOK, ApplyEvent
  <2> QED BY ZenonT(40), <1>2, <2>1 DEF ApplyEvent, IInv, Numbered
<1>3. ASSUME UNCHANGED <<events, journal>> PROVE Numbered'
  BY <1>3 DEF IInv, Numbered
<1> QED
  BY <1>1, <1>2, <1>3
     DEF Next, Reconcile, Tick, LinkCustomer, DeleteScope, Receive, RequestFails, ReconcileCustomer,
         ListFails, ListSubscriptions, ReadRow, ReplaceRow, vars

\* The events keep telling the past of the truth.
LEMMA DatedStep == IInv /\ [Next]_vars => Dated'
<1> SUFFICES ASSUME IInv, [Next]_vars PROVE Dated'
  OBVIOUS
<1> USE DEF ProviderUnchanged, OursUnchanged, RecUnchanged
<1>0. clock \in Nat /\ (\A s \in Subs : truth[s].at \in Nat) /\ (\A e \in events : e.sub \in Subs /\ e.at \in Nat)
  BY SubscriptionsAssumption DEF IInv, TypeOK, Truths, Events
<1>1. ASSUME Tick PROVE Dated'
  BY <1>0, <1>1 DEF Tick, IInv, Dated, Existing, Latest
<1>2. ASSUME NEW s \in Subs, Change(s) PROVE Dated'
  <2>1. PICK status, new :
        status \in NextStatus[truth[s].status] /\ Emits(s, status, new) /\ UNCHANGED clock
    BY <1>2, Emission DEF Change
  <2>2. status \in Statuses /\ status # "none" /\ truth[s].status # "canceled"
    BY <2>1, Succession DEF IInv, TypeOK, Truths, Statuses, Granting
  <2>3. truth'[s].status = status /\ truth'[s].at = clock
    BY <2>1 DEF Emits, IInv, TypeOK
  <2>4. \A q \in Subs : q # s => truth'[q] = truth[q]
    BY <2>1 DEF Emits, IInv, TypeOK
  <2>5. \A q \in Subs : truth'[q].at <= clock'
    BY <2>1, <2>3, <2>4, <1>0 DEF IInv, Dated
  <2>6. ASSUME NEW e \in new
        PROVE  /\ e.at <= truth'[e.sub].at /\ truth'[e.sub].status # "none"
               /\ e.status = "canceled" => Latest(e)'
               /\ e.kind = "failed" => e.status = "past_due"
    <3>1. e \in Events /\ e.sub = s /\ e.status = status /\ e.at = clock
            /\ (e.kind = "failed" => status = "past_due")
      BY <2>1 DEF Emits
    <3>2. e.kind \in {"changed", "failed"} BY <3>1 DEF Events
    <3> QED BY <3>1, <3>2, <2>2, <2>3, <1>0 DEF Latest
  <2>7. ASSUME NEW e \in events
        PROVE  /\ e.at <= truth'[e.sub].at /\ truth'[e.sub].status # "none"
               /\ e.status = "canceled" => Latest(e)'
               /\ e.kind = "failed" => e.status = "past_due"
    <3>1. CASE e.sub = s
      <4>1. e.at <= truth[s].at /\ truth[s].at <= clock
        BY <3>1 DEF IInv, Dated
      <4>2. e.status # "canceled"
        BY <3>1, <2>2 DEF IInv, Dated, Latest
      <4> QED BY <3>1, <4>1, <4>2, <2>2, <2>3, <1>0 DEF IInv, Dated
    <3>2. CASE e.sub # s
      BY <3>2, <2>4, <1>0 DEF IInv, Dated, Latest
    <3> QED BY <3>1, <3>2
  <2>8. ASSUME NEW q \in Existing' PROVE \E e \in events' : e.sub = q /\ Latest(e)'
    <3>1. CASE q = s
      <4>1. PICK e \in new : e.kind = "changed" /\ e.sub = s /\ e.status = status /\ e.at = clock
        BY <2>1 DEF Emits
      <4>2. Latest(e)' BY <4>1, <2>3 DEF Latest
      <4> QED BY <3>1, <4>1, <4>2, <2>1 DEF Emits
    <3>2. CASE q # s
      <4>1. q \in Existing BY <3>2, <2>4 DEF Existing
      <4>2. PICK e \in events : e.sub = q /\ Latest(e) BY <4>1 DEF IInv, Dated
      <4>3. Latest(e)' BY <3>2, <4>1, <4>2, <2>4 DEF Latest, Existing
      <4> QED BY <4>2, <4>3, <2>1 DEF Emits
    <3> QED BY <3>1, <3>2
  <2>9. events' = events \cup new BY <2>1 DEF Emits
  <2> QED BY <2>5, <2>6, <2>7, <2>8, <2>9 DEF Dated
<1>3. ASSUME UNCHANGED <<clock, truth, events>> PROVE Dated'
  BY <1>3 DEF IInv, Dated, Existing, Latest
<1> QED
  BY <1>1, <1>2, <1>3
     DEF Next, Reconcile, ApplyEvent, LinkCustomer, DeleteScope, Receive, RequestFails, ReconcileCustomer,
         ListFails, ListSubscriptions, ReadRow, ReplaceRow, vars

\* What has no customer keeps having no row.
LEMMA AttachedStep == IInv /\ [Next]_vars => Attached'
<1> SUFFICES ASSUME IInv, [Next]_vars PROVE Attached'
  OBVIOUS
<1> USE DEF ProviderUnchanged, OursUnchanged, RecUnchanged
<1>1. ASSUME NEW s \in Subs, Change(s) PROVE Attached'
  <2>1. PICK status, new : Emits(s, status, new)
          /\ UNCHANGED <<customer, journal, cache, handler, disturbed>>
    BY <1>1, Emission DEF Change
  <2>2. Cardinality(events) \in Nat
    BY FS_CardinalityType DEF IInv, Numbered
  <2>3. \A e \in new : ~Seen(e)'
    BY <2>1, <2>2 DEF Emits, Seen, IInv, Numbered
  <2>4. events' = events \cup new BY <2>1 DEF Emits
  <2> QED BY <2>1, <2>3, <2>4 DEF IInv, Attached, Seen
<1>2. ASSUME LinkCustomer PROVE Attached'
  BY <1>2 DEF LinkCustomer, IInv, Attached
<1>3. ASSUME DeleteScope PROVE Attached'
  BY <1>3 DEF DeleteScope, IInv, Attached
<1>4. ASSUME NEW h \in Handlers, Receive(h) PROVE Attached'
  <2>1. PICK e \in events :
          handler' = [handler EXCEPT ![h] = [ev |-> e, known |-> customer = "linked"]]
    BY <1>4 DEF Receive
  <2>2. handler'[h].known = (customer = "linked")
    BY <2>1 DEF IInv, TypeOK
  <2>3. \A g \in Handlers : g # h => handler'[g] = handler[g]
    BY <2>1 DEF IInv, TypeOK
  <2> QED BY <1>4, <2>2, <2>3 DEF Receive, IInv, Attached, Seen
<1>5. ASSUME NEW h \in Handlers, ApplyEvent(h) PROVE Attached'
  <2> DEFINE e == handler[h].ev
  <2>0. e \in events /\ e.sub \in Subs
    BY <1>5 DEF ApplyEvent, IInv, TypeOK, Events
  <2>1. \A g \in Handlers : handler'[g].known => handler[g].known
    BY <1>5 DEF ApplyEvent, IInv, TypeOK, NoRequest
  <2>2. ASSUME customer # "linked", NEW s \in Subs PROVE cache'[s] = Absent
    <3>1. cache[s] = Absent /\ cache[e.sub] = Absent
      BY <2>0, <2>2 DEF IInv, Attached
    <3>2. Failed(Absent, e) = Absent BY DEF Failed
    <3>3. e.kind \in {"changed", "failed"} BY <2>0 DEF IInv, TypeOK, Events
    <3>4. e.kind = "changed" /\ handler[h].known => UNCHANGED cache
      BY <1>5, <2>2 DEF ApplyEvent
    <3>5. e.kind = "failed" \/ ~handler[h].known => cache' = [cache EXCEPT ![e.sub] = Absent] \/ UNCHANGED cache
      BY <1>5, <3>1, <3>2 DEF ApplyEvent
    <3> QED BY <3>1, <3>3, <3>4, <3>5 DEF IInv, TypeOK
  <2>3. ASSUME customer = "unlinked", NEW f \in events, f.kind = "changed", Seen(f)'
        PROVE  f.sub \in disturbed'
    <3>1. ~handler[h].known BY <2>3 DEF IInv, Attached
    <3>2. CASE Seen(f)
      BY <1>5, <3>2, <2>3 DEF ApplyEvent, IInv, Attached
    <3>3. CASE ~Seen(f)
      <4>1. f.id = e.id /\ ~Seen(e)
        BY <1>5, <3>3, <2>3 DEF ApplyEvent, Seen
      <4>2. f = e BY <4>1, <2>0 DEF IInv, Numbered
      <4>3. Lost(e, handler[h].known) BY <2>3, <3>1, <4>2 DEF Lost
      <4> QED BY <1>5, <3>1, <4>1, <4>2, <4>3 DEF ApplyEvent
    <3> QED BY <3>2, <3>3
  <2> QED BY <1>5, <2>1, <2>2, <2>3 DEF ApplyEvent, Attached, IInv
<1>6. ASSUME NEW h \in Handlers, RequestFails(h) PROVE Attached'
  BY <1>6 DEF RequestFails, IInv, TypeOK, Attached, NoRequest, Seen
<1>7. ASSUME ReplaceRow PROVE Attached'
  BY <1>7 DEF ReplaceRow, IInv, Attached, Seen
<1>8. ASSUME UNCHANGED <<events, customer, journal, cache, handler, disturbed>> PROVE Attached'
  BY <1>8 DEF IInv, Attached, Seen
<1> QED
  BY <1>1, <1>2, <1>3, <1>4, <1>5, <1>6, <1>7, <1>8
     DEF Next, Reconcile, Tick, ReconcileCustomer, ListFails, ListSubscriptions, ReadRow, vars

\* The reconciliation keeps what it listed.
LEMMA ListedStep == IInv /\ [Next]_vars => Listed'
<1> SUFFICES ASSUME IInv, [Next]_vars PROVE Listed'
  OBVIOUS
<1> USE DEF ProviderUnchanged, OursUnchanged, RecUnchanged
<1>0. rec \in Reconciliations BY DEF IInv, TypeOK
<1>1. ASSUME rec' = NoReconciliation PROVE Listed'
  BY <1>1, NothingToReconcile DEF Listed
<1>2. ASSUME NEW s, rec' = Advanced(rec, s), rec.pc \in {"read", "write"} PROVE Listed'
  BY <1>0, <1>2, AdvancedParts DEF IInv, Listed
<1>3. ASSUME ReconcileCustomer PROVE Listed'
  <2>1. clock + Skew \in 0..(MaxClock + Skew)
    BY SubscriptionsAssumption DEF IInv, TypeOK
  <2>2. NothingListed \in [Subs -> Truths \cup {Absent}] BY DEF NothingListed
  <2>3. rec'.pc = "list" BY <1>3, <2>1, <2>2, ReconciliationParts DEF ReconcileCustomer
  <2> QED BY <2>3 DEF Listed
<1>4. ASSUME ListSubscriptions PROVE Listed'
  <2> DEFINE list == [s \in Subs |-> IF s \in Existing THEN truth[s] ELSE Absent]
  <2>1. list \in [Subs -> Truths \cup {Absent}] /\ Existing \subseteq Subs
    BY DEF IInv, TypeOK, Existing
  <2>2. rec.at \in 0..(MaxClock + Skew)
    BY <1>0 DEF Reconciliations
  <2>3. CASE Existing # {}
    <3>1. rec'.pc = "read" /\ rec'.list = list /\ rec'.todo = Existing
      BY <1>4, <2>1, <2>2, <2>3, ReconciliationParts DEF ListSubscriptions
    <3>2. \A s \in Existing : list[s] # Absent /\ list[s].status # "none"
      BY SubscriptionsAssumption DEF Existing, IInv, TypeOK
    <3> QED BY <3>1, <3>2 DEF Listed
  <2> QED BY <1>1, <1>4, <2>3 DEF ListSubscriptions
<1>5. ASSUME NEW s \in Subs, ReadRow(s) PROVE Listed'
  <2>1. CASE rec' = Writing(rec, s) /\ ~(cache[s] # Absent /\ cache[s].status = rec.list[s].status)
    <3>1. /\ rec'.pc = "write" /\ rec'.list = rec.list /\ rec'.todo = rec.todo
          /\ rec'.sub = s /\ rec'.stored = cache[s]
      BY <1>0, <2>1, WritingParts DEF IInv
    <3> QED BY <1>5, <2>1, <3>1 DEF ReadRow, IInv, Listed
  <2> QED BY <1>2, <1>5, <2>1 DEF ReadRow
<1>6. ASSUME ReplaceRow PROVE Listed'
  BY <1>1, <1>2, <1>6 DEF ReplaceRow
<1>7. ASSUME UNCHANGED rec PROVE Listed'
  BY <1>7 DEF IInv, Listed
<1> QED
  BY <1>1, <1>3, <1>4, <1>5, <1>6, <1>7
     DEF Next, Reconcile, Tick, Change, LinkCustomer, DeleteScope, Receive, ApplyEvent, RequestFails,
         ListFails, vars

\* A change follows its events: none is journalled yet, and when it shares
\* its second with the one before, the two are tied.
LEMMA AgreesChange ==
  ASSUME IInv, NEW s \in Subs, Change(s)
  PROVE  Agrees'
<1>1. PICK status, new :
        status \in NextStatus[truth[s].status] /\ Emits(s, status, new) /\ UNCHANGED <<clock, customer, journal, cache, disturbed>>
  BY Emission DEF Change, OursUnchanged
<1>2. status # truth[s].status /\ status # "none"
  BY <1>1, Succession DEF IInv, TypeOK, Truths, Statuses, Granting
<1>3. truth'[s].status = status /\ truth'[s].at = clock
  BY <1>1 DEF Emits, IInv, TypeOK
<1>4. \A q \in Subs : q # s => truth'[q] = truth[q]
  BY <1>1 DEF Emits, IInv, TypeOK
<1>5. events' = events \cup new BY <1>1 DEF Emits
<1>6. \A e \in new : ~Seen(e)'
  <2>1. Cardinality(events) \in Nat
    BY FS_CardinalityType DEF IInv, Numbered
  <2> QED BY <1>1, <2>1 DEF Emits, Seen, IInv, Numbered
<1>7. ASSUME NEW e \in events', customer' = "linked", e.sub \notin disturbed', ~Tied(e.sub)',
             Latest(e)', Seen(e)'
      PROVE  /\ cache'[e.sub] # Absent
             /\ cache'[e.sub].status = truth'[e.sub].status
             /\ truth'[e.sub].at <= cache'[e.sub].at
  <2>1. e \in events BY <1>5, <1>6, <1>7
  <2>2. CASE e.sub = s
    <3>1. e.at <= truth[s].at /\ truth[s].at <= clock /\ truth[s].status # "none"
      BY <2>1, <2>2 DEF IInv, Dated
    <3>2. e.at = clock BY <1>3, <1>7, <2>2 DEF Latest
    <3>3. truth[s].at = clock
      <4>1. truth[s].at \in 0..MaxClock /\ clock \in 0..MaxClock
        BY DEF IInv, TypeOK, Truths
      <4>2. clock <= truth[s].at /\ truth[s].at <= clock
        BY <3>1, <3>2
      <4> QED BY <4>1, <4>2, SubscriptionsAssumption
    <3>4. PICK f \in events : f.sub = s /\ Latest(f)
      BY <3>1 DEF IInv, Dated, Existing
    <3>5. f.at = truth'[s].at /\ f.status # truth'[s].status
      BY <1>2, <1>3, <3>3, <3>4 DEF Latest
    <3>6. Tied(s)' BY <1>5, <3>4, <3>5 DEF Tied
    <3> QED BY <1>7, <2>2, <3>6
  <2>3. CASE e.sub # s
    <3>1. e.sub \in Subs BY <2>1 DEF IInv, TypeOK, Events
    <3>2. truth'[e.sub] = truth[e.sub] BY <1>4, <2>3, <3>1
    <3>3. ~Tied(e.sub) BY <1>5, <1>7, <3>2 DEF Tied
    <3>4. Latest(e) /\ Seen(e) BY <1>1, <1>7, <3>2 DEF Latest, Seen
    <3> QED BY <1>1, <1>7, <2>1, <3>2, <3>3, <3>4 DEF IInv, Agrees
  <2> QED BY <2>2, <2>3
<1> QED BY <1>7 DEF Agrees

\* An event applied brings the row to the truth, or finds it there.
LEMMA AgreesApply ==
  ASSUME IInv, NEW h \in Handlers, ApplyEvent(h)
  PROVE  Agrees'
<1> USE DEF ProviderUnchanged
<1> DEFINE d == handler[h].ev
<1>1. d \in events /\ d \in Events /\ d.sub \in Subs /\ d.at \in Nat
  BY SubscriptionsAssumption DEF ApplyEvent, IInv, TypeOK, Events
<1>2. ASSUME NEW e \in events, customer = "linked", e.sub \notin disturbed', ~Tied(e.sub),
             Latest(e), Seen(e)'
      PROVE  /\ cache'[e.sub] # Absent
             /\ cache'[e.sub].status = truth[e.sub].status
             /\ truth[e.sub].at <= cache'[e.sub].at
  <2>1. e.sub \in Subs /\ e.sub \notin disturbed /\ truth[e.sub].at \in Nat
    BY <1>2, SubscriptionsAssumption DEF ApplyEvent, IInv, TypeOK, Events, Truths
  <2>2. CASE Seen(e)
    <3>1. /\ cache[e.sub] # Absent /\ cache[e.sub].status = truth[e.sub].status
          /\ truth[e.sub].at <= cache[e.sub].at
      BY <1>2, <2>1, <2>2 DEF IInv, Agrees
    <3>2. cache[e.sub].at \in Nat
      BY <2>1, <3>1, SubscriptionsAssumption DEF IInv, TypeOK, Rows
    <3>3. CASE cache'[e.sub] = cache[e.sub] BY <3>1, <3>3
    <3>4. CASE cache'[e.sub] # cache[e.sub]
      <4>1. e.sub = d.sub /\ cache[d.sub] # Absent
        BY <1>1, <2>1, <3>1, <3>4 DEF ApplyEvent, IInv, TypeOK
      <4>2. \/ d.kind = "failed" /\ cache'[d.sub] = Failed(cache[d.sub], d)
            \/ cache'[d.sub] = Upserted(cache[d.sub], d)
        BY <1>1, <3>4, <4>1 DEF ApplyEvent, IInv, TypeOK
      <4>3. cache[d.sub].at <= d.at
        BY <3>4, <4>1, <4>2 DEF Failed, Upserted, AppliesAfter
      <4>4. d.at = truth[d.sub].at
        BY <1>1, <2>1, <3>1, <3>2, <4>1, <4>3 DEF IInv, Dated
      <4>5. d.status = truth[d.sub].status
        BY <1>1, <1>2, <4>1, <4>4 DEF Tied
      <4>6. d.kind = "failed" => d.status = "past_due"
        BY <1>1 DEF IInv, Dated
      <4>7. cache'[d.sub] = Row(d.status, d.at)
        BY <3>4, <4>1, <4>2, <4>6 DEF Failed, Upserted
      <4>8. Row(d.status, d.at) # Absent
        BY <1>1, SubscriptionsAssumption DEF Row, Rows, Events
      <4> QED BY <2>1, <4>1, <4>4, <4>5, <4>7, <4>8 DEF Row
    <3> QED BY <3>3, <3>4
  <2>3. CASE ~Seen(e)
    <3>1. e.id = d.id /\ ~Seen(d) /\ ~(d.kind = "changed" /\ handler[h].known /\ customer # "linked")
      BY <1>2, <2>3 DEF ApplyEvent, Seen
    <3>2. e = d BY <1>1, <3>1 DEF IInv, Numbered
    <3>3. ~Lost(d, handler[h].known)
      BY <1>2, <3>1, <3>2 DEF ApplyEvent
    <3>4. d.kind = "changed" /\ d.at = truth[d.sub].at /\ d.status = truth[d.sub].status
      BY <1>2, <3>2 DEF Latest
    <3>5. handler[h].known /\ AppliesAfter(cache[d.sub], d.at)
      BY <3>3, <3>4 DEF Lost
    <3>6. cache'[d.sub] = Row(d.status, d.at)
      BY <1>1, <3>1, <3>4, <3>5 DEF ApplyEvent, Upserted, IInv, TypeOK
    <3>7. Row(d.status, d.at) # Absent
      BY <1>1, SubscriptionsAssumption DEF Row, Rows, Events
    <3> QED BY <2>1, <3>2, <3>4, <3>6, <3>7 DEF Row
  <2> QED BY <2>2, <2>3
<1>3. UNCHANGED <<truth, events, customer>>
  BY DEF ApplyEvent
<1> QED BY <1>2, <1>3 DEF Agrees, Tied, Latest

\* The rows the reconciliation writes over are not those that agree.
LEMMA AgreesReplace ==
  ASSUME IInv, ReplaceRow
  PROVE  Agrees'
<1> USE DEF ProviderUnchanged, RecUnchanged
<1> DEFINE s == rec.sub
<1>1. s \in Subs /\ rec.list[s].status # "none"
        /\ (rec.stored # Absent => rec.stored.status # rec.list[s].status)
  BY DEF ReplaceRow, IInv, Listed, TypeOK, Reconciliations
<1>2. ASSUME NEW e \in events, customer = "linked", e.sub \notin disturbed', ~Tied(e.sub),
             Latest(e), Seen(e)
      PROVE  /\ cache'[e.sub] # Absent
             /\ cache'[e.sub].status = truth[e.sub].status
             /\ truth[e.sub].at <= cache'[e.sub].at
  <2>1. e.sub \in Subs /\ e.sub \notin disturbed
    BY <1>2 DEF ReplaceRow, IInv, TypeOK, Events
  <2>2. /\ cache[e.sub] # Absent /\ cache[e.sub].status = truth[e.sub].status
        /\ truth[e.sub].at <= cache[e.sub].at
    BY <1>2, <2>1 DEF IInv, Agrees
  <2>3. CASE e.sub = s
    <3>1. rec.list[s] = truth[s] /\ cache[s] = rec.stored
      BY <1>2, <2>3 DEF ReplaceRow
    <3> QED BY <1>1, <2>2, <2>3, <3>1
  <2>4. CASE e.sub # s
    <3>1. cache'[e.sub] = cache[e.sub]
      BY <1>1, <1>2, <2>1, <2>4 DEF ReplaceRow, IInv, TypeOK
    <3> QED BY <2>2, <3>1
  <2> QED BY <2>3, <2>4
<1>3. UNCHANGED <<truth, events, customer, journal>>
  BY DEF ReplaceRow
<1> QED BY <1>2, <1>3 DEF Agrees, Tied, Latest, Seen

LEMMA AgreesStep == IInv /\ [Next]_vars => Agrees'
<1> SUFFICES ASSUME IInv, [Next]_vars PROVE Agrees'
  OBVIOUS
<1> USE DEF ProviderUnchanged, OursUnchanged, RecUnchanged
<1>1. ASSUME LinkCustomer PROVE Agrees'
  BY <1>1 DEF LinkCustomer, IInv, Attached, Agrees, Latest, Seen
<1>2. ASSUME DeleteScope PROVE Agrees'
  BY <1>2 DEF DeleteScope, Agrees
<1>3. ASSUME UNCHANGED <<truth, events, customer, journal, cache, disturbed>> PROVE Agrees'
  BY <1>3 DEF IInv, Agrees, Tied, Latest, Seen
<1> QED
  BY <1>1, <1>2, <1>3, AgreesChange, AgreesApply, AgreesReplace
     DEF Next, Reconcile, Tick, Receive, RequestFails, ReconcileCustomer, ListFails,
         ListSubscriptions, ReadRow, vars

THEOREM Inductive == Spec => []IInv
<1>1. IInv /\ [Next]_vars => IInv'
  BY TypesStep, NumberedStep, DatedStep, AttachedStep, ListedStep, AgreesStep DEF IInv
<1> QED BY InitInductive, <1>1, PTL DEF Spec

-----------------------------------------------------------------------------

\* The types of the state, for every number of webhooks and events.
THEOREM SubscriptionTypes == Spec => []TypeOK
<1>1. IInv => TypeOK BY DEF IInv
<1> QED BY Inductive, <1>1, PTL

\* Once every event of a subscription is journalled the cache tells the
\* truth, whatever order they came in and whatever reconciliation ran.
THEOREM CacheTells == Spec => []CacheMatches
<1>1. IInv => CacheMatches
  <2> SUFFICES ASSUME IInv, NEW s \in Existing, customer = "linked", s \notin disturbed, ~Tied(s),
                      \A e \in events : e.sub = s => Seen(e)
               PROVE  cache[s] # Absent /\ cache[s].status = truth[s].status
    BY DEF CacheMatches
  <2>1. PICK e \in events : e.sub = s /\ Latest(e)
    BY DEF IInv, Dated
  <2> QED BY <2>1 DEF IInv, Agrees
<1> QED BY Inductive, <1>1, PTL

\* No delivery gives back what a cancellation took away.
LEMMA CancellationStep ==
  ASSUME IInv, IInv', [Next]_vars, NEW s \in Subs,
         NEW e \in events, e.sub = s, e.status = "canceled", Seen(e),
         cache[s] # Absent, cache[s].status = "canceled",
         cache'[s] # Absent, cache'[s].status \in Granting,
         ~Tied(s), s \notin disturbed'
  PROVE  FALSE
<1> USE DEF ProviderUnchanged, OursUnchanged, RecUnchanged
<1>1. cache'[s] # cache[s]
  BY DEF Granting
<1>2. customer = "linked" BY DEF IInv, Attached
<1>3. (\E h \in Handlers : ApplyEvent(h)) \/ ReplaceRow
  BY <1>1
     DEF Next, Reconcile, Tick, Change, LinkCustomer, DeleteScope, Receive, RequestFails,
         ReconcileCustomer, ListFails, ListSubscriptions, ReadRow, vars
<1>4. UNCHANGED <<truth, events, customer>> /\ journal \subseteq journal'
  BY <1>3 DEF ApplyEvent, ReplaceRow
<1>5. Latest(e) BY DEF IInv, Dated
<1>6. Latest(e)' /\ Seen(e)' /\ ~Tied(s)' /\ e \in events' /\ customer' = "linked"
  BY <1>2, <1>4, <1>5 DEF Latest, Seen, Tied
<1>7. cache'[s].status = truth'[s].status
  BY <1>6 DEF IInv, Agrees
<1>8. truth'[s].status = "canceled" BY <1>6 DEF Latest
<1> QED BY <1>7, <1>8 DEF Granting

\* A cancellation journalled is kept by every delivery, late or repeated.
THEOREM CancellationKept == Spec => CancellationHolds
<1> DEFINE Kept ==
      \A s \in Subs :
        /\ \E e \in events : e.sub = s /\ e.status = "canceled" /\ Seen(e)
        /\ cache[s] # Absent /\ cache[s].status = "canceled"
        /\ cache'[s] # Absent /\ cache'[s].status \in Granting
        => Tied(s) \/ s \in disturbed \/ s \in disturbed'
<1>1. IInv /\ IInv' /\ [Next]_vars => [Kept]_vars
  BY CancellationStep
<1> QED BY Inductive, <1>1, PTL DEF Spec, CancellationHolds
=============================================================================
