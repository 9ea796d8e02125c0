---------------------------- MODULE Subscriptions ----------------------------
(***************************************************************************)
(* The cache of one customer's subscriptions, packages/modules/billing: a  *)
(* truth held by the payment provider, copied by webhooks that arrive      *)
(* late, twice and out of order, and by a reconciliation that lists the    *)
(* truth and overwrites.                                                   *)
(*                                                                         *)
(* A webhook reads the customer, then applies the event in one             *)
(* transaction with the journal of events.  The reconciliation takes its   *)
(* instant, lists, and for each subscription reads the row and writes it,  *)
(* each a step of its own.  A status stands for the whole row it comes     *)
(* with: quantity, period and price follow the same path.                  *)
(***************************************************************************)
EXTENDS Integers, FiniteSets

CONSTANTS
  Subs,       \* the customer's subscriptions at the provider
  Handlers,   \* webhook requests served at the same time
  Absent,     \* no row, no subscription
  MaxClock,   \* bound: seconds
  MaxEvents,  \* bound: events the provider emits
  Skew        \* seconds our clock is ahead of the provider's

VARIABLES
  clock,      \* the provider's clock
  truth,      \* the subscriptions, as the provider holds them
  events,     \* every event emitted; any of them may be delivered, again
  customer,   \* the billing_customer row
  journal,    \* billing_webhook_event: the identifiers applied
  cache,      \* billing_subscription
  handler,    \* the webhook requests
  rec,        \* the reconciliation
  disturbed   \* history: subscriptions a write has made wrong, see CacheMatches

vars == <<clock, truth, events, customer, journal, cache, handler, rec, disturbed>>

Granting == {"trialing", "active", "past_due"}
Statuses == Granting \cup {"canceled"}
NextStatus ==
  [none |-> {"trialing", "active"}, trialing |-> {"active", "past_due", "canceled"},
   active |-> {"past_due", "canceled"}, past_due |-> {"active", "canceled"},
   canceled |-> {}]

Truths == [status : Statuses \cup {"none"}, at : 0..MaxClock]
Rows == [status : Statuses, at : 0..(MaxClock + Skew)]
Events == [id : 1..MaxEvents, kind : {"changed", "failed"}, sub : Subs,
           status : Statuses, at : 0..MaxClock]

ASSUME SubscriptionsAssumption ==
  /\ MaxClock \in Nat /\ MaxEvents \in Nat /\ Skew \in Nat
  /\ Absent \notin Truths \cup Rows \cup Events

NoRequest == [ev |-> Absent, known |-> FALSE]

Reconciliation(pc, at, list, todo, sub, stored) ==
  [pc |-> pc, at |-> at, list |-> list, todo |-> todo, sub |-> sub, stored |-> stored]
NothingListed == [s \in Subs |-> Absent]
NoReconciliation == Reconciliation("idle", 0, NothingListed, {}, Absent, Absent)

Init ==
  /\ clock = 0
  /\ truth = [s \in Subs |-> [status |-> "none", at |-> 0]]
  /\ events = {} /\ journal = {} /\ disturbed = {}
  /\ customer = "unlinked"
  /\ cache = [s \in Subs |-> Absent]
  /\ handler = [h \in Handlers |-> NoRequest]
  /\ rec = NoReconciliation

ProviderUnchanged == UNCHANGED <<clock, truth, events>>
OursUnchanged == UNCHANGED <<customer, journal, cache, handler, rec, disturbed>>

-----------------------------------------------------------------------------
(* The provider *)

Tick ==
  /\ clock < MaxClock
  /\ clock' = clock + 1
  /\ UNCHANGED <<truth, events>> /\ OursUnchanged

Emitted(id, kind, s, status) ==
  [id |-> id, kind |-> kind, sub |-> s, status |-> status, at |-> clock]

(* A subscription changes; the failure of a payment has an event more. *)
Change(s) ==
  \E status \in NextStatus[truth[s].status] :
    LET n == Cardinality(events)
        new == {Emitted(n + 1, "changed", s, status)} \cup
               IF status = "past_due" THEN {Emitted(n + 2, "failed", s, status)} ELSE {}
    IN /\ n + Cardinality(new) <= MaxEvents
       /\ truth' = [truth EXCEPT ![s] = [status |-> status, at |-> clock]]
       /\ events' = events \cup new
       /\ UNCHANGED clock /\ OursUnchanged

-----------------------------------------------------------------------------
(* The customer's row: linked by the checkout once the provider has        *)
(* answered, deleted with its subscriptions by the purge of its scope.     *)

LinkCustomer ==
  /\ customer = "unlinked"
  /\ customer' = "linked"
  /\ ProviderUnchanged /\ UNCHANGED <<journal, cache, handler, rec, disturbed>>

DeleteScope ==
  /\ customer = "linked"
  /\ customer' = "gone"
  /\ cache' = [s \in Subs |-> Absent]
  /\ ProviderUnchanged /\ UNCHANGED <<journal, handler, rec, disturbed>>

-----------------------------------------------------------------------------
(* The webhooks *)

(* effectOf: the customer is looked up before the transaction. *)
Receive(h) ==
  /\ handler[h] = NoRequest
  /\ \E e \in events :
       handler' = [handler EXCEPT ![h] = [ev |-> e, known |-> customer = "linked"]]
  /\ ProviderUnchanged /\ UNCHANGED <<customer, journal, cache, rec, disturbed>>

Row(status, at) == [status |-> status, at |-> at]

(* Mutant: whatever arrives is written *)
AppliesAlways(row, at) == row = Absent \/ at \in Int

(* setWhere: an older event overwrites nothing, an equal one does *)
AppliesAfter(row, at) == row = Absent \/ row.at <= at

(* What a subscription event does to the row: an upsert. *)
Upserted(row, e) ==
  IF AppliesAfter(row, e.at) THEN Row(e.status, e.at) ELSE row

(* Mutant: a payment failure is written whatever its age *)
FailedAlways(row, e) == IF row # Absent THEN Row("past_due", e.at) ELSE row

(* What a payment failure does: an update, so nothing without a row. *)
Failed(row, e) ==
  IF row # Absent /\ AppliesAfter(row, e.at) THEN Row("past_due", e.at) ELSE row

Seen(e) == e.id \in journal

(* History: an event journalled without its effect, the customer unknown,  *)
(* or the latest one found older than the stamp of a reconciliation.       *)
Lost(e, known) ==
  /\ e.kind = "changed"
  /\ known => e.at = truth[e.sub].at /\ ~AppliesAfter(cache[e.sub], e.at)

(* applyEvent: the journal and the effect, or, on an event already         *)
(* journalled, nothing.  A customer deleted since the lookup fails the     *)
(* insert, and the journal with it: the provider will deliver again.       *)
ApplyEvent(h) ==
  LET e == handler[h].ev
      orphan == e.kind = "changed" /\ handler[h].known /\ customer # "linked"
  IN /\ handler[h] # NoRequest
     /\ IF Seen(e) \/ orphan
          THEN UNCHANGED <<journal, cache, disturbed>>
          ELSE /\ journal' = journal \cup {e.id}
               /\ cache' = [cache EXCEPT ![e.sub] =
                    IF e.kind = "failed" THEN Failed(@, e)
                    ELSE IF handler[h].known THEN Upserted(@, e) ELSE @]
               /\ disturbed' = IF Lost(e, handler[h].known)
                                 THEN disturbed \cup {e.sub} ELSE disturbed
     /\ handler' = [handler EXCEPT ![h] = NoRequest]
     /\ ProviderUnchanged /\ UNCHANGED <<customer, rec>>

(* The request dies, or the transaction fails. *)
RequestFails(h) ==
  /\ handler[h] # NoRequest
  /\ handler' = [handler EXCEPT ![h] = NoRequest]
  /\ ProviderUnchanged /\ UNCHANGED <<customer, journal, cache, rec, disturbed>>

-----------------------------------------------------------------------------
(* The reconciliation *)

RecUnchanged == ProviderUnchanged /\ UNCHANGED <<customer, journal, handler>>

ReconcileCustomer ==
  /\ rec.pc = "idle" /\ customer = "linked"
  /\ rec' = Reconciliation("list", clock + Skew, NothingListed, {}, Absent, Absent)
  /\ RecUnchanged /\ UNCHANGED <<cache, disturbed>>

Existing == {s \in Subs : truth[s].status # "none"}

ListSubscriptions ==
  /\ rec.pc = "list"
  /\ rec' = IF Existing = {} THEN NoReconciliation
            ELSE Reconciliation("read", rec.at,
                   [s \in Subs |-> IF s \in Existing THEN truth[s] ELSE Absent],
                   Existing, Absent, Absent)
  /\ RecUnchanged /\ UNCHANGED <<cache, disturbed>>

ListFails ==
  /\ rec.pc = "list"
  /\ rec' = NoReconciliation
  /\ RecUnchanged /\ UNCHANGED <<cache, disturbed>>

Advanced(r, s) ==
  IF r.todo = {s} THEN NoReconciliation
  ELSE Reconciliation("read", r.at, r.list, r.todo \ {s}, Absent, Absent)

Writing(r, s) == Reconciliation("write", r.at, r.list, r.todo, s, cache[s])

(* Mutant: only the missing rows are written *)
ReadMissingRow(s) ==
  /\ rec.pc = "read" /\ s \in rec.todo
  /\ IF cache[s] # Absent
       THEN rec' = Advanced(rec, s)
       ELSE rec' = Writing(rec, s)
  /\ RecUnchanged /\ UNCHANGED <<cache, disturbed>>

(* The row is read and compared; the one that agrees is left alone. *)
ReadRow(s) ==
  /\ rec.pc = "read" /\ s \in rec.todo
  /\ IF cache[s] # Absent /\ cache[s].status = rec.list[s].status
       THEN rec' = Advanced(rec, s)
       ELSE rec' = Writing(rec, s)
  /\ RecUnchanged /\ UNCHANGED <<cache, disturbed>>

(* An upsert with no order in it, stamped with the instant taken before    *)
(* the listing.  Without its customer it throws, and ends the command.     *)
ReplaceRow ==
  /\ rec.pc = "write"
  /\ LET s == rec.sub
     IN IF customer = "linked"
          THEN /\ cache' = [cache EXCEPT ![s] = Row(rec.list[s].status, rec.at)]
               /\ disturbed' = IF rec.list[s] # truth[s] \/ cache[s] # rec.stored
                                 THEN disturbed \cup {s} ELSE disturbed
               /\ rec' = Advanced(rec, s)
          ELSE /\ rec' = NoReconciliation
               /\ UNCHANGED <<cache, disturbed>>
  /\ RecUnchanged

Reconcile == ListSubscriptions \/ (\E s \in Subs : ReadRow(s)) \/ ReplaceRow

Next ==
  \/ Tick \/ \E s \in Subs : Change(s)
  \/ LinkCustomer \/ DeleteScope
  \/ \E h \in Handlers : Receive(h) \/ ApplyEvent(h) \/ RequestFails(h)
  \/ ReconcileCustomer \/ ListFails \/ Reconcile

Spec == Init /\ [][Next]_vars

(* A reconciliation that was started goes on, and the provider answers its *)
(* listing if it is asked again and again.  Nothing starts one: it is a    *)
(* command an operator runs.  Nothing is asked of the webhooks either: all *)
(* may be lost.                                                            *)
Fairness == SF_vars(Reconcile)

FairSpec == Spec /\ Fairness

-----------------------------------------------------------------------------
Deliveries == [ev : Events \cup {Absent}, known : BOOLEAN]
Reconciliations ==
  [pc : {"idle", "list", "read", "write"}, at : 0..(MaxClock + Skew),
   list : [Subs -> Truths \cup {Absent}], todo : SUBSET Subs,
   sub : Subs \cup {Absent}, stored : Rows \cup {Absent}]

(* The type of the state. *)
TypeOK ==
  /\ clock \in 0..MaxClock /\ truth \in [Subs -> Truths]
  /\ events \subseteq Events /\ journal \subseteq 1..MaxEvents
  /\ customer \in {"unlinked", "linked", "gone"}
  /\ cache \in [Subs -> Rows \cup {Absent}]
  /\ handler \in [Handlers -> Deliveries]
  /\ \A h \in Handlers : handler[h] # NoRequest => handler[h].ev \in events
  /\ rec \in Reconciliations
  /\ disturbed \subseteq Subs

(* Two events of the second of the latest one: their order of arrival      *)
(* decides, which ADR 034 accepts.                                         *)
Tied(s) ==
  \E e \in events : e.sub = s /\ e.at = truth[s].at /\ e.status # truth[s].status

(* However the deliveries were delayed, repeated and reordered, and a      *)
(* reconciliation interleaved with them, the cache tells the truth once    *)
(* every event is journalled.  Three things break it until the next        *)
(* reconciliation: a tie, a reconciliation that wrote what it had read     *)
(* before the last change, and an event journalled without effect.         *)
CacheMatches ==
  \A s \in Existing :
    /\ customer = "linked" /\ s \notin disturbed /\ ~Tied(s)
    /\ \A e \in events : e.sub = s => Seen(e)
    => cache[s] # Absent /\ cache[s].status = truth[s].status

(* A cancellation is final: once it is journalled, no late delivery gives  *)
(* back the access it took away.  A reconciliation does, when what it      *)
(* writes was read before.                                                 *)
CancellationHolds ==
  [][\A s \in Subs :
       /\ \E e \in events : e.sub = s /\ e.status = "canceled" /\ Seen(e)
       /\ cache[s] # Absent /\ cache[s].status = "canceled"
       /\ cache'[s] # Absent /\ cache'[s].status \in Granting
       => Tied(s) \/ s \in disturbed \/ s \in disturbed']_vars

(* Whatever went wrong, the command repairs: if the operator runs it again *)
(* and again, then once the provider has nothing more to say the cache     *)
(* comes to tell the truth and keeps to it, whatever is delivered late.    *)
CacheTrue ==
  customer = "linked" =>
    \A s \in Existing : cache[s] # Absent /\ cache[s].status = truth[s].status

CacheRepaired == []<><<ReconcileCustomer>>_vars => <>[]CacheTrue

(* The same with nobody to run the command.  It is not so: no job of the   *)
(* module and no cron runs it, and a lost webhook is then lost for good.   *)
CacheRepairsItself == <>[]CacheTrue
=============================================================================
