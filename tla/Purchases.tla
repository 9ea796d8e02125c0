------------------------------ MODULE Purchases ------------------------------
(***************************************************************************)
(* The one-time purchase of an offer by one customer (billing module):     *)
(* opening a checkout, the provider's events in any order, the journal of  *)
(* refunds, and the reconciliation that reads the provider again.          *)
(*                                                                         *)
(* (customer, offer) is unique, so there is one billing_purchase row.  A   *)
(* webhook is one READ COMMITTED transaction, cut where another one can    *)
(* commit: its UPDATE has chosen its row, its COMMIT is still to come.     *)
(*                                                                         *)
(* Time counts half seconds: an event carries the second it was created    *)
(* in, the reconciliation the instant it started reading.                  *)
(***************************************************************************)
EXTENDS Integers, FiniteSets, Functions

CONSTANTS
    MaxSessions,   \* bound: checkout sessions, numbered in the order of their creation
    MaxTime,       \* bound: half seconds
    Tabs,          \* concurrent calls of openCheckout
    Workers,       \* bound: webhook transactions open at once
    PartlyGiven,   \* bound: sessions whose payment may be refunded in part
    Unlisted,      \* sessions whose charge lies beyond the pages the provider is asked for
    Ops            \* bound: what else this instance exercises

ASSUME PurchasesAssumption ==
    /\ MaxSessions \in Nat /\ MaxTime \in Nat /\ Workers \in Nat
    /\ Unlisted \cup PartlyGiven \subseteq 1 .. MaxSessions
    /\ Ops \subseteq {"reconcile", "forget", "fail"}

Sessions == 1 .. MaxSessions
NoSession == 0
NoTime == -1

VARIABLES
    clock,     \* now
    session,   \* checkout sessions at the provider
    key,       \* session the provider answers to the idempotency key of (scope, offer)
    events,    \* events created and not in billing_webhook_event yet: a delivery of any
               \* other one changes nothing
    tx,        \* webhook transactions that have chosen the row they update
    row,       \* billing_purchase
    index,     \* billing_purchase_session
    refundLog, \* billing_refunded_payment: time of the refund of each payment
    tab,       \* where each openCheckout stands, and the session it was given
    handed,    \* sessions whose URL reached a browser
    pass,      \* the reconciliation under way
    skewed     \* history: payments confirmed and refunded by overlapping transactions

provider == <<clock, session, key>>
webhooks == <<tx, refundLog, skewed>>
openings == <<tab, handed, index>>
vars == <<provider, events, webhooks, openings, row, pass>>

Held == {"paid", "partial"}
Collected == Held \cup {"refunded"}

\* A payment is named by the session it was made in.
Events == [kind : {"paid", "partial", "refunded"}, session : Sessions, at : 0 .. MaxTime]

NoRow == [status |-> "none", session |-> NoSession, payment |-> NoSession,
          last |-> NoTime, by |-> "none"]

\* A pass holds what it has listed and not treated yet.
NoPass == [at |-> NoTime, listing |-> <<>>, decided |-> FALSE, write |-> NoRow]

\* new Date(event.created * 1000): the provider dates its events in whole seconds.
Second(t) == 2 * (t \div 2)

Init ==
    /\ clock = 0
    /\ session = [s \in Sessions |-> "unopened"]
    /\ key = NoSession
    /\ events = {} /\ tx = {}
    /\ row = NoRow
    /\ index = {}
    /\ refundLog = [s \in Sessions |-> NoTime]
    /\ tab = [b \in Tabs |-> [pc |-> "idle", session |-> NoSession]]
    /\ handed = {}
    /\ pass = NoPass
    /\ skewed = {}

\* A transaction that has updated the row holds it until it commits.
Locked == \E x \in tx : x.matched

(***************************************************************************)
(* openCheckout.                                                           *)
(***************************************************************************)

At(b, pc, s) == tab' = [tab EXCEPT ![b] = [pc |-> pc, session |-> s]]

Unopened == {s \in Sessions : session[s] = "unopened"}

\* An offer already paid is refused.  Otherwise payments.createCheckout: the key is the
\* same for every opening of the offer, so the provider answers with the session it
\* remembers, whatever has become of it.
OpenCheckout(b) ==
    /\ tab[b].pc = "idle" /\ row.status # "paid"
    /\ \/ /\ key # NoSession
          /\ At(b, "created", key)
          /\ UNCHANGED <<session, key>>
       \/ /\ key = NoSession
          /\ \E s \in Unopened :
                /\ \A n \in Unopened : s <= n
                /\ session' = [session EXCEPT ![s] = "open"]
                /\ key' = s
                /\ At(b, "created", s)
    /\ UNCHANGED <<clock, events, webhooks, handed, index, row, pass>>

\* Mutant of MayReopen: a paid row is reset like any other.
MayReopenAny(status) == TRUE

\* setWhere: a row that was paid meanwhile is not demoted.
MayReopen(status) == status # "paid"

\* openPurchase, first statement: the row starts again from nothing.
OpenPurchase(b) ==
    /\ tab[b].pc = "created" /\ ~ Locked
    /\ row' = IF MayReopen(row.status)
              THEN [NoRow EXCEPT !.status = "pending", !.session = tab[b].session]
              ELSE row
    /\ At(b, "written", tab[b].session)
    /\ UNCHANGED <<provider, events, webhooks, handed, index, pass>>

\* Mutant of Attached: the session of a row that was paid meanwhile is not attached.
AttachedIfWritten(s) == IF row.session = s THEN {s} ELSE {}

\* Attached whether the row was written or was paid already.
Attached(s) == {s}

\* openPurchase, second statement, and the URL is returned.
AttachSession(b) ==
    /\ tab[b].pc = "written"
    /\ index' = index \cup Attached(tab[b].session)
    /\ handed' = handed \cup {tab[b].session}
    /\ At(b, "idle", NoSession)
    /\ UNCHANGED <<provider, events, webhooks, row, pass>>

\* The provider does not answer, or the process stops: no URL is returned.
OpeningFails(b) ==
    /\ "fail" \in Ops /\ tab[b].pc # "idle"
    /\ At(b, "idle", NoSession)
    /\ UNCHANGED <<provider, events, webhooks, handed, index, row, pass>>

(***************************************************************************)
(* The provider.                                                           *)
(***************************************************************************)

Create(kind, s) ==
    events' = events \cup {[kind |-> kind, session |-> s, at |-> Second(clock)]}

\* A session stays payable after another one was opened; a delayed payment method may
\* confirm it days later.
Pay(s) ==
    /\ session[s] = "open" /\ s \in handed
    /\ session' = [session EXCEPT ![s] = "paid"]
    /\ Create("paid", s)
    /\ UNCHANGED <<clock, key, webhooks, openings, row, pass>>

RefundInPart(s) ==
    /\ s \in PartlyGiven /\ session[s] = "paid"
    /\ session' = [session EXCEPT ![s] = "partial"]
    /\ Create("partial", s)
    /\ UNCHANGED <<clock, key, webhooks, openings, row, pass>>

RefundInFull(s) ==
    /\ session[s] \in Held
    /\ session' = [session EXCEPT ![s] = "refunded"]
    /\ Create("refunded", s)
    /\ UNCHANGED <<clock, key, webhooks, openings, row, pass>>

Tick ==
    /\ clock < MaxTime
    /\ clock' = clock + 1
    /\ UNCHANGED <<session, key, events, webhooks, openings, row, pass>>

\* The provider keeps idempotency keys for a day.
ForgetKey ==
    /\ "forget" \in Ops /\ key # NoSession
    /\ key' = NoSession
    /\ UNCHANGED <<clock, session, events, webhooks, openings, row, pass>>

(***************************************************************************)
(* Webhooks (applyEvent).                                                  *)
(***************************************************************************)

\* Mutant of Found: only the last session opened is known.
FoundByColumn(s) == row.status # "none" /\ row.session = s

\* purchaseOfSession: by the index of sessions, else by the column of the row.
Found(s) == row.status # "none" /\ (s \in index \/ row.session = s)

\* purchaseAppliesAfter.
AppliesAfter(t) == row.last = NoTime \/ row.last <= t

PaidMatches(e) == Found(e.session) /\ row.status # "refunded" /\ AppliesAfter(e.at)

RefundMatches(e) == row.payment = e.session /\ AppliesAfter(e.at)

\* Mutant of Revokes: any refund revokes.
RevokesInPart(e) == e.kind # "paid"

\* refundRevokesPurchase: only a total refund revokes.
Revokes(e) == e.kind = "refunded"

Matches(e) == IF e.kind = "paid" THEN PaidMatches(e) ELSE Revokes(e) /\ RefundMatches(e)

Overlap(e) == \E x \in tx : x.event.session = e.session /\ x.event.kind # e.kind
                            /\ x.event.kind # "partial"

\* The event is journaled and its UPDATE chooses its row among the committed ones, once
\* whoever holds that row has committed.
BeginWebhook(e) ==
    /\ Cardinality(tx) < Workers
    /\ \A x \in tx : x.event # e
    /\ Matches(e) => ~ Locked
    /\ tx' = tx \cup {[event |-> e, matched |-> Matches(e)]}
    /\ skewed' = IF Overlap(e) THEN skewed \cup {e.session} ELSE skewed
    /\ UNCHANGED <<provider, events, refundLog, openings, row, pass>>

Paid(r, e) ==
    [r EXCEPT !.status = "paid", !.payment = e.session, !.last = e.at, !.by = "event"]

Refunded(r, t) == [r EXCEPT !.status = "refunded", !.last = t, !.by = "event"]

\* Mutant of ReplayRefund: a refund that came first is lost.
ForgetRefund(r, s) == r

\* The second UPDATE of a confirmation: a refund that came first is applied now.
ReplayRefund(r, s) ==
    IF r.payment = s /\ refundLog[s] # NoTime THEN Refunded(r, refundLog[s]) ELSE r

CommitWebhook(x) ==
    LET e == x.event IN
    /\ x \in tx
    /\ x.matched \/ ~ Locked \/ row.payment # e.session
    /\ tx' = tx \ {x}
    /\ events' = events \ {e}
    /\ \/ /\ e.kind = "paid"
          /\ row' = ReplayRefund(IF x.matched THEN Paid(row, e) ELSE row, e.session)
          /\ UNCHANGED refundLog
       \/ /\ e.kind # "paid" /\ Revokes(e)
          /\ refundLog' = [refundLog EXCEPT ![e.session] = IF @ = NoTime THEN e.at ELSE @]
          /\ row' = IF x.matched THEN Refunded(row, e.at) ELSE row
       \/ /\ e.kind # "paid" /\ ~ Revokes(e)
          /\ UNCHANGED <<row, refundLog>>
    /\ UNCHANGED <<provider, openings, pass, skewed>>

\* The transaction fails: nothing is journaled, the provider delivers again.
WebhookFails(x) ==
    /\ "fail" \in Ops /\ x \in tx
    /\ tx' = tx \ {x}
    /\ UNCHANGED <<provider, events, refundLog, skewed, openings, row, pass>>

(***************************************************************************)
(* pnpm billing:reconcile (reconcilePurchases).                            *)
(***************************************************************************)

\* reconciledPurchaseStatus: what the reading of a session imposes on the stored row, or
\* "none".  A charge that cannot be found says nothing of a refund.
Reading(state, s, stored) ==
    IF state \notin Collected THEN "none"
    ELSE IF s \in Unlisted THEN (IF stored = "refunded" THEN "none" ELSE "paid")
    ELSE IF state = "refunded" THEN "refunded" ELSE "paid"

\* Mutant of Settled: every paid session decides in its turn.
NeverSettled(decided) == FALSE

\* The first session that decides wins.
Settled(decided) == decided

Decides(state, s, r, decided) ==
    /\ Found(s)
    /\ Reading(state, s, r.status) # "none"
    /\ ~ Settled(decided)

\* Mutant of Target: the journal of refunds is not read.
TargetWithoutLog(state, s, r) ==
    [r EXCEPT !.status = Reading(state, s, r.status), !.payment = s]

\* The journal of refunds prevails over the reading.
Target(state, s, r) ==
    [r EXCEPT !.status = IF refundLog[s] # NoTime THEN "refunded"
                         ELSE Reading(state, s, r.status),
              !.payment = s]

\* purchaseDiffers.
Differs(r, w) == r.status # w.status \/ r.payment # w.payment

\* listPurchases, the latest session first.
StartPass ==
    /\ "reconcile" \in Ops /\ pass = NoPass /\ row.status # "none"
    /\ pass' = [NoPass EXCEPT !.at = clock, !.listing = Restrict(session, Sessions \ Unopened)]
    /\ UNCHANGED <<provider, events, webhooks, openings, row>>

\* The row and the journal of refunds are read, without a transaction.
ReadPurchase(s) ==
    LET todo == DOMAIN pass.listing
        state == pass.listing[s]
        decides == Decides(state, s, row, pass.decided)
        w == [Target(state, s, row) EXCEPT !.last = pass.at, !.by = "reconcile"]
    IN  /\ pass.write = NoRow
        /\ s \in todo /\ \A n \in todo : n <= s
        /\ pass' = IF todo = {s} /\ ~ (decides /\ Differs(row, w)) THEN NoPass
                   ELSE [pass EXCEPT !.listing = Restrict(@, todo \ {s}),
                                     !.decided = @ \/ decides,
                                     !.write = IF decides /\ Differs(row, w) THEN w ELSE NoRow]
        /\ UNCHANGED <<provider, events, webhooks, openings, row>>

\* The UPDATE names the row and nothing else: it applies to whatever it has become.
WritePurchase ==
    /\ pass.write # NoRow /\ ~ Locked
    /\ row' = [pass.write EXCEPT !.session = row.session]
    /\ pass' = IF pass.listing = <<>> THEN NoPass ELSE [pass EXCEPT !.write = NoRow]
    /\ UNCHANGED <<provider, events, webhooks, openings>>

Opening(b) ==
    \/ OpenCheckout(b) \/ OpenPurchase(b) \/ AttachSession(b) \/ OpeningFails(b)

Provider ==
    \/ \E s \in Sessions : Pay(s) \/ RefundInPart(s) \/ RefundInFull(s)
    \/ Tick \/ ForgetKey

Reconciliation == StartPass \/ WritePurchase \/ \E s \in Sessions : ReadPurchase(s)

Next ==
    \/ \E b \in Tabs : Opening(b)
    \/ Provider
    \/ \E e \in events : BeginWebhook(e)
    \/ \E x \in tx : CommitWebhook(x) \/ WebhookFails(x)
    \/ Reconciliation

Spec == Init /\ [][Next]_vars

(***************************************************************************)
(* Properties.                                                             *)
(***************************************************************************)

Rows == [status : {"none", "pending", "paid", "refunded"}, session : 0 .. MaxSessions,
         payment : 0 .. MaxSessions, last : NoTime .. MaxTime,
         by : {"none", "event", "reconcile"}]

\* The type of every variable; a session is paid on a URL, and a URL that was handed out
\* is attached to the purchase.
TypeOK ==
    /\ clock \in 0 .. MaxTime
    /\ session \in [Sessions -> {"unopened", "open"} \cup Collected]
    /\ key \in 0 .. MaxSessions
    /\ events \subseteq Events
    /\ tx \subseteq [event : events, matched : BOOLEAN]
    /\ row \in Rows
    /\ index \subseteq Sessions /\ handed \subseteq index
    /\ refundLog \in [Sessions -> NoTime .. MaxTime]
    /\ tab \in [Tabs -> [pc : {"idle", "created", "written"},
                         session : 0 .. MaxSessions]]
    /\ DOMAIN pass.listing \subseteq Sessions /\ pass.decided \in BOOLEAN /\ pass.write \in Rows
    /\ skewed \subseteq Sessions

Collect == {s \in Sessions : session[s] \in Collected}

\* Whatever the order of delivery, a total refund that was received revokes: a row that
\* the webhook wrote last never grants access for a refunded payment, unless confirmation
\* and refund were applied by transactions that overlapped.
RefundRevokes ==
    row.status = "paid" /\ row.by = "event"
        => refundLog[row.payment] = NoTime \/ row.payment \in skewed

\* The same with no exception: the refund journal makes the order of delivery irrelevant.
RefundedNeverGrants ==
    row.status = "paid" => refundLog[row.payment] = NoTime

\* Access bought once is lost by a total refund of its payment and by nothing else, neither
\* a second opening nor a partial refund nor a reconciliation -- as long as the offer was
\* not paid for twice.
AccessLostOnlyByRefund ==
    [][ row.status = "paid" /\ row'.status # "paid"
            => session[row.payment] = "refunded" \/ Cardinality(Collect) > 1 ]_vars

ReconcileOne(s, state) ==
    LET w == Target(session[s], s, state.row) IN
    IF Decides(session[s], s, state.row, state.decided)
    THEN [row |-> IF Differs(state.row, w) THEN w ELSE state.row,
          decided |-> TRUE,
          changed |-> IF Differs(state.row, w) THEN state.changed + 1 ELSE state.changed]
    ELSE state

\* A pass over r that nothing interrupts: where it stands after n sessions, the latest first.
PassOver(r) ==
    LET after[n \in 0 .. MaxSessions] ==
            IF n = 0 THEN [row |-> r, decided |-> FALSE, changed |-> 0]
            ELSE ReconcileOne(MaxSessions - n + 1, after[n - 1])
    IN  after

Reconciled(r) == PassOver(r)[MaxSessions]

\* A second reconciliation writes nothing, even when the offer was paid for twice
\* (docs/reliability.md 1), as long as the charges that the listing misses are those of the
\* oldest sessions: with Unlisted = {2} TLC finds it violated.
ReconcileIdempotent == Reconciled(Reconciled(row).row).changed = 0

\* Whatever the webhooks have left, a reconciliation grants no payment whose refund was
\* received, nor one that was refunded at the provider although its webhook was lost -- as
\* long as the listing reaches the refunded charge -- and it grants what was paid for once.
ReconcileRepairs ==
    LET r == Reconciled(row).row IN
    /\ r.status = "paid" => /\ refundLog[r.payment] = NoTime
                            /\ session[r.payment] = "refunded" => r.payment \in Unlisted
    /\ \A s \in index : Collect = {s} /\ session[s] \in Held => r.status = "paid"

\* The same wherever the charge is listed: a refund whose webhook was lost is always seen
\* (stripe-payments.ts, listPurchases).  It is not so beyond the pages that are asked for.
ReconcileSeesRefunds ==
    LET r == Reconciled(row).row IN r.status = "paid" => session[r.payment] # "refunded"

\* Every event was delivered and applied, and nobody is half way through anything.
Quiet == events = {} /\ pass = NoPass /\ \A b \in Tabs : tab[b].pc = "idle"

\* A payment that was collected, on whichever of the sessions opened for the offer, grants
\* access once its events were applied, as long as the offer was paid for once.
PaymentGrants ==
    \A s \in Sessions :
        Quiet /\ Collect = {s} /\ session[s] \in Held => row.status = "paid"

\* The same for an offer paid for again: a refunded offer can be bought again.
PaidIsGranted ==
    Quiet /\ (\E s \in Sessions : session[s] \in Held) => row.status = "paid"

=============================================================================
