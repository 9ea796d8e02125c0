---------------------------- MODULE PurchasesProofs ----------------------------
(***************************************************************************)
(* What Purchases promises for any number of sessions, of concurrent       *)
(* openings and of webhook transactions.                                   *)
(*                                                                         *)
(* What the row says is right only together with what is on its way: the   *)
(* transactions that have chosen their row and not committed, the events   *)
(* not applied yet, and the write that a reconciliation has prepared.      *)
(*                                                                         *)
(* A pass that nothing interrupts is a recursion over the sessions: the    *)
(* last section shows, by taking a least number, that it applies the       *)
(* latest session that decides, and then what two passes in a row do.      *)
(***************************************************************************)
EXTENDS Purchases, TLAPS, FiniteSetTheorems, WellFoundedInduction

Listings == UNION {[D -> {"open"} \cup Collected] : D \in SUBSET Sessions}

\* A pass knows what it listed and when it began.
PassTyped ==
    pass \in [at : NoTime .. MaxTime, listing : Listings, decided : BOOLEAN, write : Rows]

\* An event was created before now, for a session that was collected; a payment is
\* dated no later than its refund.
Told ==
    /\ \A e \in events : /\ e.at <= Second(clock) /\ session[e.session] \in Collected
                         /\ e.kind = "refunded" => session[e.session] = "refunded"
    /\ \A e, f \in events : e.session = f.session /\ e.kind = "paid" /\ f.kind = "refunded"
                               => e.at <= f.at

\* One transaction per event, and one that holds the row.
Exclusive ==
    /\ \A x, y \in tx : x.event = y.event => x = y
    /\ \A x, y \in tx : x.matched /\ y.matched => x = y

\* A refund that has chosen the row is the refund of the payment the row carries.
Chosen ==
    \A x \in tx : x.matched /\ x.event.kind # "paid"
        => x.event.kind = "refunded" /\ row.payment = x.event.session

\* A session is paid on a URL; a session that is attached has a row.
Attaching ==
    /\ \A s \in Sessions : session[s] \in Collected => s \in handed
    /\ index # {} => row.status # "none"
    /\ \A b \in Tabs : tab[b].pc = "written" => row.status # "none"
    /\ \A b \in Tabs : tab[b].pc # "idle" => tab[b].session \in Sessions

\* What grants was collected, what is revoked was refunded.
Backs(r, ses) ==
    /\ r.status \in {"paid", "refunded"} => r.payment \in Sessions
    /\ r.status = "paid" => ses[r.payment] \in Collected
    /\ r.status = "refunded" => \E s \in Sessions : ses[s] = "refunded"

\* The row, the refund journal, and the reading of a pass, tell what happened.
Backed ==
    /\ Backs(row, session)
    /\ row.last # NoTime => row.status \in {"paid", "refunded"}
    /\ \A s \in Sessions : refundLog[s] # NoTime => session[s] = "refunded"
    /\ \A s \in DOMAIN pass.listing :
          /\ pass.listing[s] \in Collected => session[s] \in Collected
          /\ pass.listing[s] = "refunded" => session[s] = "refunded"
    /\ pass.write # NoRow =>
          /\ pass.write.status \in {"paid", "refunded"} /\ pass.write.by = "reconcile"
          /\ Backs(pass.write, session)
          /\ pass.write.status = "refunded" => session[pass.write.payment] = "refunded"

\* A row granted by the webhook was granted before any refund of its payment, and a
\* refund that has not seen it overlapped its confirmation.
Revoking ==
    /\ row.status = "paid" /\ row.by = "event" =>
          /\ row.last <= Second(clock)
          /\ \A e \in events :
                e.kind = "refunded" /\ e.session = row.payment => row.last <= e.at
          /\ \A x \in tx :
                x.event.kind = "refunded" /\ x.event.session = row.payment /\ ~ x.matched
                   => row.payment \in skewed
    /\ \A x, y \in tx :
          x.event.session = y.event.session /\ x.event.kind = "paid" /\ y.event.kind = "refunded"
             => x.event.session \in skewed

\* The one payment that was collected is granted, or its confirmation is to come and
\* will find its row.
Granting ==
    \A s \in Sessions : Collect = {s} /\ session[s] \in Held =>
       \/ row.status = "paid"
       \/ \E e \in events :
             /\ e.kind = "paid" /\ e.session = s
             /\ \A x \in tx : x.event = e => x.matched

IInv == /\ TypeOK /\ PassTyped /\ Told /\ Exclusive /\ Chosen /\ Attaching /\ Backed
        /\ Revoking /\ RefundRevokes /\ Granting

-----------------------------------------------------------------------------

\* The second of an instant is no later than it, and seconds follow instants.
LEMMA Seconds ==
    ASSUME NEW t \in Nat
    PROVE  /\ Second(t) \in 0 .. t
           /\ Second(t) <= Second(t + 1)
BY DEF Second

\* Keeping part of a listing keeps its type.
LEMMA ListingPart ==
    ASSUME NEW l \in Listings, NEW D \in SUBSET (DOMAIN l)
    PROVE  /\ Restrict(l, D) \in Listings
           /\ DOMAIN Restrict(l, D) = D
           /\ \A s \in D : Restrict(l, D)[s] = l[s]
BY DEF Restrict, Listings

LEMMA NothingListed == <<>> \in Listings /\ DOMAIN <<>> = {}
BY DEF Listings

\* What the provider has of opened sessions is a listing.
LEMMA OpenedListing ==
    ASSUME TypeOK
    PROVE  /\ Restrict(session, Sessions \ Unopened) \in Listings
           /\ DOMAIN Restrict(session, Sessions \ Unopened) \subseteq Sessions
           /\ \A s \in DOMAIN Restrict(session, Sessions \ Unopened) :
                 Restrict(session, Sessions \ Unopened)[s] = session[s]
<1> DEFINE D == Sessions \ Unopened
<1>1. [s \in D |-> session[s]] \in [D -> {"open"} \cup Collected]
  BY DEF TypeOK, Unopened
<1>2. D \in SUBSET Sessions
  OBVIOUS
<1> QED BY <1>1, <1>2 DEF Restrict, Listings

LEMMA NoRowTyped == NoRow \in Rows /\ NoPass.write = NoRow
BY PurchasesAssumption DEF NoRow, Rows, NoSession, NoTime, NoPass

\* Nothing is opened, paid or under way at first.
LEMMA InitInductive == Init => IInv
<1> SUFFICES ASSUME Init PROVE IInv
  OBVIOUS
<1> USE PurchasesAssumption DEF Init, NoSession, NoTime, Sessions, Collected, Held
<1>1. TypeOK
  BY NothingListed, NoRowTyped DEF TypeOK, NoPass
<1>2. PassTyped
  BY NothingListed, NoRowTyped DEF PassTyped, NoPass
<1>3. Told /\ Exclusive /\ Chosen
  BY DEF Told, Exclusive, Chosen
<1>4. Attaching
  BY DEF Attaching
<1>5. Backed
  BY NothingListed, NoRowTyped DEF Backed, Backs, NoPass, NoRow
<1>6. Revoking /\ RefundRevokes
  BY DEF Revoking, RefundRevokes, NoRow
<1>7. Granting
  BY DEF Granting
<1> QED BY <1>1, <1>2, <1>3, <1>4, <1>5, <1>6, <1>7 DEF IInv

-----------------------------------------------------------------------------

\* What was collected stays so, and a total refund is final.
LEMMA Collecting ==
    ASSUME TypeOK, [Next]_vars
    PROVE  \A s \in Sessions :
              /\ session[s] \in Collected => session'[s] \in Collected
              /\ session[s] = "refunded" => session'[s] = "refunded"
<1> USE DEF TypeOK, Collected, Held
<1>1. ASSUME NEW b \in Tabs, OpenCheckout(b)
      PROVE  \A s \in Sessions : session'[s] = session[s] \/ session[s] = "unopened"
  BY <1>1 DEF OpenCheckout, Unopened
<1>2. ASSUME NEW b \in Tabs, OpenPurchase(b) \/ AttachSession(b) \/ OpeningFails(b)
      PROVE  session' = session
  BY <1>2 DEF OpenPurchase, AttachSession, OpeningFails, provider
<1>3. ASSUME NEW s \in Sessions, Pay(s) \/ RefundInPart(s) \/ RefundInFull(s)
      PROVE  /\ session[s] # "refunded" /\ \E v \in Collected : session' = [session EXCEPT ![s] = v]
  BY <1>3 DEF Pay, RefundInPart, RefundInFull
<1>4. CASE Tick \/ ForgetKey
  BY <1>4 DEF Tick, ForgetKey
<1>5. ASSUME NEW e \in events, BeginWebhook(e) PROVE session' = session
  BY <1>5 DEF BeginWebhook, provider
<1>6. ASSUME NEW x \in tx, CommitWebhook(x) \/ WebhookFails(x) PROVE session' = session
  BY <1>6 DEF CommitWebhook, WebhookFails, provider
<1>7. CASE Reconciliation
  BY <1>7 DEF Reconciliation, StartPass, ReadPurchase, WritePurchase, provider
<1>8. CASE UNCHANGED vars
  BY <1>8 DEF vars, provider
<1> QED BY <1>1, <1>2, <1>3, <1>4, <1>5, <1>6, <1>7, <1>8 DEF Next, Opening, Provider

\* A session is collected by its payment.
LEMMA Paying ==
    ASSUME IInv, [Next]_vars, NEW s \in Sessions,
           session[s] \notin Collected, session'[s] \in Collected
    PROVE  Pay(s)
<1>0. TypeOK
  BY DEF IInv
<1>1. ASSUME NEW b \in Tabs, Opening(b) PROVE session'[s] = session[s] \/ session'[s] = "open"
  BY <1>0, <1>1 DEF Opening, OpenCheckout, OpenPurchase, AttachSession, OpeningFails, provider, TypeOK
<1>2. ASSUME NEW t \in Sessions, Pay(t) PROVE session'[s] = session[s] \/ t = s
  BY <1>0, <1>2 DEF Pay, TypeOK
<1>3. ASSUME NEW t \in Sessions, RefundInPart(t) \/ RefundInFull(t)
      PROVE  session'[s] = session[s]
  BY <1>0, <1>3 DEF RefundInPart, RefundInFull, TypeOK, Collected, Held
<1>4. CASE Tick \/ ForgetKey \/ Reconciliation
  BY <1>4 DEF Tick, ForgetKey, Reconciliation, StartPass, ReadPurchase, WritePurchase, provider
<1>5. ASSUME NEW e \in events, BeginWebhook(e) PROVE UNCHANGED session
  BY <1>5 DEF BeginWebhook, provider
<1>6. ASSUME NEW x \in tx, CommitWebhook(x) \/ WebhookFails(x) PROVE UNCHANGED session
  BY <1>6 DEF CommitWebhook, WebhookFails, provider
<1>7. CASE UNCHANGED vars
  BY <1>7 DEF vars, provider
<1>8. "open" \notin Collected
  BY DEF Collected, Held
<1> QED BY <1>1, <1>2, <1>3, <1>4, <1>5, <1>6, <1>7, <1>8 DEF Next, Provider

\* The types hold in every state.
LEMMA TypesStep == IInv /\ [Next]_vars => TypeOK' /\ PassTyped'
<1> SUFFICES ASSUME IInv, [Next]_vars PROVE TypeOK' /\ PassTyped'
  OBVIOUS
<1> DEFINE States == {"unopened", "open"} \cup Collected
           Tabbed == [pc : {"idle", "created", "written"}, session : 0 .. MaxSessions]
           Passes == [at : NoTime .. MaxTime, listing : Listings, decided : BOOLEAN, write : Rows]
<1>0. TypeOK /\ pass \in Passes
  BY DEF IInv, PassTyped
<1>s. \A s \in Sessions : s \in 0 .. MaxSessions
  BY PurchasesAssumption DEF Sessions
<1>l. \A l \in Listings : DOMAIN l \subseteq Sessions
  BY DEF Listings
<1>1. ASSUME NEW b \in Tabs, OpenCheckout(b) PROVE TypeOK' /\ PassTyped'
  <2>1. /\ session' \in [Sessions -> States] /\ key' \in 0 .. MaxSessions
        /\ \E v \in 0 .. MaxSessions : At(b, "created", v)
    BY <1>0, <1>1, <1>s DEF OpenCheckout, TypeOK, Unopened
  <2>2. tab' \in [Tabs -> Tabbed]
    BY <1>0, <2>1 DEF At, TypeOK
  <2> QED BY <1>0, <1>1, <2>1, <2>2 DEF OpenCheckout, webhooks, TypeOK, PassTyped
<1>2. ASSUME NEW b \in Tabs, OpenPurchase(b) PROVE TypeOK' /\ PassTyped'
  <2>1. tab[b].session \in Sessions
    BY <1>2 DEF OpenPurchase, IInv, Attaching
  <2>2. row' \in Rows
    BY <1>0, <1>2, <1>s, <2>1, NoRowTyped DEF OpenPurchase, TypeOK, Rows
  <2>3. tab' \in [Tabs -> Tabbed]
    BY <1>0, <1>2, <1>s, <2>1 DEF OpenPurchase, At, TypeOK
  <2> QED BY <1>0, <1>2, <2>2, <2>3 DEF OpenPurchase, webhooks, provider, TypeOK, PassTyped
<1>3. ASSUME NEW b \in Tabs, AttachSession(b) \/ OpeningFails(b) PROVE TypeOK' /\ PassTyped'
  <2>1. 0 \in 0 .. MaxSessions
    BY PurchasesAssumption
  <2>2. tab' \in [Tabs -> Tabbed]
    BY <1>0, <1>3, <2>1 DEF AttachSession, OpeningFails, At, TypeOK, NoSession
  <2>3. index' \subseteq Sessions /\ handed' \subseteq index'
    BY <1>0, <1>3 DEF AttachSession, OpeningFails, TypeOK, Attached, IInv, Attaching
  <2> QED BY <1>0, <1>3, <2>2, <2>3
          DEF AttachSession, OpeningFails, webhooks, provider, TypeOK, PassTyped
<1>5. ASSUME NEW s \in Sessions, Pay(s) \/ RefundInPart(s) \/ RefundInFull(s)
      PROVE  TypeOK' /\ PassTyped'
  <2>1. Second(clock) \in 0 .. MaxTime
    BY <1>0, Seconds, PurchasesAssumption DEF TypeOK
  <2>2. events \subseteq events' /\ events' \subseteq Events
    BY <1>0, <1>5, <2>1 DEF Pay, RefundInPart, RefundInFull, Create, Events, TypeOK
  <2>3. session' \in [Sessions -> States]
    BY <1>0, <1>5 DEF Pay, RefundInPart, RefundInFull, Collected, Held, TypeOK
  <2> QED BY <1>0, <1>5, <2>2, <2>3
          DEF Pay, RefundInPart, RefundInFull, webhooks, openings, TypeOK, PassTyped
<1>6. CASE Tick \/ ForgetKey
  <2>1. clock' \in 0 .. MaxTime /\ key' \in 0 .. MaxSessions
    BY <1>0, <1>6, PurchasesAssumption DEF Tick, ForgetKey, TypeOK, NoSession
  <2> QED BY <1>0, <1>6, <2>1 DEF Tick, ForgetKey, webhooks, openings, TypeOK, PassTyped
<1>7. ASSUME NEW e \in events, BeginWebhook(e) PROVE TypeOK' /\ PassTyped'
  <2>1. Matches(e) \in BOOLEAN /\ e.session \in Sessions
    BY <1>0 DEF Matches, PaidMatches, RefundMatches, Revokes, Found, AppliesAfter, TypeOK, Events
  <2>2. tx' \subseteq [event : events', matched : BOOLEAN] /\ skewed' \subseteq Sessions
    BY <1>0, <1>7, <2>1 DEF BeginWebhook, TypeOK
  <2> QED BY <1>0, <1>7, <2>2 DEF BeginWebhook, provider, openings, TypeOK, PassTyped
<1>8. ASSUME NEW x \in tx, CommitWebhook(x) PROVE TypeOK' /\ PassTyped'
  <2>1. x.event \in events /\ x.event.session \in Sessions /\ x.event.at \in 0 .. MaxTime
    BY <1>0 DEF TypeOK, Events
  <2>2. refundLog' \in [Sessions -> NoTime .. MaxTime]
    BY <1>0, <1>8, <2>1 DEF CommitWebhook, TypeOK, NoTime
  <2>3. x.event.at \in NoTime .. MaxTime /\ x.event.session \in 0 .. MaxSessions
    BY <1>s, <2>1 DEF NoTime
  <2>4. Paid(row, x.event) \in Rows /\ \A r \in Rows, t \in NoTime .. MaxTime : Refunded(r, t) \in Rows
    BY <1>0, <2>3 DEF Paid, Refunded, Rows, TypeOK
  <2>5. row' \in Rows
    BY <1>0, <1>8, <2>1, <2>3, <2>4 DEF CommitWebhook, ReplayRefund, TypeOK
  <2>6. tx' \subseteq [event : events', matched : BOOLEAN] /\ events' \subseteq Events
    BY <1>0, <1>8 DEF CommitWebhook, IInv, Exclusive, TypeOK
  <2> QED BY <1>0, <1>8, <2>2, <2>5, <2>6 DEF CommitWebhook, provider, openings, TypeOK, PassTyped
<1>9. ASSUME NEW x \in tx, WebhookFails(x) PROVE TypeOK' /\ PassTyped'
  BY <1>0, <1>9 DEF WebhookFails, provider, openings, TypeOK, PassTyped
<1>10. CASE StartPass
  <2>1. pass' \in Passes
    <3>1. clock \in NoTime .. MaxTime
      BY <1>0 DEF TypeOK, NoTime
    <3>2. pass' = [at |-> clock, listing |-> Restrict(session, Sessions \ Unopened),
                   decided |-> FALSE, write |-> NoRow]
      BY <1>10 DEF StartPass, NoPass
    <3> QED BY <1>0, <3>1, <3>2, OpenedListing, NoRowTyped
  <2>2. DOMAIN pass'.listing \subseteq Sessions /\ pass'.decided \in BOOLEAN /\ pass'.write \in Rows
    BY <1>l, <2>1
  <2> QED BY <1>0, <1>10, <2>1, <2>2 DEF StartPass, provider, webhooks, openings, TypeOK, PassTyped
<1>11. ASSUME NEW s \in Sessions, ReadPurchase(s) PROVE TypeOK' /\ PassTyped'
  <2> DEFINE w == [Target(pass.listing[s], s, row) EXCEPT !.last = pass.at, !.by = "reconcile"]
             l == Restrict(pass.listing, DOMAIN pass.listing \ {s})
  <2>1. Decides(pass.listing[s], s, row, pass.decided) => w.status \in {"paid", "refunded"}
    BY <1>0 DEF Decides, Reading, Target, TypeOK, Rows
  <2>2. Decides(pass.listing[s], s, row, pass.decided) => w \in Rows
    BY <1>0, <1>s, <2>1 DEF Target, TypeOK, Rows
  <2>3. NoPass \in Passes
    BY NothingListed, NoRowTyped, PurchasesAssumption DEF NoPass, NoTime
  <2>4. l \in Listings
    BY <1>0, ListingPart
  <2>5. pass' \in Passes
    <3>1. CASE pass' = NoPass
      BY <2>3, <3>1
    <3>2. CASE pass' # NoPass
      <4>1. \E d \in BOOLEAN, v \in Rows : pass' = [pass EXCEPT !.listing = l, !.decided = d, !.write = v]
        BY <1>0, <1>11, <2>2, <3>2, NoRowTyped DEF ReadPurchase, Decides, Found, Settled
      <4> QED BY <1>0, <2>4, <4>1
    <3> QED BY <3>1, <3>2
  <2>6. DOMAIN pass'.listing \subseteq Sessions /\ pass'.decided \in BOOLEAN /\ pass'.write \in Rows
    BY <1>l, <2>5
  <2> QED BY <1>0, <1>11, <2>5, <2>6 DEF ReadPurchase, provider, webhooks, openings, TypeOK, PassTyped
<1>12. CASE WritePurchase
  <2>1. row' \in Rows
    BY <1>0, <1>12 DEF WritePurchase, Rows, TypeOK
  <2>2. NoPass \in Passes
    BY NothingListed, NoRowTyped, PurchasesAssumption DEF NoPass, NoTime
  <2>3. pass' \in Passes
    BY <1>0, <1>12, <2>2, NoRowTyped DEF WritePurchase
  <2>4. DOMAIN pass'.listing \subseteq Sessions /\ pass'.decided \in BOOLEAN /\ pass'.write \in Rows
    BY <1>l, <2>3
  <2> QED BY <1>0, <1>12, <2>1, <2>3, <2>4
          DEF WritePurchase, provider, webhooks, openings, TypeOK, PassTyped
<1>13. CASE UNCHANGED vars
  BY <1>0, <1>13 DEF vars, provider, webhooks, openings, TypeOK, PassTyped
<1> QED
  BY <1>1, <1>2, <1>3, <1>5, <1>6, <1>7, <1>8, <1>9, <1>10, <1>11, <1>12, <1>13
     DEF Next, Opening, Provider, Reconciliation

\* Events tell the past.
LEMMA ToldStep == IInv /\ [Next]_vars => Told'
<1> SUFFICES ASSUME IInv, [Next]_vars PROVE Told'
  OBVIOUS
<1>0. TypeOK /\ Told /\ \A s \in Sessions :
         /\ session[s] \in Collected => session'[s] \in Collected
         /\ session[s] = "refunded" => session'[s] = "refunded"
  BY Collecting DEF IInv
<1>1. \A e \in events : e.session \in Sessions /\ e.at \in Nat
  BY <1>0 DEF TypeOK, Events
<1>2. CASE Tick
  <2>1. clock \in Nat /\ clock' = clock + 1 /\ events' = events
    BY <1>0, <1>2 DEF Tick, TypeOK
  <2>2. Second(clock) <= Second(clock') /\ Second(clock) \in Nat /\ Second(clock') \in Nat
    BY <2>1, Seconds
  <2> QED BY <1>0, <1>1, <2>1, <2>2 DEF Told
<1>3. ASSUME NEW s \in Sessions, Pay(s) \/ RefundInPart(s) \/ RefundInFull(s) PROVE Told'
  <2>1. clock \in Nat /\ clock' = clock /\ Second(clock) \in Nat
    BY <1>0, <1>3, Seconds DEF Pay, RefundInPart, RefundInFull, TypeOK
  <2>2. PICK k \in {"paid", "partial", "refunded"} :
          /\ events' = events \cup {[kind |-> k, session |-> s, at |-> Second(clock)]}
          /\ session'[s] \in Collected
          /\ k = "refunded" => session'[s] = "refunded"
          /\ k = "paid" => session[s] = "open"
    BY <1>0, <1>3 DEF Pay, RefundInPart, RefundInFull, Create, Collected, Held, TypeOK
  <2>3. \A e \in events : k = "paid" => e.session # s
    BY <1>0, <2>2 DEF Told, Collected, Held
  <2>4. \A e \in events' : /\ e.at <= Second(clock) /\ session'[e.session] \in Collected
                           /\ e.kind = "refunded" => session'[e.session] = "refunded"
    BY <1>0, <1>1, <2>1, <2>2 DEF Told
  <2>5. \A e, f \in events' : e.session = f.session /\ e.kind = "paid" /\ f.kind = "refunded"
                                 => e.at <= f.at
    BY <1>0, <1>1, <2>1, <2>2, <2>3 DEF Told
  <2> QED BY <2>1, <2>4, <2>5 DEF Told
<1>4. CASE events' \subseteq events /\ clock' = clock
  BY <1>0, <1>1, <1>4 DEF Told
<1> QED
  <2>1. CASE UNCHANGED vars
    BY <1>4, <2>1 DEF vars, provider
  <2>2. ASSUME NEW b \in Tabs, Opening(b) PROVE Told'
    BY <1>4, <2>2 DEF Opening, OpenCheckout, OpenPurchase, AttachSession, OpeningFails, provider
  <2>3. CASE ForgetKey \/ Reconciliation
    BY <1>4, <2>3 DEF ForgetKey, Reconciliation, StartPass, ReadPurchase, WritePurchase, provider
  <2>4. ASSUME NEW e \in events, BeginWebhook(e) PROVE Told'
    BY <1>4, <2>4 DEF BeginWebhook, provider
  <2>5. ASSUME NEW x \in tx, CommitWebhook(x) \/ WebhookFails(x) PROVE Told'
    BY <1>4, <2>5 DEF CommitWebhook, WebhookFails, provider
  <2> QED BY <1>2, <1>3, <2>1, <2>2, <2>3, <2>4, <2>5 DEF Next, Provider

\* Everything but the webhooks leaves their transactions alone.
LEMMA Elsewhere ==
    ASSUME [Next]_vars
    PROVE  \/ UNCHANGED tx
           \/ \E e \in events : BeginWebhook(e)
           \/ \E x \in tx : CommitWebhook(x) \/ WebhookFails(x)
<1>1. ASSUME NEW b \in Tabs, Opening(b) PROVE UNCHANGED tx
  BY <1>1 DEF Opening, OpenCheckout, OpenPurchase, AttachSession, OpeningFails, webhooks
<1>2. CASE Provider
  BY <1>2 DEF Provider, Pay, RefundInPart, RefundInFull, Tick, ForgetKey, webhooks
<1>3. CASE Reconciliation
  BY <1>3 DEF Reconciliation, StartPass, ReadPurchase, WritePurchase, webhooks
<1>4. CASE UNCHANGED vars
  BY <1>4 DEF vars, webhooks
<1> QED BY <1>1, <1>2, <1>3, <1>4 DEF Next

\* Refunds are journaled by webhooks only.
LEMMA Journaling ==
    ASSUME [Next]_vars
    PROVE  UNCHANGED refundLog \/ \E x \in tx : CommitWebhook(x)
<1>1. ASSUME NEW b \in Tabs, Opening(b) PROVE UNCHANGED refundLog
  BY <1>1 DEF Opening, OpenCheckout, OpenPurchase, AttachSession, OpeningFails, webhooks
<1>2. CASE Provider
  BY <1>2 DEF Provider, Pay, RefundInPart, RefundInFull, Tick, ForgetKey, webhooks
<1>3. CASE Reconciliation
  BY <1>3 DEF Reconciliation, StartPass, ReadPurchase, WritePurchase, webhooks
<1>4. ASSUME NEW e \in events, BeginWebhook(e) PROVE UNCHANGED refundLog
  BY <1>4 DEF BeginWebhook
<1>5. ASSUME NEW x \in tx, WebhookFails(x) PROVE UNCHANGED refundLog
  BY <1>5 DEF WebhookFails
<1>6. CASE UNCHANGED vars
  BY <1>6 DEF vars, webhooks
<1> QED BY <1>1, <1>2, <1>3, <1>4, <1>5, <1>6 DEF Next

\* A pass is its own business.
LEMMA Passing ==
    ASSUME [Next]_vars
    PROVE  UNCHANGED pass \/ StartPass \/ WritePurchase \/ \E s \in Sessions : ReadPurchase(s)
<1>1. ASSUME NEW b \in Tabs, Opening(b) PROVE UNCHANGED pass
  BY <1>1 DEF Opening, OpenCheckout, OpenPurchase, AttachSession, OpeningFails
<1>2. CASE Provider
  BY <1>2 DEF Provider, Pay, RefundInPart, RefundInFull, Tick, ForgetKey
<1>4. ASSUME NEW e \in events, BeginWebhook(e) PROVE UNCHANGED pass
  BY <1>4 DEF BeginWebhook
<1>5. ASSUME NEW x \in tx, CommitWebhook(x) \/ WebhookFails(x) PROVE UNCHANGED pass
  BY <1>5 DEF CommitWebhook, WebhookFails
<1>6. CASE UNCHANGED vars
  BY <1>6 DEF vars
<1> QED BY <1>1, <1>2, <1>4, <1>5, <1>6 DEF Next, Reconciliation

\* An event is dated now, and stays until a transaction applies it.
LEMMA Creating ==
    ASSUME TypeOK, [Next]_vars
    PROVE  /\ \A e \in events' : e \in events \/ e.at = Second(clock)
           /\ \A e \in events \ events' : \E x \in tx : CommitWebhook(x) /\ x.event = e
           /\ Second(clock) \in 0 .. clock /\ Second(clock) <= Second(clock')
<1>0. clock \in Nat /\ Second(clock) \in 0 .. clock /\ Second(clock) <= Second(clock + 1)
  BY Seconds DEF TypeOK
<1>1. ASSUME NEW b \in Tabs, Opening(b) PROVE UNCHANGED <<events, clock>>
  BY <1>1 DEF Opening, OpenCheckout, OpenPurchase, AttachSession, OpeningFails, provider
<1>2. ASSUME NEW s \in Sessions, Pay(s) \/ RefundInPart(s) \/ RefundInFull(s)
      PROVE  /\ UNCHANGED clock /\ events \subseteq events'
             /\ \A e \in events' : e \in events \/ e.at = Second(clock)
  BY <1>2 DEF Pay, RefundInPart, RefundInFull, Create
<1>3. CASE Tick \/ ForgetKey
  BY <1>0, <1>3 DEF Tick, ForgetKey
<1>4. ASSUME Reconciliation PROVE UNCHANGED <<events, clock>>
  BY <1>4 DEF Reconciliation, StartPass, ReadPurchase, WritePurchase, provider
<1>5. ASSUME NEW e \in events, BeginWebhook(e) PROVE UNCHANGED <<events, clock>>
  BY <1>5 DEF BeginWebhook, provider
<1>6. ASSUME NEW x \in tx, CommitWebhook(x) PROVE UNCHANGED clock /\ events' = events \ {x.event}
  BY <1>6 DEF CommitWebhook, provider
<1>7. ASSUME NEW x \in tx, WebhookFails(x) PROVE UNCHANGED <<events, clock>>
  BY <1>7 DEF WebhookFails, provider
<1>8. CASE UNCHANGED vars
  BY <1>0, <1>8 DEF vars, provider
<1> QED BY <1>0, <1>1, <1>2, <1>3, <1>4, <1>5, <1>6, <1>7, <1>8 DEF Next, Provider

\* What was skewed stays so.
LEMMA Skewing == [Next]_vars => skewed \subseteq skewed'
<1> SUFFICES ASSUME [Next]_vars PROVE skewed \subseteq skewed'
  OBVIOUS
<1>1. ASSUME NEW b \in Tabs, Opening(b) PROVE UNCHANGED skewed
  BY <1>1 DEF Opening, OpenCheckout, OpenPurchase, AttachSession, OpeningFails, webhooks
<1>2. CASE Provider
  BY <1>2 DEF Provider, Pay, RefundInPart, RefundInFull, Tick, ForgetKey, webhooks
<1>3. CASE Reconciliation
  BY <1>3 DEF Reconciliation, StartPass, ReadPurchase, WritePurchase, webhooks
<1>4. ASSUME NEW e \in events, BeginWebhook(e) PROVE skewed \subseteq skewed'
  BY <1>4 DEF BeginWebhook
<1>5. ASSUME NEW x \in tx, CommitWebhook(x) \/ WebhookFails(x) PROVE UNCHANGED skewed
  BY <1>5 DEF CommitWebhook, WebhookFails
<1>6. CASE UNCHANGED vars
  BY <1>6 DEF vars, webhooks
<1> QED BY <1>1, <1>2, <1>3, <1>4, <1>5, <1>6 DEF Next

\* A transaction is alone with its event, and with the row it holds.
LEMMA ExclusiveStep == IInv /\ [Next]_vars => Exclusive'
<1> SUFFICES ASSUME IInv, [Next]_vars PROVE Exclusive'
  OBVIOUS
<1>1. CASE tx' \subseteq tx
  BY <1>1 DEF IInv, Exclusive
<1>2. ASSUME NEW e \in events, BeginWebhook(e) PROVE Exclusive'
  <2>1. /\ tx' = tx \cup {[event |-> e, matched |-> Matches(e)]}
        /\ \A x \in tx : x.event # e
        /\ Matches(e) => \A x \in tx : ~ x.matched
    BY <1>2 DEF BeginWebhook, Locked
  <2> QED BY <2>1 DEF IInv, Exclusive
<1> QED BY <1>1, <1>2, Elsewhere DEF CommitWebhook, WebhookFails

\* What a step writes to the row, and what lets it.
LEMMA Writing ==
    ASSUME [Next]_vars
    PROVE  \/ UNCHANGED row
           \/ \E b \in Tabs : OpenPurchase(b)
           \/ \E x \in tx : CommitWebhook(x)
           \/ WritePurchase
<1>1. ASSUME NEW b \in Tabs, OpenCheckout(b) \/ AttachSession(b) \/ OpeningFails(b)
      PROVE  UNCHANGED row
  BY <1>1 DEF OpenCheckout, AttachSession, OpeningFails
<1>2. CASE Provider
  BY <1>2 DEF Provider, Pay, RefundInPart, RefundInFull, Tick, ForgetKey
<1>3. ASSUME StartPass \/ \E s \in Sessions : ReadPurchase(s) PROVE UNCHANGED row
  BY <1>3 DEF StartPass, ReadPurchase
<1>4. ASSUME NEW e \in events, BeginWebhook(e) PROVE UNCHANGED row
  BY <1>4 DEF BeginWebhook
<1>5. ASSUME NEW x \in tx, WebhookFails(x) PROVE UNCHANGED row
  BY <1>5 DEF WebhookFails
<1>6. CASE UNCHANGED vars
  BY <1>6 DEF vars
<1> QED BY <1>1, <1>2, <1>3, <1>4, <1>5, <1>6 DEF Next, Opening, Reconciliation

\* What the commit of a webhook makes of the row.
LEMMA Committing ==
    ASSUME IInv, NEW x \in tx, CommitWebhook(x)
    PROVE  LET e == x.event IN
           /\ e \in events /\ e.session \in Sessions /\ e.at \in 0 .. MaxTime
           /\ e.kind = "paid" /\ x.matched /\ refundLog[e.session] = NoTime => row'.status = "paid"
           /\ row' # row =>
                 \/ /\ e.kind = "paid" /\ x.matched /\ refundLog[e.session] = NoTime
                    /\ row'.status = "paid" /\ row'.by = "event"
                    /\ row'.payment = e.session /\ row'.last = e.at
                 \/ /\ e.kind = "paid" /\ refundLog[e.session] # NoTime
                    /\ row'.status = "refunded" /\ row'.payment = e.session
                    /\ x.matched \/ row.payment = e.session
                 \/ /\ e.kind = "refunded" /\ x.matched
                    /\ row'.status = "refunded" /\ row'.payment = row.payment
<1>1. x.event \in Events /\ x.event \in events /\ row \in Rows
  BY DEF IInv, TypeOK
<1>2. ASSUME NEW r \in Rows, NEW t \in NoTime .. MaxTime
      PROVE  /\ Refunded(r, t) \in Rows /\ Refunded(r, t).status = "refunded"
             /\ Refunded(r, t).payment = r.payment
  BY DEF Refunded, Rows
<1>p. /\ Paid(row, x.event) \in Rows /\ Paid(row, x.event).status = "paid"
      /\ Paid(row, x.event).by = "event" /\ Paid(row, x.event).payment = x.event.session
      /\ Paid(row, x.event).last = x.event.at
  <2>1. x.event.at \in NoTime .. MaxTime /\ x.event.session \in 0 .. MaxSessions
    BY <1>1, PurchasesAssumption DEF Events, NoTime, Sessions
  <2> QED BY <1>1, <2>1 DEF Paid, Rows
<1>3. refundLog[x.event.session] \in NoTime .. MaxTime
  BY <1>1 DEF Events, IInv, TypeOK
<1>4. x.event.at \in NoTime .. MaxTime
  BY <1>1 DEF Events, NoTime
<1>5. CASE x.event.kind = "paid"
  <2> DEFINE r == IF x.matched THEN Paid(row, x.event) ELSE row
  <2>1. row' = IF r.payment = x.event.session /\ refundLog[x.event.session] # NoTime
               THEN Refunded(r, refundLog[x.event.session]) ELSE r
    BY <1>5 DEF CommitWebhook, ReplayRefund
  <2>2. r \in Rows
    BY <1>1, <1>p
  <2>3. CASE r.payment = x.event.session /\ refundLog[x.event.session] # NoTime
    <3>1. row'.status = "refunded" /\ row'.payment = r.payment
      BY <1>2, <1>3, <2>1, <2>2, <2>3
    <3> QED BY <1>1, <1>5, <2>3, <3>1 DEF Events
  <2>4. CASE ~ (r.payment = x.event.session /\ refundLog[x.event.session] # NoTime)
    BY <1>1, <1>p, <1>5, <2>1, <2>4 DEF Events
  <2> QED BY <2>3, <2>4
<1>6. CASE x.event.kind # "paid"
  <2>1. \/ row' = row
        \/ x.event.kind = "refunded" /\ x.matched /\ row' = Refunded(row, x.event.at)
    <3>1. CASE x.event.kind = "refunded"
      BY <1>6, <3>1, Zenon DEF CommitWebhook, Revokes
    <3>2. CASE x.event.kind # "refunded"
      BY <1>6, <3>2, Zenon DEF CommitWebhook, Revokes
    <3> QED BY <3>1, <3>2
  <2> QED BY <1>1, <1>2, <1>4, <1>6, <2>1 DEF Events
<1> QED BY <1>5, <1>6

\* A refund that has chosen the row finds it as it was when it commits.
LEMMA ChosenStep == IInv /\ [Next]_vars => Chosen'
<1> SUFFICES ASSUME IInv, [Next]_vars PROVE Chosen'
  OBVIOUS
<1>1. CASE UNCHANGED <<tx, row>>
  BY <1>1 DEF IInv, Chosen
<1>2. CASE ~ Locked /\ UNCHANGED tx
  BY <1>2 DEF Locked, Chosen
<1>3. ASSUME NEW e \in events, BeginWebhook(e) PROVE Chosen'
  <2>1. tx' = tx \cup {[event |-> e, matched |-> Matches(e)]} /\ row' = row
    BY <1>3 DEF BeginWebhook
  <2>2. Matches(e) /\ e.kind # "paid" => e.kind = "refunded" /\ row.payment = e.session
    BY DEF Matches, Revokes, RefundMatches
  <2> QED BY <2>1, <2>2 DEF IInv, Chosen
<1>4. ASSUME NEW x \in tx, CommitWebhook(x) PROVE Chosen'
  <2> SUFFICES ASSUME NEW y \in tx', y.matched, y.event.kind # "paid"
               PROVE  y.event.kind = "refunded" /\ row'.payment = y.event.session
    BY DEF Chosen
  <2>1. y \in tx /\ y # x
    BY <1>4 DEF CommitWebhook
  <2>2. ~ x.matched
    BY <2>1 DEF IInv, Exclusive
  <2>3. row'.payment = row.payment
    BY <1>4, <2>2, Committing
  <2> QED BY <2>1, <2>3 DEF IInv, Chosen
<1>5. ASSUME NEW x \in tx, WebhookFails(x) PROVE Chosen'
  BY <1>5 DEF WebhookFails, IInv, Chosen
<1>6. ASSUME NEW b \in Tabs, OpenPurchase(b) PROVE Chosen'
  BY <1>2, <1>6 DEF OpenPurchase, webhooks
<1>7. CASE WritePurchase
  BY <1>2, <1>7 DEF WritePurchase, webhooks
<1> QED BY <1>1, <1>3, <1>4, <1>5, <1>6, <1>7, Writing, Elsewhere

\* A row that exists goes on existing.
LEMMA RowStays ==
    ASSUME IInv, [Next]_vars, row.status # "none"
    PROVE  row'.status # "none"
<1>1. ASSUME NEW b \in Tabs, OpenPurchase(b) PROVE row'.status # "none"
  BY <1>1 DEF OpenPurchase, NoRow
<1>2. ASSUME NEW x \in tx, CommitWebhook(x) PROVE row'.status # "none"
  BY <1>2, Committing
<1>3. CASE WritePurchase
  <2>1. pass.write \in Rows /\ pass.write.status # "none"
    BY <1>3 DEF WritePurchase, IInv, Backed, TypeOK
  <2> QED BY <1>3, <2>1 DEF WritePurchase, Rows
<1> QED BY <1>1, <1>2, <1>3, Writing

\* What is attached, or about to be, has a row; what was paid was handed out.
LEMMA AttachingStep == IInv /\ [Next]_vars => Attaching'
<1> SUFFICES ASSUME IInv, [Next]_vars PROVE Attaching'
  OBVIOUS
<1>0. TypeOK /\ Attaching
  BY DEF IInv
<1>s. row.status # "none" => row'.status # "none"
  BY RowStays
<1>1. CASE UNCHANGED <<session, handed, index, tab>>
  BY <1>0, <1>1, <1>s DEF Attaching
<1>2. ASSUME NEW b \in Tabs, OpenCheckout(b) PROVE Attaching'
  <2>1. /\ UNCHANGED <<handed, index, row>>
        /\ \E v \in Sessions : tab' = [tab EXCEPT ![b] = [pc |-> "created", session |-> v]]
    BY <1>0, <1>2, PurchasesAssumption
       DEF OpenCheckout, At, TypeOK, Unopened, NoSession, Sessions
  <2>2. \A s \in Sessions : session'[s] \in Collected => session[s] \in Collected
    BY <1>0, <1>2 DEF OpenCheckout, TypeOK, Collected, Held
  <2> QED BY <1>0, <2>1, <2>2 DEF Attaching, TypeOK
<1>3. ASSUME NEW b \in Tabs, OpenPurchase(b) PROVE Attaching'
  <2>1. /\ UNCHANGED <<session, handed, index>> /\ tab[b].pc = "created"
        /\ tab' = [tab EXCEPT ![b] = [pc |-> "written", session |-> tab[b].session]]
    BY <1>3 DEF OpenPurchase, At, provider
  <2>2. row'.status # "none"
    BY <1>3 DEF OpenPurchase, MayReopen, NoRow
  <2> QED BY <1>0, <2>1, <2>2 DEF Attaching, TypeOK
<1>4. ASSUME NEW b \in Tabs, AttachSession(b) PROVE Attaching'
  <2>1. /\ UNCHANGED <<session, row>> /\ tab[b].pc = "written" /\ handed \subseteq handed'
        /\ tab' = [tab EXCEPT ![b] = [pc |-> "idle", session |-> NoSession]]
    BY <1>4 DEF AttachSession, At, provider
  <2> QED BY <1>0, <2>1 DEF Attaching, TypeOK
<1>5. ASSUME NEW b \in Tabs, OpeningFails(b) PROVE Attaching'
  <2>1. /\ UNCHANGED <<session, handed, index, row>>
        /\ tab' = [tab EXCEPT ![b] = [pc |-> "idle", session |-> NoSession]]
    BY <1>5 DEF OpeningFails, At, provider
  <2> QED BY <1>0, <2>1 DEF Attaching, TypeOK
<1>6. ASSUME NEW s \in Sessions, Pay(s) \/ RefundInPart(s) \/ RefundInFull(s) PROVE Attaching'
  <2>1. UNCHANGED <<tab, handed, index, row>> /\ s \in handed
    BY <1>0, <1>6 DEF Pay, RefundInPart, RefundInFull, openings, Attaching, Collected, Held
  <2>2. \A t \in Sessions : t # s => session'[t] = session[t]
    BY <1>0, <1>6 DEF Pay, RefundInPart, RefundInFull, TypeOK
  <2> QED BY <1>0, <2>1, <2>2 DEF Attaching
<1> QED
  <2>1. CASE UNCHANGED vars
    BY <1>1, <2>1 DEF vars, provider, openings
  <2>2. CASE Tick \/ ForgetKey \/ Reconciliation
    BY <1>1, <2>2 DEF Tick, ForgetKey, Reconciliation, StartPass, ReadPurchase, WritePurchase,
                      provider, openings
  <2>3. ASSUME NEW e \in events, BeginWebhook(e) PROVE Attaching'
    BY <1>1, <2>3 DEF BeginWebhook, provider, openings
  <2>4. ASSUME NEW x \in tx, CommitWebhook(x) \/ WebhookFails(x) PROVE Attaching'
    BY <1>1, <2>4 DEF CommitWebhook, WebhookFails, provider, openings
  <2> QED BY <1>2, <1>3, <1>4, <1>5, <1>6, <2>1, <2>2, <2>3, <2>4 DEF Next, Opening, Provider

\* What was told of the row and of its journal was true of the provider and stays so.
LEMMA BackedStep == IInv /\ [Next]_vars => Backed'
<1> SUFFICES ASSUME IInv, [Next]_vars PROVE Backed'
  OBVIOUS
<1>0. TypeOK /\ Backed /\ Told /\ Chosen /\ PassTyped
  BY DEF IInv
<1>c. \A s \in Sessions : /\ session[s] \in Collected => session'[s] \in Collected
                          /\ session[s] = "refunded" => session'[s] = "refunded"
  BY <1>0, Collecting
<1>k. \A r \in Rows : Backs(r, session) => Backs(r, session')
  BY <1>c DEF Backs
<1>1. Backs(row', session') /\ (row'.last # NoTime => row'.status \in {"paid", "refunded"})
  <2>1. CASE UNCHANGED row
    BY <1>0, <1>k, <2>1 DEF Backed, TypeOK
  <2>2. ASSUME NEW b \in Tabs, OpenPurchase(b)
        PROVE  Backs(row', session') /\ (row'.last # NoTime => row'.status \in {"paid", "refunded"})
    <3>1. row' = row \/ (row'.status = "pending" /\ row'.last = NoTime)
      BY <2>2 DEF OpenPurchase, NoRow
    <3> QED BY <2>1, <3>1 DEF Backs
  <2>3. ASSUME NEW x \in tx, CommitWebhook(x)
        PROVE  Backs(row', session') /\ (row'.last # NoTime => row'.status \in {"paid", "refunded"})
    <3> SUFFICES ASSUME row' # row
                 PROVE  row'.status \in {"paid", "refunded"} /\ Backs(row', session')
      BY <2>1
    <3>1. /\ x.event \in events /\ x.event.session \in Sessions
          /\ session[x.event.session] \in Collected
          /\ x.event.kind = "refunded" => session[x.event.session] = "refunded"
      BY <1>0, <2>3, Committing DEF Told
    <3>2. CASE row'.status = "paid" /\ row'.payment = x.event.session
      BY <1>c, <3>1, <3>2 DEF Backs
    <3>3. CASE /\ row'.status = "refunded" /\ row'.payment = x.event.session
               /\ session[x.event.session] = "refunded"
      BY <1>c, <3>1, <3>3 DEF Backs
    <3>4. refundLog[x.event.session] # NoTime => session[x.event.session] = "refunded"
      BY <1>0, <3>1 DEF Backed
    <3>5. x.matched /\ x.event.kind = "refunded" => row.payment = x.event.session
      BY <1>0 DEF Chosen
    <3> QED BY <2>3, <3>1, <3>2, <3>3, <3>4, <3>5, Committing
  <2>4. CASE WritePurchase
    <3>1. /\ pass.write \in Rows /\ pass.write.status \in {"paid", "refunded"}
          /\ Backs(pass.write, session')
      BY <1>0, <1>k, <2>4 DEF WritePurchase, Backed, TypeOK
    <3>2. row'.status = pass.write.status /\ row'.payment = pass.write.payment
      BY <2>4, <3>1 DEF WritePurchase, Rows
    <3> QED BY <3>1, <3>2 DEF Backs
  <2> QED BY <2>1, <2>2, <2>3, <2>4, Writing
<1>2. \A s \in Sessions : refundLog'[s] # NoTime => session'[s] = "refunded"
  <2>1. CASE UNCHANGED refundLog
    BY <1>0, <1>c, <2>1 DEF Backed
  <2>2. ASSUME NEW x \in tx, CommitWebhook(x), refundLog' # refundLog
        PROVE  \A s \in Sessions : refundLog'[s] # NoTime => session'[s] = "refunded"
    <3>1. /\ x.event.kind = "refunded"
          /\ \A s \in Sessions : s # x.event.session => refundLog'[s] = refundLog[s]
      BY <1>0, <2>2 DEF CommitWebhook, Revokes, TypeOK
    <3>2. x.event \in events /\ x.event.session \in Sessions
      BY <2>2, Committing
    <3>3. session[x.event.session] = "refunded"
      BY <1>0, <3>1, <3>2 DEF Told
    <3> QED BY <1>0, <1>c, <3>1, <3>2, <3>3 DEF Backed
  <2> QED BY <2>1, <2>2, Elsewhere, Journaling
<1>3. ASSUME UNCHANGED pass
      PROVE  /\ \A s \in DOMAIN pass'.listing :
                   /\ pass'.listing[s] \in Collected => session'[s] \in Collected
                   /\ pass'.listing[s] = "refunded" => session'[s] = "refunded"
             /\ pass'.write # NoRow =>
                   /\ pass'.write.status \in {"paid", "refunded"} /\ pass'.write.by = "reconcile"
                   /\ Backs(pass'.write, session')
                   /\ pass'.write.status = "refunded" => session'[pass'.write.payment] = "refunded"
  BY <1>0, <1>c, <1>k, <1>3 DEF Backed, TypeOK, Backs
<1>4. CASE StartPass
  <2>1. UNCHANGED session /\ pass'.listing = Restrict(session, Sessions \ Unopened)
        /\ pass'.write = NoRow
    BY <1>4 DEF StartPass, NoPass, provider
  <2>2. \A s \in DOMAIN pass'.listing : pass'.listing[s] = session'[s]
    BY <1>0, <2>1, OpenedListing
  <2> QED BY <1>1, <1>2, <2>1, <2>2 DEF Backed
<1>5. ASSUME NEW s \in Sessions, ReadPurchase(s) PROVE Backed'
  <2> DEFINE l == Restrict(pass.listing, DOMAIN pass.listing \ {s})
             w == [Target(pass.listing[s], s, row) EXCEPT !.last = pass.at, !.by = "reconcile"]
  <2>1. CASE pass' = NoPass
    BY <1>1, <1>2, <2>1, NothingListed, NoRowTyped DEF Backed, NoPass
  <2>2. CASE pass' # NoPass
    <3>1. /\ UNCHANGED session /\ s \in DOMAIN pass.listing /\ pass'.listing = l
          /\ pass'.write # NoRow => /\ pass'.write = w
                                    /\ Decides(pass.listing[s], s, row, pass.decided)
      BY <1>0, <1>5, <2>2 DEF ReadPurchase, provider, PassTyped
    <3>2. \A t \in DOMAIN pass'.listing :
             t \in DOMAIN pass.listing /\ pass'.listing[t] = pass.listing[t]
      BY <1>0, <3>1, ListingPart DEF PassTyped
    <3>3. ASSUME pass'.write # NoRow
          PROVE  /\ w.status \in {"paid", "refunded"} /\ w.by = "reconcile" /\ w.payment = s
                 /\ w.status = "paid" => session[s] \in Collected
                 /\ w.status = "refunded" => session[s] = "refunded"
      <4>1. /\ w.by = "reconcile" /\ w.payment = s
            /\ w.status = IF refundLog[s] # NoTime THEN "refunded"
                          ELSE Reading(pass.listing[s], s, row.status)
        BY <1>0 DEF Target, TypeOK, Rows
      <4>2. LET d == Reading(pass.listing[s], s, row.status) IN
            /\ d # "none" /\ d \in {"none", "paid", "refunded"} /\ pass.listing[s] \in Collected
            /\ d = "refunded" => pass.listing[s] = "refunded"
        BY <3>1, <3>3 DEF Decides, Reading
      <4> QED BY <1>0, <3>1, <4>1, <4>2 DEF Backed
    <3>4. pass'.write # NoRow =>
             /\ pass'.write.status \in {"paid", "refunded"} /\ pass'.write.by = "reconcile"
             /\ Backs(pass'.write, session')
             /\ pass'.write.status = "refunded" => session'[pass'.write.payment] = "refunded"
      BY <3>1, <3>3 DEF Backs
    <3>5. \A t \in DOMAIN pass'.listing :
             /\ pass'.listing[t] \in Collected => session'[t] \in Collected
             /\ pass'.listing[t] = "refunded" => session'[t] = "refunded"
      BY <1>0, <3>1, <3>2 DEF Backed
    <3> QED BY <1>1, <1>2, <3>4, <3>5 DEF Backed
  <2> QED BY <2>1, <2>2
<1>6. CASE WritePurchase
  <2>1. pass'.write = NoRow /\ UNCHANGED session /\ pass'.listing = pass.listing
    BY <1>0, <1>6, NothingListed, NoRowTyped DEF WritePurchase, provider, PassTyped, NoPass
  <2> QED BY <1>0, <1>1, <1>2, <2>1 DEF Backed
<1> QED BY <1>1, <1>2, <1>3, <1>4, <1>5, <1>6, Passing DEF Backed

\* A row granted by the webhook goes on knowing of the refunds of its payment.
LEMMA RevokingStep == IInv /\ [Next]_vars => Revoking' /\ RefundRevokes'
<1> SUFFICES ASSUME IInv, [Next]_vars PROVE Revoking' /\ RefundRevokes'
  OBVIOUS
<1> DEFINE Granted(r, t) ==
             /\ r.last <= Second(t)
             /\ \A e \in events' : e.kind = "refunded" /\ e.session = r.payment => r.last <= e.at
             /\ \A x \in tx' :
                   x.event.kind = "refunded" /\ x.event.session = r.payment /\ ~ x.matched
                      => r.payment \in skewed'
             /\ refundLog'[r.payment] = NoTime \/ r.payment \in skewed'
<1>0. TypeOK /\ Told /\ Chosen /\ Backed /\ Revoking /\ RefundRevokes /\ skewed \subseteq skewed'
  BY Skewing DEF IInv
<1>1. \A x, y \in tx' :
         x.event.session = y.event.session /\ x.event.kind = "paid" /\ y.event.kind = "refunded"
            => x.event.session \in skewed'
  <2>1. CASE tx' \subseteq tx
    BY <1>0, <2>1 DEF Revoking
  <2>2. ASSUME NEW e \in events, BeginWebhook(e)
        PROVE  \A x, y \in tx' :
                  x.event.session = y.event.session /\ x.event.kind = "paid"
                  /\ y.event.kind = "refunded" => x.event.session \in skewed'
    <3>1. tx' = tx \cup {[event |-> e, matched |-> Matches(e)]}
      BY <2>2 DEF BeginWebhook
    <3>2. \A x \in tx : x.event.session = e.session /\ x.event.kind # e.kind
                        /\ x.event.kind # "partial" => e.session \in skewed'
      BY <2>2 DEF BeginWebhook, Overlap
    <3> QED BY <1>0, <3>1, <3>2 DEF Revoking
  <2> QED BY <2>1, <2>2, Elsewhere DEF CommitWebhook, WebhookFails
<1>2. ASSUME UNCHANGED row, row.status = "paid", row.by = "event" PROVE Granted(row, clock')
  <2>0. row.last \in Int /\ clock \in Nat /\ \A e \in events : e.at \in Int
    BY <1>0 DEF TypeOK, Rows, Events, NoTime
  <2>1. row.last <= Second(clock) /\ Second(clock) \in Int /\ Second(clock) <= Second(clock')
        /\ \A e \in events' : e \in events \/ e.at = Second(clock)
    BY <1>0, <1>2, <2>0, Creating DEF Revoking
  <2>c. clock' \in Nat /\ Second(clock') \in Int
    <3>1. clock' \in Nat
      BY TypesStep DEF TypeOK
    <3> QED BY <3>1, Seconds
  <2>2. row.last <= Second(clock')
    BY <2>0, <2>1, <2>c
  <2>3. \A e \in events' : e.kind = "refunded" /\ e.session = row.payment => row.last <= e.at
    BY <1>0, <1>2, <2>1 DEF Revoking
  <2>4. ASSUME NEW x \in tx', x.event.kind = "refunded", x.event.session = row.payment, ~ x.matched
        PROVE  row.payment \in skewed'
    <3>1. CASE x \in tx
      BY <1>0, <1>2, <2>4, <3>1 DEF Revoking
    <3>2. ASSUME NEW e \in events, BeginWebhook(e), x \notin tx PROVE FALSE
      <4>1. x = [event |-> e, matched |-> Matches(e)]
        BY <3>2 DEF BeginWebhook
      <4>2. e.kind = "refunded" /\ e.session = row.payment /\ row.last <= e.at
        BY <1>0, <1>2, <2>4, <4>1 DEF Revoking
      <4> QED BY <2>4, <4>1, <4>2 DEF Matches, Revokes, RefundMatches, AppliesAfter
    <3> QED BY <3>1, <3>2, Elsewhere DEF CommitWebhook, WebhookFails
  <2>5. refundLog'[row.payment] = NoTime \/ row.payment \in skewed'
    <3>1. CASE UNCHANGED refundLog
      BY <1>0, <1>2, <3>1 DEF RefundRevokes
    <3>2. ASSUME NEW x \in tx, CommitWebhook(x), x.event.session = row.payment,
                 refundLog' # refundLog
          PROVE  row.payment \in skewed'
      <4>1. x.event.kind = "refunded" /\ (x.matched => row' = Refunded(row, x.event.at))
        BY <3>2 DEF CommitWebhook, Revokes
      <4>2. ~ x.matched
        BY <1>0, <1>2, <4>1 DEF Refunded, TypeOK, Rows
      <4> QED BY <1>0, <1>2, <3>2, <4>1, <4>2 DEF Revoking
    <3>3. ASSUME NEW x \in tx, CommitWebhook(x), x.event.session # row.payment
          PROVE  refundLog'[row.payment] = refundLog[row.payment]
      BY <1>0, <1>2, <3>3 DEF CommitWebhook, TypeOK, Backed, Backs
    <3> QED BY <1>0, <1>2, <3>1, <3>2, <3>3, Journaling DEF RefundRevokes
  <2> QED BY <2>2, <2>3, <2>4, <2>5
<1>3. ASSUME NEW x \in tx, CommitWebhook(x), row' # row, row'.status = "paid"
      PROVE  Granted(row', clock')
  <2>1. /\ x.event \in events /\ x.event.session \in Sessions /\ x.event.kind = "paid"
        /\ refundLog[x.event.session] = NoTime
        /\ row'.payment = x.event.session /\ row'.last = x.event.at
    BY <1>3, Committing
  <2>2. UNCHANGED <<clock, refundLog, skewed>> /\ events' \subseteq events /\ tx' \subseteq tx
    BY <1>3, <2>1 DEF CommitWebhook, provider
  <2>3. /\ x.event.at <= Second(clock)
        /\ \A f \in events : f.kind = "refunded" /\ f.session = x.event.session => x.event.at <= f.at
    BY <1>0, <2>1 DEF Told
  <2>4. \A y \in tx : y.event.kind = "refunded" /\ y.event.session = x.event.session
                         => x.event.session \in skewed
    BY <1>0, <2>1 DEF Revoking
  <2> QED BY <2>1, <2>2, <2>3, <2>4
<1>4. ASSUME NEW b \in Tabs, OpenPurchase(b) PROVE row' = row \/ row'.status # "paid"
  BY <1>4 DEF OpenPurchase, NoRow
<1>5. ASSUME WritePurchase PROVE row'.by # "event"
  <2>1. pass.write \in Rows /\ pass.write.by = "reconcile"
    BY <1>0, <1>5 DEF WritePurchase, Backed, TypeOK
  <2> QED BY <1>5, <2>1 DEF WritePurchase, Rows
<1>6. row'.status = "paid" /\ row'.by = "event" => Granted(row', clock')
  BY <1>2, <1>3, <1>4, <1>5, Writing
<1> QED BY <1>1, <1>6 DEF Revoking, RefundRevokes

\* The payment collected alone is granted, or will be.
LEMMA GrantingStep == IInv /\ [Next]_vars => Granting'
<1> SUFFICES ASSUME IInv, [Next]_vars, NEW s \in Sessions, Collect' = {s}, session'[s] \in Held
             PROVE  \/ row'.status = "paid"
                    \/ \E e \in events' : /\ e.kind = "paid" /\ e.session = s
                                          /\ \A x \in tx' : x.event = e => x.matched
  BY DEF Granting
<1>0. TypeOK /\ Told /\ Chosen /\ Attaching /\ Backed /\ Granting
  BY DEF IInv
<1>1. CASE session[s] \notin Collected
  <2>1. Pay(s)
    BY <1>1, Paying DEF Collected
  <2> DEFINE n == [kind |-> "paid", session |-> s, at |-> Second(clock)]
  <2>2. n \in events' /\ tx' = tx
    BY <2>1 DEF Pay, Create, webhooks
  <2>3. \A x \in tx : x.event \in events /\ x.event.session # s
    BY <1>0, <1>1 DEF TypeOK, Told
  <2>4. n.kind = "paid" /\ n.session = s /\ \A x \in tx' : x.event = n => x.matched
    BY <2>2, <2>3
  <2> QED BY <2>2, <2>4
<1>2. CASE session[s] \in Collected
  <2>1. /\ \A t \in Sessions : session[t] \in Collected => t = s
        /\ \A t \in Sessions : session[t] # "refunded"
        /\ Collect = {s} /\ session[s] \in Held
    BY <1>0, <1>2, Collecting DEF Collect, Collected, Held
  <2>2. \A t \in Sessions : refundLog[t] = NoTime
    BY <1>0, <2>1 DEF Backed
  <2>3. \A x \in tx : CommitWebhook(x) => x.event.kind # "refunded"
    BY <1>0, <2>1, Committing DEF Told
  <2>4. CASE row.status = "paid"
    <3>1. ASSUME NEW b \in Tabs, OpenPurchase(b) PROVE row'.status = "paid"
      BY <2>4, <3>1 DEF OpenPurchase, MayReopen
    <3>2. ASSUME NEW x \in tx, CommitWebhook(x) PROVE row'.status = "paid"
      BY <2>2, <2>3, <2>4, <3>2, Committing
    <3>3. ASSUME WritePurchase PROVE row'.status = "paid"
      <4>1. pass.write \in Rows /\ pass.write.status \in {"paid", "refunded"}
            /\ (pass.write.status = "refunded" => \E t \in Sessions : session[t] = "refunded")
        BY <1>0, <3>3 DEF WritePurchase, Backed, Backs, TypeOK
      <4> QED BY <2>1, <3>3, <4>1 DEF WritePurchase, Rows
    <3> QED BY <2>4, <3>1, <3>2, <3>3, Writing
  <2>5. ASSUME NEW e \in events, e.kind = "paid", e.session = s,
               \A x \in tx : x.event = e => x.matched
        PROVE  \/ row'.status = "paid"
               \/ e \in events' /\ \A x \in tx' : x.event = e => x.matched
    <3>1. ASSUME NEW x \in tx, CommitWebhook(x), x.event = e PROVE row'.status = "paid"
      BY <2>2, <2>5, <3>1, Committing
    <3>2. e \in events' \/ row'.status = "paid"
      BY <1>0, <3>1, Creating
    <3>3. CASE tx' \subseteq tx
      BY <2>5, <3>2, <3>3
    <3>4. ASSUME BeginWebhook(e), ~ Matches(e) PROVE row'.status = "paid"
      <4>1. row' = row /\ ~ PaidMatches(e)
        BY <2>5, <3>4 DEF BeginWebhook, Matches
      <4>2. s \in index /\ row.status # "none"
        BY <1>0, <1>2 DEF Attaching, TypeOK
      <4>3. row.status # "refunded"
        BY <1>0, <2>1 DEF Backed, Backs
      <4>4. row.last # NoTime
        BY <2>5, <4>1, <4>2, <4>3 DEF PaidMatches, Found, AppliesAfter
      <4> QED BY <1>0, <4>1, <4>3, <4>4 DEF Backed
    <3>5. ASSUME NEW f \in events, BeginWebhook(f), f # e \/ Matches(e)
          PROVE  \A x \in tx' : x.event = e => x.matched
      BY <2>5, <3>5 DEF BeginWebhook
    <3> QED BY <3>2, <3>3, <3>4, <3>5, Elsewhere DEF CommitWebhook, WebhookFails
  <2> QED BY <1>0, <2>1, <2>4, <2>5 DEF Granting
<1> QED BY <1>1, <1>2

\* The strengthening is an invariant.
LEMMA Inductive == Spec => []IInv
<1>1. IInv /\ [Next]_vars => IInv'
  BY TypesStep, ToldStep, ExclusiveStep, ChosenStep, AttachingStep, BackedStep, RevokingStep,
     GrantingStep DEF IInv
<1> QED BY InitInductive, <1>1, PTL DEF Spec

-----------------------------------------------------------------------------

\* The types of the state, for every number of sessions, openings and transactions.
THEOREM PurchaseTypes == Spec => []TypeOK
<1>1. IInv => TypeOK BY DEF IInv
<1> QED BY Inductive, <1>1, PTL

\* In whatever order the provider's events are delivered, repeated, lost and delivered
\* again, a row granted by the webhook carries a payment whose total refund was not
\* received, unless the refund and the confirmation overlapped.
THEOREM RefundsRevoke == Spec => []RefundRevokes
<1>1. IInv => RefundRevokes BY DEF IInv
<1> QED BY Inductive, <1>1, PTL

\* An offer paid for once is granted once its events were applied, whichever of its
\* sessions was paid and whatever was opened since.
THEOREM PaymentsGrant == Spec => []PaymentGrants
<1>1. IInv => PaymentGrants BY DEF IInv, Granting, PaymentGrants, Quiet
<1> QED BY Inductive, <1>1, PTL

\* Two sessions that were collected are more than one.
LEMMA TwoCollected ==
    ASSUME NEW s \in Collect, NEW t \in Collect, s # t
    PROVE  Cardinality(Collect) > 1
<1>1. IsFiniteSet(Collect)
  <2>1. IsFiniteSet(Sessions)
    BY FS_Interval, PurchasesAssumption DEF Sessions
  <2>2. Collect \in SUBSET Sessions
    BY DEF Collect
  <2> QED BY <2>1, <2>2, FS_Subset
<1>2. IsFiniteSet({s}) /\ Cardinality({s}) = 1
  BY FS_Singleton
<1>3. Cardinality({s} \cup {t}) = 2
  BY <1>2, FS_AddElement
<1>4. {s} \cup {t} \in SUBSET Collect
  OBVIOUS
<1>5. Cardinality(Collect) \in Nat /\ 2 <= Cardinality(Collect)
  BY <1>1, <1>3, <1>4, FS_Subset, FS_CardinalityType
<1> QED BY <1>5

\* A step that takes access away follows the total refund of the payment that granted it,
\* or the offer was paid for twice.
LEMMA LosingStep ==
    ASSUME IInv, [Next]_vars, row.status = "paid", row'.status # "paid"
    PROVE  session[row.payment] = "refunded" \/ Cardinality(Collect) > 1
<1>0. TypeOK /\ Told /\ Chosen /\ Backed
  BY DEF IInv
<1>1. row.payment \in Collect
  BY <1>0 DEF Backed, Backs, Collect
<1>2. ASSUME NEW s \in Sessions, session[s] = "refunded"
      PROVE  session[row.payment] = "refunded" \/ Cardinality(Collect) > 1
  <2>1. s \in Collect
    BY <1>2 DEF Collect, Collected
  <2> QED BY <1>1, <1>2, <2>1, TwoCollected
<1>3. ASSUME NEW b \in Tabs, OpenPurchase(b) PROVE FALSE
  BY <1>3 DEF OpenPurchase, MayReopen
<1>4. ASSUME NEW x \in tx, CommitWebhook(x)
      PROVE  \E s \in Sessions : session[s] = "refunded"
  <2>1. x.event \in events /\ x.event.session \in Sessions
    BY <1>4, Committing
  <2>2. CASE x.event.kind = "refunded"
    BY <1>0, <2>1, <2>2 DEF Told
  <2>3. CASE refundLog[x.event.session] # NoTime
    BY <1>0, <2>1, <2>3 DEF Backed
  <2> QED BY <1>4, <2>2, <2>3, Committing
<1>5. ASSUME WritePurchase PROVE \E s \in Sessions : session[s] = "refunded"
  <2>1. pass.write \in Rows /\ pass.write.status \in {"paid", "refunded"}
        /\ (pass.write.status = "refunded" => \E s \in Sessions : session[s] = "refunded")
    BY <1>0, <1>5 DEF WritePurchase, Backed, Backs, TypeOK
  <2> QED BY <1>5, <2>1 DEF WritePurchase, Rows
<1> QED BY <1>2, <1>3, <1>4, <1>5, Writing

\* Access bought once is lost by a total refund of its payment and by nothing else, at
\* every step and in every interleaving of openings, webhooks and reconciliation.
THEOREM AccessKept == Spec => AccessLostOnlyByRefund
<1>1. IInv /\ [Next]_vars =>
         [row.status = "paid" /\ row'.status # "paid"
             => session[row.payment] = "refunded" \/ Cardinality(Collect) > 1]_vars
  BY LosingStep
<1> QED BY Inductive, <1>1, PTL DEF Spec, AccessLostOnlyByRefund

\* The order of the numbers, as a relation.
Below == OpToRel(<, Nat)

\* A set of numbers that has a member has a least one.
LEMMA LeastNumber ==
    ASSUME NEW T \in SUBSET Nat, T # {}
    PROVE  \E m \in T : \A n \in T : m <= n
<1>1. IsWellFoundedOn(Below, Nat)
  BY NatLessThanWellFounded DEF Below
<1>2. \A m, n \in Nat : n < m => <<n, m>> \in Below
  BY DEF OpToRel, Below
<1>3. PICK m \in T : \A n \in T : <<n, m>> \notin Below
  BY <1>1, WFMin
<1>4. ASSUME NEW n \in T PROVE m <= n
  <2>1. ~ (n < m)
    BY <1>2, <1>3
  <2> QED BY <2>1
<1> QED BY <1>4

\* Induction over the sessions of a pass, for a set of numbers.
LEMMA Counting ==
    ASSUME NEW S, 0 \in S, NEW m \in Nat, \A n \in 0 .. m : n \in S /\ n # m => n + 1 \in S
    PROVE  0 .. m \subseteq S
<1> SUFFICES ASSUME ~ (0 .. m \subseteq S) PROVE FALSE
  OBVIOUS
<1> DEFINE T == {n \in 0 .. m : n \notin S}
<1>1. PICK k \in T : \A n \in T : k <= n
  <2>1. T \in SUBSET Nat /\ T # {}
    OBVIOUS
  <2> HIDE DEF T
  <2> QED BY <2>1, LeastNumber
<1>2. k # 0 /\ k - 1 \in 0 .. m /\ k - 1 \notin T
  BY <1>1
<1> QED BY <1>1, <1>2

\* Where a pass over r starts.
Started(r) == [row |-> r, decided |-> FALSE, changed |-> 0]

\* f solves the recursion of PassOver(r) up to n sessions.
Solves(r, f, n) ==
    f = [k \in 0 .. n |-> IF k = 0 THEN Started(r)
                          ELSE ReconcileOne(MaxSessions - k + 1, f[k - 1])]

\* One more session extends a solution.
LEMMA PassExtends ==
    ASSUME NEW r, NEW n \in Nat, NEW f, Solves(r, f, n)
    PROVE  \E g : Solves(r, g, n + 1)
<1> DEFINE g == [k \in 0 .. n + 1 |-> IF k = 0 THEN Started(r)
                                      ELSE ReconcileOne(MaxSessions - k + 1, f[k - 1])]
<1>1. \A k \in 0 .. n : f[k] = IF k = 0 THEN Started(r)
                               ELSE ReconcileOne(MaxSessions - k + 1, f[k - 1])
  BY DEF Solves
<1>2. \A k \in 0 .. n : g[k] = f[k]
  BY <1>1
<1>3. \A k \in 0 .. n + 1 : k # 0 => k - 1 \in 0 .. n
  OBVIOUS
<1>4. g = [k \in 0 .. n + 1 |-> IF k = 0 THEN Started(r)
                                ELSE ReconcileOne(MaxSessions - k + 1, g[k - 1])]
  BY <1>2, <1>3
<1> HIDE DEF g
<1>5. Solves(r, g, n + 1)
  BY <1>4 DEF Solves
<1> QED BY <1>5

\* The recursion has a solution for every number of sessions.
LEMMA PassExists ==
    ASSUME NEW r
    PROVE  \E f : Solves(r, f, MaxSessions)
<1> DEFINE S == {n \in 0 .. MaxSessions : \E f : Solves(r, f, n)}
<1>0. MaxSessions \in Nat
  BY PurchasesAssumption
<1>1. 0 \in S
  <2> DEFINE g == [k \in 0 .. 0 |-> Started(r)]
  <2>1. Solves(r, g, 0)
    BY DEF Solves
  <2> HIDE DEF g
  <2> QED BY <1>0, <2>1
<1>2. ASSUME NEW n \in 0 .. MaxSessions, n \in S, n # MaxSessions PROVE n + 1 \in S
  BY <1>0, <1>2, PassExtends
<1> HIDE DEF S
<1>3. 0 .. MaxSessions \subseteq S
  BY <1>0, <1>1, <1>2, Counting
<1> QED BY <1>0, <1>3 DEF S

\* A pass reads the sessions one after the other, the latest first.
LEMMA PassSteps ==
    ASSUME NEW r
    PROVE  /\ PassOver(r)[0] = Started(r)
           /\ \A n \in 1 .. MaxSessions :
                 PassOver(r)[n] = ReconcileOne(MaxSessions - n + 1, PassOver(r)[n - 1])
<1>0. MaxSessions \in Nat
  BY PurchasesAssumption
<1>1. PassOver(r) = CHOOSE f : Solves(r, f, MaxSessions)
  BY DEF PassOver, Solves, Started
<1>2. Solves(r, PassOver(r), MaxSessions)
  BY <1>1, PassExists
<1> HIDE DEF PassOver
<1> QED BY <1>0, <1>2 DEF Solves

\* The sessions whose reading imposes something on the row r.
Deciding(r) == {s \in Sessions : Found(s) /\ Reading(session[s], s, r.status) # "none"}

\* What a pass over r has done once session s has decided.
Settles(r, s) ==
    LET w == Target(session[s], s, r) IN
    [row |-> IF Differs(r, w) THEN w ELSE r, decided |-> TRUE,
     changed |-> IF Differs(r, w) THEN 1 ELSE 0]

\* Until a session decides nothing is done, and nothing more after the first one.
LEMMA OneSession ==
    ASSUME NEW r, NEW s \in Sessions
    PROVE  /\ s \notin Deciding(r) => ReconcileOne(s, Started(r)) = Started(r)
           /\ s \in Deciding(r) => ReconcileOne(s, Started(r)) = Settles(r, s)
           /\ \A t \in Sessions : ReconcileOne(s, Settles(r, t)) = Settles(r, t)
<1>1. ASSUME NEW state, ~ Decides(session[s], s, state.row, state.decided)
      PROVE  ReconcileOne(s, state) = state
  BY <1>1 DEF ReconcileOne
<1>2. ASSUME Decides(session[s], s, r, FALSE)
      PROVE  ReconcileOne(s, Started(r)) = Settles(r, s)
  <2>1. Started(r).row = r /\ Started(r).decided = FALSE /\ Started(r).changed = 0
    BY DEF Started
  <2>2. Decides(session[s], s, Started(r).row, Started(r).decided)
    BY <1>2, <2>1
  <2> QED BY <2>1, <2>2 DEF ReconcileOne, Settles
<1>3. ASSUME s \notin Deciding(r) PROVE ReconcileOne(s, Started(r)) = Started(r)
  <2>1. ~ Decides(session[s], s, r, FALSE)
    BY <1>3 DEF Deciding, Decides
  <2>2. Started(r).row = r /\ Started(r).decided = FALSE
    BY DEF Started
  <2>3. ~ Decides(session[s], s, Started(r).row, Started(r).decided)
    BY <2>1, <2>2
  <2> QED BY <1>1, <2>3
<1>4. ASSUME s \in Deciding(r) PROVE ReconcileOne(s, Started(r)) = Settles(r, s)
  <2>1. Decides(session[s], s, r, FALSE)
    BY <1>4 DEF Deciding, Decides, Settled
  <2> QED BY <1>2, <2>1 DEF Started
<1>5. ASSUME NEW t \in Sessions PROVE ReconcileOne(s, Settles(r, t)) = Settles(r, t)
  <2>1. Settles(r, t).decided = TRUE
    BY DEF Settles
  <2>2. ~ Decides(session[s], s, Settles(r, t).row, Settles(r, t).decided)
    BY <2>1 DEF Decides, Settled
  <2> QED BY <1>1, <2>2
<1> QED BY <1>3, <1>4, <1>5

\* The pass before the latest session that decides.
LEMMA PassBefore ==
    ASSUME NEW r, NEW m \in 0 .. MaxSessions, \A s \in Deciding(r) : s <= MaxSessions - m
    PROVE  PassOver(r)[m] = Started(r)
<1> DEFINE S == {n \in 0 .. m : PassOver(r)[n] = Started(r)}
<1>0. MaxSessions \in Nat /\ m \in Nat
  BY PurchasesAssumption
<1>1. 0 \in S
  BY <1>0, PassSteps
<1>2. ASSUME NEW n \in 0 .. m, n \in S, n # m PROVE n + 1 \in S
  <2>1. n + 1 \in 1 .. MaxSessions /\ MaxSessions - (n + 1) + 1 \in Sessions
    BY <1>0, <1>2 DEF Sessions
  <2>2. MaxSessions - (n + 1) + 1 \notin Deciding(r)
    BY <1>0, <1>2
  <2>3. PassOver(r)[n + 1] = ReconcileOne(MaxSessions - (n + 1) + 1, Started(r))
    BY <1>0, <1>2, <2>1, PassSteps
  <2> QED BY <1>0, <1>2, <2>1, <2>2, <2>3, OneSession
<1> HIDE DEF S
<1>3. 0 .. m \subseteq S
  BY <1>0, <1>1, <1>2, Counting
<1> QED BY <1>0, <1>3 DEF S

\* The pass from the latest session that decides on.
LEMMA PassAfter ==
    ASSUME NEW r, NEW s \in Deciding(r), \A t \in Deciding(r) : t <= s
    PROVE  PassOver(r)[MaxSessions] = Settles(r, s)
<1> DEFINE S == {n \in 0 .. MaxSessions : n > MaxSessions - s => PassOver(r)[n] = Settles(r, s)}
<1>0. MaxSessions \in Nat /\ s \in Sessions /\ s \in 1 .. MaxSessions
  BY PurchasesAssumption DEF Deciding, Sessions
<1>1. 0 \in S
  BY <1>0
<1>2. ASSUME NEW n \in 0 .. MaxSessions, n \in S, n # MaxSessions PROVE n + 1 \in S
  <2>1. n + 1 \in 1 .. MaxSessions /\ MaxSessions - (n + 1) + 1 \in Sessions
    BY <1>0, <1>2 DEF Sessions
  <2>2. PassOver(r)[n + 1] = ReconcileOne(MaxSessions - (n + 1) + 1, PassOver(r)[n])
    BY <1>0, <1>2, <2>1, PassSteps
  <2>3. CASE n < MaxSessions - s
    BY <1>0, <2>1, <2>3
  <2>4. CASE n = MaxSessions - s
    <3>1. PassOver(r)[n] = Started(r)
      BY <1>0, <2>4, PassBefore
    <3>2. MaxSessions - (n + 1) + 1 = s
      BY <1>0, <2>4
    <3> QED BY <1>0, <2>1, <2>2, <3>1, <3>2, OneSession
  <2>5. CASE n > MaxSessions - s
    <3>1. PassOver(r)[n] = Settles(r, s)
      BY <1>2, <2>5
    <3> QED BY <1>0, <2>1, <2>2, <3>1, OneSession
  <2> QED BY <1>0, <2>3, <2>4, <2>5
<1> HIDE DEF S
<1>3. 0 .. MaxSessions \subseteq S
  BY <1>0, <1>1, <1>2, Counting
<1> QED BY <1>0, <1>3 DEF S

\* What a pass that nothing interrupts does: the latest session that decides is applied.
LEMMA PassOutcome ==
    ASSUME NEW r
    PROVE  \/ Deciding(r) = {} /\ Reconciled(r) = Started(r)
           \/ \E s \in Deciding(r) : /\ \A t \in Deciding(r) : t <= s
                                     /\ Reconciled(r) = Settles(r, s)
<1>0. MaxSessions \in Nat /\ \A s \in Deciding(r) : s \in 1 .. MaxSessions
  BY PurchasesAssumption DEF Deciding, Sessions
<1>1. CASE Deciding(r) = {}
  BY <1>0, <1>1, PassBefore DEF Reconciled
<1>2. CASE Deciding(r) # {}
  <2> DEFINE T == {n \in Nat : MaxSessions - n \in Deciding(r)}
  <2>1. T \in SUBSET Nat /\ T # {}
    <3>1. PICK s : s \in Deciding(r)
      BY <1>2
    <3>2. MaxSessions - (MaxSessions - s) = s /\ MaxSessions - s \in Nat
      BY <1>0, <3>1
    <3> QED BY <3>1, <3>2
  <2>2. PICK m \in T : \A n \in T : m <= n
    <3> HIDE DEF T
    <3> QED BY <2>1, LeastNumber
  <2>3. ASSUME NEW t \in Deciding(r) PROVE t <= MaxSessions - m
    <3>1. MaxSessions - (MaxSessions - t) = t /\ MaxSessions - t \in Nat
      BY <1>0
    <3>2. m <= MaxSessions - t
      BY <2>2, <3>1
    <3> QED BY <1>0, <2>2, <3>2
  <2> QED BY <2>2, <2>3, PassAfter DEF Reconciled
<1> QED BY <1>1, <1>2

\* The charges that the listing misses are those of the oldest sessions: charges are listed
\* newest first, up to a number of pages. Without it a row that a second payment settled as
\* refunded may say, at the next pass, what the first payment imposes.
OldestUnlisted == \A s \in Unlisted : 1 .. s \subseteq Unlisted

\* One pass leaves nothing for the next one, whatever the row says and the provider tells.
LEMMA PassTwice ==
    ASSUME OldestUnlisted, NEW r \in Rows, TypeOK
    PROVE  Reconciled(Reconciled(r).row).changed = 0
<1> DEFINE q == Reconciled(r).row
<1>1. CASE Deciding(r) = {}
  <2>1. Reconciled(r) = Started(r)
    BY <1>1, PassOutcome
  <2> QED BY <2>1 DEF Started
<1>2. ASSUME NEW s \in Deciding(r), \A t \in Deciding(r) : t <= s, Reconciled(r) = Settles(r, s)
      PROVE  Reconciled(q).changed = 0
  <2> DEFINE w == Target(session[s], s, r)
  <2>1. q = (IF Differs(r, w) THEN w ELSE r) /\ q.status = w.status /\ q.payment = s
    BY <1>2 DEF Settles, Differs, Target, Rows
  <2>2. s \in Sessions /\ s \in Nat /\ session[s] \in Collected
    BY PurchasesAssumption DEF Deciding, Sessions, Reading
  <2>3. w.status = IF refundLog[s] # NoTime THEN "refunded" ELSE Reading(session[s], s, r.status)
    BY DEF Target, Rows
  <2>4. \A t \in Deciding(q) : t <= s
    <3> SUFFICES ASSUME NEW t \in Deciding(q), t \notin Deciding(r), t > s PROVE FALSE
      BY <1>2, <2>2, PurchasesAssumption DEF Deciding, Sessions
    <3>1. t \in Unlisted /\ r.status = "refunded"
      BY DEF Deciding, Reading
    <3>2. s \in 1 .. t
      BY <2>2, PurchasesAssumption DEF Deciding, Sessions
    <3>3. s \in Unlisted
      BY <3>1, <3>2 DEF OldestUnlisted
    <3> QED BY <3>1, <3>3 DEF Deciding, Reading
  <2>5. CASE s \in Deciding(q)
    <3>1. Target(session[s], s, q).status = q.status
      BY <2>1, <2>2, <2>3, <2>5 DEF Target, Rows, Deciding, Reading
    <3>2. ~ Differs(q, Target(session[s], s, q))
      BY <2>1, <3>1 DEF Differs, Target, Rows
    <3>3. Reconciled(q) = Settles(q, s)
      <4>1. PICK t \in Deciding(q) : s <= t /\ Reconciled(q) = Settles(q, t)
        BY <2>5, PassOutcome
      <4>2. t <= s /\ t \in Nat
        BY <2>4, PurchasesAssumption DEF Deciding, Sessions
      <4> QED BY <2>2, <4>1, <4>2
    <3> QED BY <3>2, <3>3 DEF Settles
  <2>6. CASE s \notin Deciding(q)
    <3>1. s \in Unlisted /\ q.status = "refunded" /\ r.status # "refunded"
      BY <2>2, <2>6 DEF Deciding, Reading, Collected, Held
    <3>2. Deciding(q) = {}
      <4> SUFFICES ASSUME NEW t \in Deciding(q) PROVE FALSE
        OBVIOUS
      <4>1. t \notin Unlisted /\ t \in Sessions
        BY <3>1 DEF Deciding, Reading
      <4>2. t <= s
        BY <2>4
      <4>3. t \in 1 .. s
        BY <2>2, <4>1, <4>2, PurchasesAssumption DEF Sessions
      <4> QED BY <3>1, <4>1, <4>3 DEF OldestUnlisted
    <3> QED BY <3>2, PassOutcome DEF Started
  <2> QED BY <2>5, <2>6
<1> QED BY <1>1, <1>2, PassOutcome

\* A second reconciliation writes nothing, however many sessions were opened for the offer
\* and whichever were paid: the latest one that decides, decides again.
THEOREM ReconcileTwice == OldestUnlisted /\ Spec => []ReconcileIdempotent
<1> SUFFICES ASSUME OldestUnlisted PROVE Spec => []ReconcileIdempotent
  OBVIOUS
<1>1. IInv => ReconcileIdempotent
  BY PassTwice DEF IInv, TypeOK, ReconcileIdempotent
<1> QED BY <1>1, Inductive, PTL

\* A reconciliation that nothing interrupts, from every state that openings and webhooks can
\* leave, grants no payment whose refund was received, or was lost but is listed, and grants
\* what was paid for once.
THEOREM ReconciliationRepairs == Spec => []ReconcileRepairs
<1>1. ASSUME IInv PROVE ReconcileRepairs
  <2> DEFINE r == Reconciled(row).row
  <2>0. /\ row \in Rows /\ index \subseteq Sessions
        /\ \A s \in Sessions : session[s] \in Collected => Found(s)
    BY <1>1 DEF IInv, TypeOK, Attaching, Found
  <2>1. CASE Deciding(row) = {}
    <3>1. r = row
      BY <2>1, PassOutcome DEF Started
    <3>2. row.status # "paid"
      BY <1>1, <2>0, <2>1 DEF IInv, Backed, Backs, Deciding, Reading
    <3>3. ASSUME NEW s \in index, Collect = {s}, session[s] \in Held PROVE FALSE
      <4>1. s \in Sessions /\ session[s] \in Collected
        BY <2>0, <3>3 DEF Collected
      <4>2. row.status = "refunded"
        BY <2>0, <2>1, <3>3, <4>1 DEF Deciding, Reading
      <4>3. PICK t \in Sessions : session[t] = "refunded"
        BY <1>1, <4>2 DEF IInv, Backed, Backs
      <4> QED BY <3>3, <4>3 DEF Collect, Collected, Held
    <3> QED BY <3>1, <3>2, <3>3 DEF ReconcileRepairs
  <2>2. ASSUME NEW s \in Deciding(row), Reconciled(row) = Settles(row, s)
        PROVE  ReconcileRepairs
    <3> DEFINE w == Target(session[s], s, row)
    <3>1. r.status = w.status /\ r.payment = s
      BY <2>0, <2>2 DEF Settles, Differs, Target, Rows
    <3>2. w.status = IF refundLog[s] # NoTime THEN "refunded" ELSE Reading(session[s], s, row.status)
      BY <2>0 DEF Target, Rows
    <3>3. s \in Sessions /\ session[s] \in Collected
      BY DEF Deciding, Reading
    <3>4. r.status = "paid" => /\ refundLog[r.payment] = NoTime
                               /\ session[r.payment] = "refunded" => r.payment \in Unlisted
      BY <3>1, <3>2, <3>3 DEF Reading
    <3>5. ASSUME NEW t \in index, Collect = {t}, session[t] \in Held PROVE r.status = "paid"
      <4>1. s = t
        BY <3>3, <3>5 DEF Collect
      <4>2. refundLog[s] = NoTime
        BY <1>1, <3>3, <3>5, <4>1 DEF IInv, Backed, Held
      <4>3. Reading(session[s], s, row.status) = "paid"
        BY <3>5, <4>1 DEF Deciding, Reading, Held
      <4> QED BY <3>1, <3>2, <4>2, <4>3
    <3> QED BY <3>4, <3>5 DEF ReconcileRepairs
  <2> QED BY <2>1, <2>2, PassOutcome
<1> QED BY <1>1, Inductive, PTL

=============================================================================
