---------------------------- MODULE GuestCheckout ----------------------------
(***************************************************************************)
(* A visitor pays without an account, packages/modules/billing and         *)
(* apps/web/lib/guest-account.ts: the checkout leaves a customer row with  *)
(* an opaque guest scope; the webhook of a payment finds or creates the    *)
(* account of the address given at payment, moves the row to it in the     *)
(* transaction of the journal, and mails a link.                           *)
(*                                                                         *)
(* An address stands for the account it names.  An event is a completed    *)
(* payment: a checkout and an address, so that a second completion of the  *)
(* same customer may name another one.  Every await is a step.             *)
(***************************************************************************)
EXTENDS Naturals, FiniteSets

CONSTANTS
  Checkouts,  \* guest checkouts, each with its customer at the provider
  Emails,     \* addresses, and the accounts they name
  Handlers,   \* webhook requests served at the same time
  MaxPaid,    \* completed payments
  MaxFails,   \* requests that die before they answer
  None

ASSUME GuestAssumption ==
  /\ MaxPaid \in Nat /\ MaxFails \in Nat
  /\ Emails \cap {None, "none", "guest"} = {}
  /\ None \notin Checkouts \X Emails

VARIABLES
  row,       \* billing_customer of each checkout: its scope
  own,       \* accounts with a customer row of their own checkout
  paid,      \* the events of the provider
  accounts,  \* auth_user
  journal,   \* billing_webhook_event
  moved,     \* history: events whose transaction moved the row
  refused,   \* history: events whose sign-up was refused
  handler,   \* the webhook requests
  fails,     \* requests that died
  sent       \* the number of links sent for each event

vars == <<row, own, paid, accounts, journal, moved, refused, handler, fails, sent>>

Events == Checkouts \X Emails
Pcs == {"idle", "identify", "signup", "reread", "apply", "link"}

Request(e, pc, account) == [event |-> e, pc |-> pc, account |-> account]
Quiet == Request(None, "idle", None)

CheckoutOf(h) == handler[h].event[1]
AddressOf(h) == handler[h].event[2]
Step(h, pc, account) ==
  handler' = [handler EXCEPT ![h] = Request(@.event, pc, account)]
Answer(h) == handler' = [handler EXCEPT ![h] = Quiet]

Init ==
  /\ row = [c \in Checkouts |-> "none"]
  /\ paid = {}
  /\ accounts \in SUBSET Emails
  /\ own \in SUBSET accounts
  /\ journal = {} /\ moved = {} /\ refused = {}
  /\ handler = [h \in Handlers |-> Quiet]
  /\ fails = 0 /\ sent = [e \in Events |-> 0]

RowsUnchanged == UNCHANGED <<row, own, paid, journal, moved>>
AccountsUnchanged == UNCHANGED <<accounts, refused, fails>>

-----------------------------------------------------------------------------
(* The visitor and the holders *)

(* openGuestCheckout: the provider answers, the row is linked, and only    *)
(* then does the visitor receive where to pay.                             *)
OpenGuestCheckout(c) ==
  /\ row[c] = "none"
  /\ row' = [row EXCEPT ![c] = "guest"]
  /\ AccountsUnchanged /\ UNCHANGED <<own, paid, journal, moved, handler, sent>>

Pay(c, m) ==
  /\ row[c] # "none" /\ Cardinality(paid) < MaxPaid
  /\ <<c, m>> \notin paid
  /\ paid' = paid \cup {<<c, m>>}
  /\ AccountsUnchanged /\ UNCHANGED <<row, own, journal, moved, handler, sent>>

SignUpAlone(m) ==
  /\ m \notin accounts
  /\ accounts' = accounts \cup {m}
  /\ RowsUnchanged /\ UNCHANGED <<refused, handler, fails, sent>>

HasRow(m) == m \in own \/ \E c \in Checkouts : row[c] = m

(* linkCustomer, by a checkout of the account itself *)
LinkCustomer(m) ==
  /\ m \in accounts /\ ~HasRow(m)
  /\ own' = own \cup {m}
  /\ AccountsUnchanged /\ UNCHANGED <<row, paid, journal, moved, handler, sent>>

-----------------------------------------------------------------------------
(* handleWebhook *)

(* guestPromotionFor: only a row still guest is promoted *)
Receive(h, e) ==
  /\ handler[h] = Quiet /\ e \in paid
  /\ handler' = [handler EXCEPT ![h] =
       Request(e, IF row[e[1]] = "guest" THEN "identify" ELSE "apply", None)]
  /\ RowsUnchanged /\ AccountsUnchanged /\ UNCHANGED sent

\* Mutant: no account is opened for an unknown address.
IdentifyOnly(h) ==
  /\ handler[h].pc = "identify"
  /\ Step(h, "apply", IF AddressOf(h) \in accounts THEN AddressOf(h) ELSE None)
  /\ RowsUnchanged /\ AccountsUnchanged /\ UNCHANGED sent

(* accountFor: found, or signed up and read again *)
Identify(h) ==
  /\ handler[h].pc = "identify"
  /\ IF AddressOf(h) \in accounts
       THEN Step(h, "apply", AddressOf(h))
       ELSE Step(h, "signup", None)
  /\ RowsUnchanged /\ AccountsUnchanged /\ UNCHANGED sent

(* The sign-up of an address already taken answers as if it were new. *)
SignUp(h) ==
  /\ handler[h].pc = "signup"
  /\ accounts' = accounts \cup {AddressOf(h)}
  /\ Step(h, "reread", None)
  /\ RowsUnchanged /\ UNCHANGED <<refused, fails, sent>>

(* It may be refused, and its answer is not read. *)
SignUpRefused(h) ==
  /\ handler[h].pc = "signup"
  /\ refused' = refused \cup {handler[h].event}
  /\ Step(h, "reread", None)
  /\ RowsUnchanged /\ UNCHANGED <<accounts, fails, sent>>

Reread(h) ==
  /\ handler[h].pc = "reread"
  /\ Step(h, "apply", IF AddressOf(h) \in accounts THEN AddressOf(h) ELSE None)
  /\ RowsUnchanged /\ AccountsUnchanged /\ UNCHANGED sent

StillGuestAssumed(c) == TRUE  \* mutant
UntakenAssumed(m) == TRUE     \* mutant

(* The clauses of the update: a row still guest, an account without one *)
StillGuest(c) == row[c] = "guest"
Untaken(m) == ~HasRow(m)
Promotes(h) ==
  /\ handler[h].account # None
  /\ StillGuest(CheckoutOf(h)) /\ Untaken(handler[h].account)

(* The unique index on the scope would make the transaction throw. *)
Collides(h) ==
  Promotes(h) /\ \E c \in Checkouts \ {CheckoutOf(h)} :
                   \/ row[c] = handler[h].account
                   \/ handler[h].account \in own

JournalledNever(h) == FALSE   \* mutant: the journal is not read

(* applyEvent, in one transaction with the journal *)
Journalled(h) == handler[h].event \in journal

ApplyEvent(h) ==
  LET e == handler[h].event
      m == handler[h].account
  IN /\ handler[h].pc = "apply" /\ ~Journalled(h) /\ ~Collides(h)
     /\ journal' = journal \cup {e}
     /\ IF Promotes(h)
          THEN row' = [row EXCEPT ![e[1]] = m] /\ moved' = moved \cup {e}
          ELSE UNCHANGED <<row, moved>>
     /\ IF m = None THEN Answer(h) ELSE Step(h, "link", m)
     /\ AccountsUnchanged /\ UNCHANGED <<own, paid, sent>>

(* A replay: nothing is written and no link leaves. *)
Replay(h) ==
  /\ handler[h].pc = "apply" /\ Journalled(h)
  /\ Answer(h)
  /\ RowsUnchanged /\ AccountsUnchanged /\ UNCHANGED sent

SendAccessLink(h) ==
  /\ handler[h].pc = "link"
  /\ sent' = [sent EXCEPT ![handler[h].event] = @ + 1]
  /\ Answer(h)
  /\ RowsUnchanged /\ AccountsUnchanged

(* The request dies between two steps, or a step of it throws. *)
RequestFails(h) ==
  /\ handler[h] # Quiet /\ fails < MaxFails
  /\ fails' = fails + 1
  /\ Answer(h)
  /\ RowsUnchanged /\ UNCHANGED <<accounts, refused, sent>>

Next ==
  \/ \E c \in Checkouts :
       OpenGuestCheckout(c) \/ \E m \in Emails : Pay(c, m)
  \/ \E m \in Emails : SignUpAlone(m) \/ LinkCustomer(m)
  \/ \E h \in Handlers :
       \/ \E e \in Events : Receive(h, e)
       \/ Identify(h) \/ SignUp(h) \/ SignUpRefused(h) \/ Reread(h)
       \/ ApplyEvent(h) \/ Replay(h) \/ SendAccessLink(h) \/ RequestFails(h)

Spec == Init /\ [][Next]_vars

(* The provider sends an event until it is answered; a request that does   *)
(* not die goes on.                                                        *)
Work(h) ==
  \/ Identify(h) \/ SignUp(h) \/ SignUpRefused(h) \/ Reread(h)
  \/ ApplyEvent(h) \/ Replay(h) \/ SendAccessLink(h)
Retry(e) == e \notin journal /\ \E h \in Handlers : Receive(h, e)

FairSpec ==
  /\ Spec
  /\ \A h \in Handlers : WF_vars(Work(h))
  /\ \A e \in Events : SF_vars(Retry(e))

-----------------------------------------------------------------------------
(* Properties *)

(* Type of the state; a row is promoted to an account that exists. *)
TypeOK ==
  /\ row \in [Checkouts -> accounts \cup {"none", "guest"}]
  /\ own \subseteq accounts /\ accounts \subseteq Emails
  /\ journal \subseteq paid /\ paid \subseteq Events
  /\ moved \subseteq journal /\ refused \subseteq paid
  /\ handler \in [Handlers -> [event : Events \cup {None}, pc : Pcs,
                               account : Emails \cup {None}]]
  /\ fails \in 0..MaxFails /\ sent \in [Events -> Nat]

(* Once a row is promoted it keeps its account: two completions of one     *)
(* customer under two addresses, both read while the row was guest, do not *)
(* move a payer's billing from one account to the other.                   *)
PromotionHolds ==
  [][\A c \in Checkouts : row[c] \in Emails => row'[c] = row[c]]_vars

(* A payment that is journalled, so never delivered again, has attached    *)
(* its row to an account, unless the account already had a row of its own  *)
(* or the sign-up of its address was refused.                              *)
PaidIsAttached ==
  \A e \in journal : \/ row[e[1]] \in Emails
                     \/ HasRow(e[2])
                     \/ e \in refused

(* Whatever the number of deliveries, crashes and concurrent requests, one *)
(* link at most leaves for a payment.                                      *)
LinkOnce == \A e \in Events : sent[e] <= 1

(* Every payment is taken in: no state of the accounts and the rows makes  *)
(* its webhook throw on every delivery.  (Payments are bounded: in the end *)
(* all of them are journalled.)                                            *)
PaymentsTaken == <>[](paid \subseteq journal)

(* billing-use-cases.ts:1115: the link leaves "seulement si la promotion a *)
(* eu lieu".  The code sends it when a promotion was asked for.            *)
LinkAfterPromotion == \A e \in Events : sent[e] > 0 => e \in moved

=============================================================================
