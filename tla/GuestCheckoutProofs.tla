------------------------- MODULE GuestCheckoutProofs -------------------------
(***************************************************************************)
(* What GuestCheckout promises for every set of checkouts, addresses and   *)
(* requests.                                                               *)
(*                                                                         *)
(* A request decides in several steps, from what it read: the inductive    *)
(* invariant says what each of its steps still knows when it acts.         *)
(***************************************************************************)
EXTENDS GuestCheckout, TLAPS

\* A request serves a payment, whose checkout has a row, and names its account.
Serving ==
  /\ \A e \in paid : row[e[1]] # "none"
  /\ \A h \in Handlers :
       handler[h].pc # "idle" => /\ handler[h].event \in paid
                                 /\ handler[h].account \in {None, handler[h].event[2]}

\* A request without an account has a reason: a row promoted, a sign-up refused.
Resolved ==
  \A h \in Handlers :
    /\ handler[h].pc = "reread"
         => handler[h].event[2] \in accounts \/ handler[h].event \in refused
    /\ handler[h].pc = "apply" /\ handler[h].account = None
         => row[handler[h].event[1]] \in Emails \/ handler[h].event \in refused
    /\ handler[h].account # None => handler[h].account \in accounts

\* One request at most is about to send the link of an event.
Linking ==
  /\ \A e \in Events : e \notin journal => sent[e] = 0
  /\ \A h \in Handlers : handler[h].pc = "link"
       => handler[h].event \in journal /\ sent[handler[h].event] = 0
  /\ \A h, g \in Handlers :
       handler[h].pc = "link" /\ handler[g].pc = "link"
         /\ handler[h].event = handler[g].event => h = g

IInv == TypeOK /\ Serving /\ Resolved /\ PaidIsAttached /\ Linking /\ LinkOnce

-----------------------------------------------------------------------------

\* Nothing is open, paid or served at first.
LEMMA InitInductive == Init => IInv
BY GuestAssumption
   DEF Init, IInv, TypeOK, Serving, Resolved, PaidIsAttached, Linking, LinkOnce,
       Quiet, Request, Events, Pcs

\* Every step preserves the types.
LEMMA TypesStep == IInv /\ [Next]_vars => TypeOK'
<1> SUFFICES ASSUME IInv, [Next]_vars PROVE TypeOK'
  OBVIOUS
<1> USE GuestAssumption DEF RowsUnchanged, AccountsUnchanged, Step, Answer, Request, Quiet, CheckoutOf, AddressOf
<1>1. ASSUME NEW c \in Checkouts, OpenGuestCheckout(c) PROVE TypeOK'
  BY <1>1 DEF IInv, TypeOK, Serving, Resolved, Events, Pcs, OpenGuestCheckout
<1>2. ASSUME NEW c \in Checkouts, NEW m \in Emails, Pay(c, m) PROVE TypeOK'
  BY <1>2 DEF IInv, TypeOK, Serving, Resolved, Events, Pcs, Pay
<1>3. ASSUME NEW m \in Emails, SignUpAlone(m) PROVE TypeOK'
  BY <1>3 DEF IInv, TypeOK, Serving, Resolved, Events, Pcs, SignUpAlone
<1>4. ASSUME NEW m \in Emails, LinkCustomer(m) PROVE TypeOK'
  BY <1>4 DEF IInv, TypeOK, Serving, Resolved, Events, Pcs, LinkCustomer
<1>5. ASSUME NEW h \in Handlers, NEW e \in Events, Receive(h, e) PROVE TypeOK'
  BY <1>5 DEF IInv, TypeOK, Serving, Resolved, Events, Pcs, Receive
<1>6. ASSUME NEW h \in Handlers, Identify(h) PROVE TypeOK'
  <2>1. CASE AddressOf(h) \in accounts
    BY <1>6, <2>1 DEF IInv, TypeOK, Serving, Resolved, Events, Pcs, Identify
  <2>2. CASE AddressOf(h) \notin accounts
    BY SMTT(20), <1>6, <2>2 DEF IInv, TypeOK, Serving, Resolved, Events, Pcs, Identify
  <2> QED BY <2>1, <2>2
<1>7. ASSUME NEW h \in Handlers, SignUp(h) PROVE TypeOK'
  BY <1>7 DEF IInv, TypeOK, Serving, Resolved, Events, Pcs, SignUp
<1>8. ASSUME NEW h \in Handlers, SignUpRefused(h) PROVE TypeOK'
  BY <1>8 DEF IInv, TypeOK, Serving, Resolved, Events, Pcs, SignUpRefused
<1>9. ASSUME NEW h \in Handlers, Reread(h) PROVE TypeOK'
  BY <1>9 DEF IInv, TypeOK, Serving, Resolved, Events, Pcs, Reread
<1>10. ASSUME NEW h \in Handlers, ApplyEvent(h) PROVE TypeOK'
  <2>1. handler[h].event \in paid /\ handler[h].account \in accounts \cup {None}
    BY <1>10 DEF IInv, TypeOK, Serving, Resolved, ApplyEvent
  <2>2. row' \in [Checkouts -> accounts \cup {"none", "guest"}] /\ moved' \subseteq journal'
    BY <1>10, <2>1 DEF IInv, TypeOK, ApplyEvent, Promotes, StillGuest
  <2>3. handler' \in [Handlers -> [event : Events \cup {None}, pc : Pcs, account : Emails \cup {None}]]
    <3>1. handler' = [handler EXCEPT ![h] = handler'[h]]
      BY <1>10 DEF IInv, TypeOK, ApplyEvent
    <3>2. handler'[h] \in [event : Events \cup {None}, pc : Pcs, account : Emails \cup {None}]
      BY <1>10, <2>1 DEF IInv, TypeOK, ApplyEvent, Pcs
    <3> QED BY <3>1, <3>2 DEF IInv, TypeOK
  <2> QED BY <1>10, <2>1, <2>2, <2>3 DEF IInv, TypeOK, ApplyEvent
<1>11. ASSUME NEW h \in Handlers, Replay(h) PROVE TypeOK'
  BY <1>11 DEF IInv, TypeOK, Serving, Resolved, Events, Pcs, Replay, Journalled
<1>12. ASSUME NEW h \in Handlers, SendAccessLink(h) PROVE TypeOK'
  BY <1>12 DEF IInv, TypeOK, Serving, Resolved, Events, Pcs, SendAccessLink
<1>13. ASSUME NEW h \in Handlers, RequestFails(h) PROVE TypeOK'
  BY <1>13 DEF IInv, TypeOK, Serving, Resolved, Events, Pcs, RequestFails
<1>14. CASE UNCHANGED vars
  BY <1>14 DEF vars, IInv, TypeOK, Serving, Resolved, Events, Pcs
<1> QED BY <1>1, <1>2, <1>3, <1>4, <1>5, <1>6, <1>7, <1>8, <1>9, <1>10, <1>11, <1>12, <1>13, <1>14 DEF Next

\* A request keeps serving the payment it received.
LEMMA ServingStep == IInv /\ [Next]_vars => Serving'
<1> SUFFICES ASSUME IInv, [Next]_vars PROVE Serving'
  OBVIOUS
<1> USE GuestAssumption DEF RowsUnchanged, AccountsUnchanged, Step, Answer, Request, Quiet, CheckoutOf, AddressOf
<1>1. ASSUME NEW c \in Checkouts, OpenGuestCheckout(c) PROVE Serving'
  BY <1>1 DEF IInv, TypeOK, Serving, Events, Pcs, OpenGuestCheckout
<1>2. ASSUME NEW c \in Checkouts, NEW m \in Emails, Pay(c, m) PROVE Serving'
  BY <1>2 DEF IInv, TypeOK, Serving, Events, Pcs, Pay
<1>3. ASSUME NEW m \in Emails, SignUpAlone(m) PROVE Serving'
  BY <1>3 DEF IInv, TypeOK, Serving, Events, Pcs, SignUpAlone
<1>4. ASSUME NEW m \in Emails, LinkCustomer(m) PROVE Serving'
  BY <1>4 DEF IInv, TypeOK, Serving, Events, Pcs, LinkCustomer
<1>5. ASSUME NEW h \in Handlers, NEW e \in Events, Receive(h, e) PROVE Serving'
  BY <1>5 DEF IInv, TypeOK, Serving, Events, Pcs, Receive
<1>6. ASSUME NEW h \in Handlers, Identify(h) PROVE Serving'
  BY <1>6 DEF IInv, TypeOK, Serving, Events, Pcs, Identify
<1>7. ASSUME NEW h \in Handlers, SignUp(h) PROVE Serving'
  BY <1>7 DEF IInv, TypeOK, Serving, Events, Pcs, SignUp
<1>8. ASSUME NEW h \in Handlers, SignUpRefused(h) PROVE Serving'
  BY <1>8 DEF IInv, TypeOK, Serving, Events, Pcs, SignUpRefused
<1>9. ASSUME NEW h \in Handlers, Reread(h) PROVE Serving'
  BY <1>9 DEF IInv, TypeOK, Serving, Events, Pcs, Reread
<1>10. ASSUME NEW h \in Handlers, ApplyEvent(h) PROVE Serving'
  BY <1>10 DEF IInv, TypeOK, Serving, Events, Pcs, ApplyEvent, Promotes, StillGuest, Untaken, Journalled, HasRow, Collides
<1>11. ASSUME NEW h \in Handlers, Replay(h) PROVE Serving'
  BY <1>11 DEF IInv, TypeOK, Serving, Events, Pcs, Replay, Journalled
<1>12. ASSUME NEW h \in Handlers, SendAccessLink(h) PROVE Serving'
  BY <1>12 DEF IInv, TypeOK, Serving, Events, Pcs, SendAccessLink
<1>13. ASSUME NEW h \in Handlers, RequestFails(h) PROVE Serving'
  BY <1>13 DEF IInv, TypeOK, Serving, Events, Pcs, RequestFails
<1>14. CASE UNCHANGED vars
  BY <1>14 DEF vars, IInv, TypeOK, Serving, Events, Pcs
<1> QED BY <1>1, <1>2, <1>3, <1>4, <1>5, <1>6, <1>7, <1>8, <1>9, <1>10, <1>11, <1>12, <1>13, <1>14 DEF Next

\* What a request knows of its account stays true.
LEMMA ResolvedStep == IInv /\ [Next]_vars => Resolved'
<1> SUFFICES ASSUME IInv, [Next]_vars PROVE Resolved'
  OBVIOUS
<1> USE GuestAssumption DEF RowsUnchanged, AccountsUnchanged, Step, Answer, Request, Quiet, CheckoutOf, AddressOf
<1>1. ASSUME NEW c \in Checkouts, OpenGuestCheckout(c) PROVE Resolved'
  BY <1>1 DEF IInv, TypeOK, Serving, Resolved, Events, Pcs, OpenGuestCheckout
<1>2. ASSUME NEW c \in Checkouts, NEW m \in Emails, Pay(c, m) PROVE Resolved'
  BY <1>2 DEF IInv, TypeOK, Serving, Resolved, Events, Pcs, Pay
<1>3. ASSUME NEW m \in Emails, SignUpAlone(m) PROVE Resolved'
  BY <1>3 DEF IInv, TypeOK, Serving, Resolved, Events, Pcs, SignUpAlone
<1>4. ASSUME NEW m \in Emails, LinkCustomer(m) PROVE Resolved'
  BY <1>4 DEF IInv, TypeOK, Serving, Resolved, Events, Pcs, LinkCustomer
<1>5. ASSUME NEW h \in Handlers, NEW e \in Events, Receive(h, e) PROVE Resolved'
  BY <1>5 DEF IInv, TypeOK, Serving, Resolved, Events, Pcs, Receive
<1>6. ASSUME NEW h \in Handlers, Identify(h) PROVE Resolved'
  BY <1>6 DEF IInv, TypeOK, Serving, Resolved, Events, Pcs, Identify
<1>7. ASSUME NEW h \in Handlers, SignUp(h) PROVE Resolved'
  BY <1>7 DEF IInv, TypeOK, Serving, Resolved, Events, Pcs, SignUp
<1>8. ASSUME NEW h \in Handlers, SignUpRefused(h) PROVE Resolved'
  BY <1>8 DEF IInv, TypeOK, Serving, Resolved, Events, Pcs, SignUpRefused
<1>9. ASSUME NEW h \in Handlers, Reread(h) PROVE Resolved'
  BY <1>9 DEF IInv, TypeOK, Serving, Resolved, Events, Pcs, Reread
<1>10. ASSUME NEW h \in Handlers, ApplyEvent(h) PROVE Resolved'
  <2>1. \A g \in Handlers : g # h => handler'[g] = handler[g]
    BY <1>10 DEF IInv, TypeOK, ApplyEvent
  <2>2. /\ handler'[h].pc \in {"idle", "link"}
        /\ handler'[h].account \in {None, handler[h].account}
    BY <1>10 DEF IInv, TypeOK, ApplyEvent
  <2>3. \A c \in Checkouts : row[c] \in Emails => row'[c] = row[c]
    BY <1>10 DEF IInv, TypeOK, Events, ApplyEvent, Promotes, StillGuest
  <2>4. accounts' = accounts /\ refused' = refused
    BY <1>10 DEF ApplyEvent
  <2>5. \A g \in Handlers : handler[g].pc # "idle" => handler[g].event[1] \in Checkouts
    BY DEF IInv, TypeOK, Serving, Events
  <2> QED BY <2>1, <2>2, <2>3, <2>4, <2>5 DEF IInv, Resolved
<1>11. ASSUME NEW h \in Handlers, Replay(h) PROVE Resolved'
  BY <1>11 DEF IInv, TypeOK, Serving, Resolved, Events, Pcs, Replay, Journalled
<1>12. ASSUME NEW h \in Handlers, SendAccessLink(h) PROVE Resolved'
  BY <1>12 DEF IInv, TypeOK, Serving, Resolved, Events, Pcs, SendAccessLink
<1>13. ASSUME NEW h \in Handlers, RequestFails(h) PROVE Resolved'
  BY <1>13 DEF IInv, TypeOK, Serving, Resolved, Events, Pcs, RequestFails
<1>14. CASE UNCHANGED vars
  BY <1>14 DEF vars, IInv, TypeOK, Serving, Resolved, Events, Pcs
<1> QED BY <1>1, <1>2, <1>3, <1>4, <1>5, <1>6, <1>7, <1>8, <1>9, <1>10, <1>11, <1>12, <1>13, <1>14 DEF Next

\* Every step leaves the journalled payments attached.
LEMMA AttachedStep == IInv /\ [Next]_vars => PaidIsAttached'
<1> SUFFICES ASSUME IInv, [Next]_vars PROVE PaidIsAttached'
  OBVIOUS
<1> USE GuestAssumption DEF RowsUnchanged, AccountsUnchanged, Step, Answer, Request, Quiet, CheckoutOf, AddressOf
<1>1. ASSUME NEW c \in Checkouts, OpenGuestCheckout(c) PROVE PaidIsAttached'
  BY <1>1 DEF IInv, TypeOK, Serving, Resolved, PaidIsAttached, HasRow, Events, Pcs, OpenGuestCheckout
<1>2. ASSUME NEW c \in Checkouts, NEW m \in Emails, Pay(c, m) PROVE PaidIsAttached'
  BY <1>2 DEF IInv, TypeOK, Serving, Resolved, PaidIsAttached, HasRow, Events, Pcs, Pay
<1>3. ASSUME NEW m \in Emails, SignUpAlone(m) PROVE PaidIsAttached'
  BY <1>3 DEF IInv, TypeOK, Serving, Resolved, PaidIsAttached, HasRow, Events, Pcs, SignUpAlone
<1>4. ASSUME NEW m \in Emails, LinkCustomer(m) PROVE PaidIsAttached'
  BY <1>4 DEF IInv, TypeOK, Serving, Resolved, PaidIsAttached, HasRow, Events, Pcs, LinkCustomer
<1>5. ASSUME NEW h \in Handlers, NEW e \in Events, Receive(h, e) PROVE PaidIsAttached'
  BY <1>5 DEF IInv, TypeOK, Serving, Resolved, PaidIsAttached, HasRow, Events, Pcs, Receive
<1>6. ASSUME NEW h \in Handlers, Identify(h) PROVE PaidIsAttached'
  BY <1>6 DEF IInv, TypeOK, Serving, Resolved, PaidIsAttached, HasRow, Events, Pcs, Identify
<1>7. ASSUME NEW h \in Handlers, SignUp(h) PROVE PaidIsAttached'
  BY <1>7 DEF IInv, TypeOK, Serving, Resolved, PaidIsAttached, HasRow, Events, Pcs, SignUp
<1>8. ASSUME NEW h \in Handlers, SignUpRefused(h) PROVE PaidIsAttached'
  BY <1>8 DEF IInv, TypeOK, Serving, Resolved, PaidIsAttached, HasRow, Events, Pcs, SignUpRefused
<1>9. ASSUME NEW h \in Handlers, Reread(h) PROVE PaidIsAttached'
  BY <1>9 DEF IInv, TypeOK, Serving, Resolved, PaidIsAttached, HasRow, Events, Pcs, Reread
<1>10. ASSUME NEW h \in Handlers, ApplyEvent(h) PROVE PaidIsAttached'
  BY <1>10 DEF IInv, TypeOK, Serving, Resolved, PaidIsAttached, HasRow, Events, Pcs, ApplyEvent, Promotes, StillGuest, Untaken, Journalled, HasRow, Collides
<1>11. ASSUME NEW h \in Handlers, Replay(h) PROVE PaidIsAttached'
  BY <1>11 DEF IInv, TypeOK, Serving, Resolved, PaidIsAttached, HasRow, Events, Pcs, Replay, Journalled
<1>12. ASSUME NEW h \in Handlers, SendAccessLink(h) PROVE PaidIsAttached'
  BY <1>12 DEF IInv, TypeOK, Serving, Resolved, PaidIsAttached, HasRow, Events, Pcs, SendAccessLink
<1>13. ASSUME NEW h \in Handlers, RequestFails(h) PROVE PaidIsAttached'
  BY <1>13 DEF IInv, TypeOK, Serving, Resolved, PaidIsAttached, HasRow, Events, Pcs, RequestFails
<1>14. CASE UNCHANGED vars
  BY <1>14 DEF vars, IInv, TypeOK, Serving, Resolved, PaidIsAttached, HasRow, Events, Pcs
<1> QED BY <1>1, <1>2, <1>3, <1>4, <1>5, <1>6, <1>7, <1>8, <1>9, <1>10, <1>11, <1>12, <1>13, <1>14 DEF Next

\* The journal gives the link to one request.
LEMMA LinkingStep == IInv /\ [Next]_vars => Linking'
<1> SUFFICES ASSUME IInv, [Next]_vars PROVE Linking'
  OBVIOUS
<1> USE GuestAssumption DEF RowsUnchanged, AccountsUnchanged, Step, Answer, Request, Quiet, CheckoutOf, AddressOf
<1>1. ASSUME NEW c \in Checkouts, OpenGuestCheckout(c) PROVE Linking'
  BY <1>1 DEF IInv, TypeOK, Serving, Linking, Events, Pcs, OpenGuestCheckout
<1>2. ASSUME NEW c \in Checkouts, NEW m \in Emails, Pay(c, m) PROVE Linking'
  BY <1>2 DEF IInv, TypeOK, Serving, Linking, Events, Pcs, Pay
<1>3. ASSUME NEW m \in Emails, SignUpAlone(m) PROVE Linking'
  BY <1>3 DEF IInv, TypeOK, Serving, Linking, Events, Pcs, SignUpAlone
<1>4. ASSUME NEW m \in Emails, LinkCustomer(m) PROVE Linking'
  BY <1>4 DEF IInv, TypeOK, Serving, Linking, Events, Pcs, LinkCustomer
<1>5. ASSUME NEW h \in Handlers, NEW e \in Events, Receive(h, e) PROVE Linking'
  BY <1>5 DEF IInv, TypeOK, Serving, Linking, Events, Pcs, Receive
<1>6. ASSUME NEW h \in Handlers, Identify(h) PROVE Linking'
  <2>1. \A g \in Handlers : g # h => handler'[g] = handler[g]
    BY <1>6 DEF IInv, TypeOK, Identify
  <2>2. handler'[h].pc # "link" /\ journal' = journal /\ sent' = sent
    BY <1>6 DEF IInv, TypeOK, Identify
  <2> QED BY <2>1, <2>2 DEF IInv, Linking
<1>7. ASSUME NEW h \in Handlers, SignUp(h) PROVE Linking'
  BY <1>7 DEF IInv, TypeOK, Serving, Linking, Events, Pcs, SignUp
<1>8. ASSUME NEW h \in Handlers, SignUpRefused(h) PROVE Linking'
  BY <1>8 DEF IInv, TypeOK, Serving, Linking, Events, Pcs, SignUpRefused
<1>9. ASSUME NEW h \in Handlers, Reread(h) PROVE Linking'
  BY <1>9 DEF IInv, TypeOK, Serving, Linking, Events, Pcs, Reread
<1>10. ASSUME NEW h \in Handlers, ApplyEvent(h) PROVE Linking'
  <2>1. \A g \in Handlers : g # h => handler'[g] = handler[g]
    BY <1>10 DEF IInv, TypeOK, ApplyEvent
  <2>2. handler[h].event \in Events /\ handler[h].event \notin journal
    BY <1>10 DEF IInv, TypeOK, Serving, Journalled, ApplyEvent
  <2>3. handler'[h].pc = "link" => handler'[h].event = handler[h].event
    BY <1>10 DEF IInv, TypeOK, ApplyEvent
  <2>4. journal' = journal \cup {handler[h].event} /\ sent' = sent
    BY <1>10 DEF ApplyEvent
  <2> QED BY <2>1, <2>2, <2>3, <2>4 DEF IInv, Linking
<1>11. ASSUME NEW h \in Handlers, Replay(h) PROVE Linking'
  BY <1>11 DEF IInv, TypeOK, Serving, Linking, Events, Pcs, Replay, Journalled
<1>12. ASSUME NEW h \in Handlers, SendAccessLink(h) PROVE Linking'
  BY <1>12 DEF IInv, TypeOK, Serving, Linking, Events, Pcs, SendAccessLink
<1>13. ASSUME NEW h \in Handlers, RequestFails(h) PROVE Linking'
  BY <1>13 DEF IInv, TypeOK, Serving, Linking, Events, Pcs, RequestFails
<1>14. CASE UNCHANGED vars
  BY <1>14 DEF vars, IInv, TypeOK, Serving, Linking, Events, Pcs
<1> QED BY <1>1, <1>2, <1>3, <1>4, <1>5, <1>6, <1>7, <1>8, <1>9, <1>10, <1>11, <1>12, <1>13, <1>14 DEF Next

\* No second link is sent.
LEMMA LinkOnceStep == IInv /\ [Next]_vars => LinkOnce'
<1> SUFFICES ASSUME IInv, [Next]_vars PROVE LinkOnce'
  OBVIOUS
<1> USE GuestAssumption DEF RowsUnchanged, AccountsUnchanged, Step, Answer, Request, Quiet, CheckoutOf, AddressOf
<1>1. ASSUME NEW c \in Checkouts, OpenGuestCheckout(c) PROVE LinkOnce'
  BY <1>1 DEF IInv, TypeOK, Serving, Linking, LinkOnce, Events, Pcs, OpenGuestCheckout
<1>2. ASSUME NEW c \in Checkouts, NEW m \in Emails, Pay(c, m) PROVE LinkOnce'
  BY <1>2 DEF IInv, TypeOK, Serving, Linking, LinkOnce, Events, Pcs, Pay
<1>3. ASSUME NEW m \in Emails, SignUpAlone(m) PROVE LinkOnce'
  BY <1>3 DEF IInv, TypeOK, Serving, Linking, LinkOnce, Events, Pcs, SignUpAlone
<1>4. ASSUME NEW m \in Emails, LinkCustomer(m) PROVE LinkOnce'
  BY <1>4 DEF IInv, TypeOK, Serving, Linking, LinkOnce, Events, Pcs, LinkCustomer
<1>5. ASSUME NEW h \in Handlers, NEW e \in Events, Receive(h, e) PROVE LinkOnce'
  BY <1>5 DEF IInv, TypeOK, Serving, Linking, LinkOnce, Events, Pcs, Receive
<1>6. ASSUME NEW h \in Handlers, Identify(h) PROVE LinkOnce'
  BY <1>6 DEF IInv, TypeOK, Serving, Linking, LinkOnce, Events, Pcs, Identify
<1>7. ASSUME NEW h \in Handlers, SignUp(h) PROVE LinkOnce'
  BY <1>7 DEF IInv, TypeOK, Serving, Linking, LinkOnce, Events, Pcs, SignUp
<1>8. ASSUME NEW h \in Handlers, SignUpRefused(h) PROVE LinkOnce'
  BY <1>8 DEF IInv, TypeOK, Serving, Linking, LinkOnce, Events, Pcs, SignUpRefused
<1>9. ASSUME NEW h \in Handlers, Reread(h) PROVE LinkOnce'
  BY <1>9 DEF IInv, TypeOK, Serving, Linking, LinkOnce, Events, Pcs, Reread
<1>10. ASSUME NEW h \in Handlers, ApplyEvent(h) PROVE LinkOnce'
  BY <1>10 DEF IInv, TypeOK, Serving, Linking, LinkOnce, Events, Pcs, ApplyEvent, Promotes, StillGuest, Untaken, Journalled, HasRow, Collides
<1>11. ASSUME NEW h \in Handlers, Replay(h) PROVE LinkOnce'
  BY <1>11 DEF IInv, TypeOK, Serving, Linking, LinkOnce, Events, Pcs, Replay, Journalled
<1>12. ASSUME NEW h \in Handlers, SendAccessLink(h) PROVE LinkOnce'
  BY <1>12 DEF IInv, TypeOK, Serving, Linking, LinkOnce, Events, Pcs, SendAccessLink
<1>13. ASSUME NEW h \in Handlers, RequestFails(h) PROVE LinkOnce'
  BY <1>13 DEF IInv, TypeOK, Serving, Linking, LinkOnce, Events, Pcs, RequestFails
<1>14. CASE UNCHANGED vars
  BY <1>14 DEF vars, IInv, TypeOK, Serving, Linking, LinkOnce, Events, Pcs
<1> QED BY <1>1, <1>2, <1>3, <1>4, <1>5, <1>6, <1>7, <1>8, <1>9, <1>10, <1>11, <1>12, <1>13, <1>14 DEF Next

\* The strengthening is an invariant of GuestCheckout.
LEMMA Inductive == Spec => []IInv
<1>1. IInv /\ [Next]_vars => IInv'
  BY TypesStep, ServingStep, ResolvedStep, AttachedStep, LinkingStep, LinkOnceStep DEF IInv
<1> QED BY InitInductive, <1>1, PTL DEF Spec

\* Every reachable state is well typed, and rows are promoted to accounts that exist.
THEOREM GuestTypes == Spec => []TypeOK
<1>1. IInv => TypeOK BY DEF IInv
<1> QED BY Inductive, <1>1, PTL

\* A payment that will not be delivered again has attached its row, or its
\* account already had one, or its sign-up was refused.
THEOREM PaymentsAttached == Spec => []PaidIsAttached
<1>1. IInv => PaidIsAttached BY DEF IInv
<1> QED BY Inductive, <1>1, PTL

\* One link at most leaves for a payment, whatever is delivered, dies or is
\* delivered again.
THEOREM LinksOnce == Spec => []LinkOnce
<1>1. IInv => LinkOnce BY DEF IInv
<1> QED BY Inductive, <1>1, PTL

\* A promoted row keeps its account, for every step of every request.
THEOREM PromotionKept == Spec => PromotionHolds
<1>1. IInv /\ [Next]_vars => [\A c \in Checkouts : row[c] \in Emails => row'[c] = row[c]]_vars
  <2> SUFFICES ASSUME IInv, [Next]_vars, NEW c \in Checkouts, row[c] \in Emails
               PROVE  row'[c] = row[c]
    OBVIOUS
  <2>1. row[c] \notin {"none", "guest"} BY GuestAssumption
  <2>2. ASSUME NEW d \in Checkouts, OpenGuestCheckout(d) PROVE row'[c] = row[c]
    BY <2>1, <2>2 DEF IInv, TypeOK, OpenGuestCheckout
  <2>3. ASSUME NEW h \in Handlers, ApplyEvent(h) PROVE row'[c] = row[c]
    BY <2>1, <2>3 DEF IInv, TypeOK, ApplyEvent, Promotes, StillGuest, CheckoutOf
  <2>4. CASE UNCHANGED row
    BY <2>4
  <2> QED
    BY <2>2, <2>3, <2>4
       DEF Next, vars, Pay, SignUpAlone, LinkCustomer, Receive, Identify, SignUp, SignUpRefused,
           Reread, Replay, SendAccessLink, RequestFails, RowsUnchanged
<1> QED BY Inductive, <1>1, PTL DEF Spec, PromotionHolds
=============================================================================
