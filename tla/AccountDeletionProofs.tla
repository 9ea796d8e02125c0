------------------------- MODULE AccountDeletionProofs -------------------------
(***************************************************************************)
(* What AccountDeletion promises, for any accounts, organizations and      *)
(* deliveries.  Three facts carry it: the ledger lets one delivery at a    *)
(* time purge an account (Ledgered); a purge that goes on has found the    *)
(* account there (Parting), so that a ledger which forgets a success does  *)
(* no harm; after its departure was claimed an account owns nothing,       *)
(* unless somebody made it owner again (Departing).                        *)
(*                                                                         *)
(* The purge uses the ledger as JobRuns allows, and the second half proves *)
(* that the dispatcher keeps that promise, for every set of emissions and  *)
(* of deliveries and every retry policy.                                   *)
(***************************************************************************)
EXTENDS AccountDeletion, JobDispatch, TLAPS

Claiming == {"storage", "organizations", "auth"}

\* The deliveries that execute an account's purge are those the ledger let in.
Ledgered ==
    /\ \A r \in Runs : stage[r] \in PurgeStages \cup {"farewell"} => r \in running[Subject[r]]
    /\ \A u \in Users : \A r \in running[u] : Subject[r] = u /\ ~ won[u]
    /\ \A u \in Users : \A r, q \in running[u] : r = q

\* A purge erases an account that is there, and bids it farewell as its last act.
Parting ==
    /\ \A r \in Runs : /\ stage[r] \in Claiming => account[Subject[r]] # "erased"
                       /\ stage[r] = "farewell" => /\ account[Subject[r]] = "erased"
                                                  /\ farewell[Subject[r]] = 0
    /\ \A u \in Users : \/ farewell[u] = 0
                        \/ farewell[u] = 1 /\ account[u] = "erased"

\* Who is leaving owns nothing, or was made owner again.
Departing ==
    \A u \in Leaving, o \in Orgs : role[o][u] = "owner" => u \in regained

\* A purge past its decision cleared the refusal of the one before.
Cleared == \A r \in Runs : stage[r] \in Claiming => Subject[r] \notin refused

IInv == TypeOK /\ Ledgered /\ Parting /\ Departing /\ Cleared /\ RefusedKeepsFiles

-----------------------------------------------------------------------------

\* Nothing has been asked at first.
LEMMA InitInductive == Init => IInv
<1> SUFFICES ASSUME Init PROVE IInv
  OBVIOUS
<1> USE AccountDeletionAssumption DEF Init, Ledger!Init
<1>1. TypeOK BY DEF TypeOK, Stages, PurgeStages
<1>2. Ledgered BY DEF Ledgered, PurgeStages
<1>3. Parting BY DEF Parting, Claiming
<1>4. Leaving = {} BY DEF Leaving
<1> QED BY <1>1, <1>2, <1>3, <1>4 DEF IInv, Departing, Cleared, Claiming, RefusedKeepsFiles

\* A departure takes away the roles of one account.
LEMMA DepartedRoles ==
  ASSUME TypeOK, NEW u \in Users
  PROVE  /\ Departed(u) \in [Orgs -> [Users -> Roles]]
         /\ \A o \in Orgs : Departed(u)[o][u] = "none"
         /\ \A o \in Orgs, v \in Users : v # u => Departed(u)[o][v] = role[o][v]
  BY DEF TypeOK, Departed, Roles

LEMMA TypesAside ==
  ASSUME TypeOK, NEW u \in Users, Meanwhile(u) \/ Request(u)
  PROVE  TypeOK'
<1> USE DEF TypeOK, access, request, ledger, delivery, files, mails
<1>1. CASE BeginUpload(u) BY <1>1 DEF BeginUpload
<1>2. CASE EndUpload(u) BY <1>2 DEF EndUpload
<1>3. ASSUME NEW o \in Orgs, CreateOrganization(u, o) PROVE TypeOK'
  BY <1>3 DEF CreateOrganization, Roles
<1>4. ASSUME NEW o \in Orgs, LeaveOrganization(u, o) PROVE TypeOK'
  BY <1>4 DEF LeaveOrganization, Roles
<1>5. ASSUME NEW o \in Orgs, NEW v \in Users, TransferOwnership(u, v, o) PROVE TypeOK'
  <2>1. role' \in [Orgs -> [Users -> Roles]] BY <1>5 DEF TransferOwnership, Roles
  <2> QED BY <1>5, <2>1 DEF TransferOwnership
<1>6. CASE RequestDeletion(u) BY <1>6 DEF RequestDeletion, Answer
<1>7. CASE EmitPurge(u) BY <1>7 DEF EmitPurge, Answer
<1>8. CASE MarkRequested(u) BY <1>8 DEF MarkRequested, Answer
<1>9. CASE RevokeSessions(u) BY <1>9 DEF RevokeSessions, Answer
<1>10. CASE CrashRequest(u) BY <1>10 DEF CrashRequest, Answer
<1> QED
  BY <1>1, <1>2, <1>3, <1>4, <1>5, <1>6, <1>7, <1>8, <1>9, <1>10 DEF Meanwhile, Request

LEMMA EndTypes ==
  ASSUME TypeOK, NEW r \in Runs, NEW how \in Stages, End(r, how) \/ Reach(r, how)
  PROVE  stage' \in [Runs -> Stages] /\ attempt' \in [Runs -> 0 .. MaxAttempts]
<1>1. 0 \in 0 .. MaxAttempts BY AccountDeletionAssumption
<1>2. CASE End(r, how) BY <1>1, <1>2 DEF End, TypeOK
<1>3. CASE Reach(r, how) BY <1>3 DEF Reach, TypeOK
<1> QED BY <1>2, <1>3

LEMMA LedgerTypes ==
  ASSUME TypeOK, NEW r \in Runs, NEW u \in Users, Ledger!Succeed(r, u) \/ Ledger!Stop(r, u)
  PROVE  /\ running' \in [Users -> SUBSET Runs] /\ won' \in [Users -> BOOLEAN]
         /\ \A v \in Users : won[v] => won'[v]
<1>1. running[u] \ {r} \in SUBSET Runs BY DEF TypeOK
<1>2. running' = [running EXCEPT ![u] = running[u] \ {r}]
  BY DEF Ledger!Succeed, Ledger!Stop
<1>3. won' = [won EXCEPT ![u] = TRUE] \/ won' = won
  BY DEF Ledger!Succeed, Ledger!Stop
<1>4. running' \in [Users -> SUBSET Runs] BY <1>1, <1>2 DEF TypeOK
<1>5. won' \in [Users -> BOOLEAN] /\ \A v \in Users : won[v] => won'[v]
  BY <1>3, Zenon DEF TypeOK
<1> QED BY <1>4, <1>5

LEMMA TypesPurge ==
  ASSUME IInv, NEW r \in Runs, PurgeStep(r) \/ CrashRun(r) \/ Delivery(r)
  PROVE  TypeOK'
<1> DEFINE u == Subject[r]
<1>1. u \in Users BY AccountDeletionAssumption
<1> USE AccountDeletionAssumption, <1>1 DEF access, request, ledger, delivery, files, mails, Stages, PurgeStages
<1>2. TypeOK BY DEF IInv
<1>3. Departed(u) \in [Orgs -> [Users -> Roles]]
  BY <1>2, DepartedRoles
<1>4. CASE Decide(r)
  <2>1. role' \in [Orgs -> [Users -> Roles]] /\ refused' \subseteq Users /\ regained' \subseteq Users
    BY <1>2, <1>3, <1>4 DEF Decide, Claimed, TypeOK
  <2>2. stage' \in [Runs -> Stages] /\ attempt' \in [Runs -> 0 .. MaxAttempts]
    <3>1. \E how \in Stages : End(r, how) \/ Reach(r, how)
      BY <1>4 DEF Decide, Succeed, GiveUp
    <3> QED BY <1>2, <3>1, EndTypes
  <2>3. running' \in [Users -> SUBSET Runs] /\ won' \in [Users -> BOOLEAN]
    <3>1. Ledger!Succeed(r, u) \/ Ledger!Stop(r, u) \/ UNCHANGED <<running, won>>
      BY <1>4 DEF Decide, Succeed, GiveUp
    <3>2. UNCHANGED <<running, won>> => running' \in [Users -> SUBSET Runs] /\ won' \in [Users -> BOOLEAN]
      BY <1>2 DEF TypeOK
    <3> QED BY <1>2, <3>1, <3>2, LedgerTypes
  <2>4. held' \subseteq Users
    BY <1>2, <1>4 DEF Decide, Succeed, GiveUp, TypeOK
  <2> QED BY <1>2, <1>4, <2>1, <2>2, <2>3, <2>4 DEF Decide, TypeOK
<1>5. CASE PurgeStorage(r) BY <1>2, <1>5 DEF PurgeStorage, Reach, TypeOK
<1>6. CASE PurgeOrganizations(r) BY <1>2, <1>3, <1>6 DEF PurgeOrganizations, Reach, TypeOK
<1>7. CASE PurgeAuth(r) BY <1>2, <1>3, <1>7 DEF PurgeAuth, Reach, TypeOK
<1>8. CASE SendFarewell(r) BY <1>2, <1>8 DEF SendFarewell, Succeed, End, Ledger!Succeed, TypeOK
<1>9. CASE PurgeFails(r)
  <2>1. CASE MayRetry(r)
    <3>1. NextAttempt(attempt[r]) \in 0 .. MaxAttempts
      BY <1>2, <2>1 DEF MayRetry, NextAttempt, TypeOK
    <3> QED BY <1>2, <1>9, <2>1, <3>1 DEF PurgeFails, TypeOK
  <2>2. CASE ~ MayRetry(r)
    <3>1. End(r, "abandoned") /\ Ledger!Stop(r, u) /\ held' \subseteq Users
      BY <1>2, <1>9, <2>2 DEF PurgeFails, GiveUp, TypeOK
    <3>2. /\ stage' \in [Runs -> Stages] /\ attempt' \in [Runs -> 0 .. MaxAttempts]
          /\ running' \in [Users -> SUBSET Runs] /\ won' \in [Users -> BOOLEAN]
      BY <1>2, <3>1, EndTypes, LedgerTypes
    <3> QED BY <1>2, <1>9, <3>1, <3>2 DEF PurgeFails, TypeOK
  <2> QED BY <2>1, <2>2
<1>10. CASE CrashRun(r) BY <1>2, <1>10 DEF CrashRun, End, Ledger!Stop, TypeOK
<1>11. CASE Deliver(r) BY <1>2, <1>11 DEF Deliver, Reserve, Ledger!Start, TypeOK
<1>12. CASE Skip(r) BY <1>2, <1>12 DEF Skip, Reach, TypeOK
<1>13. CASE ClaimFails(r) BY <1>2, <1>13 DEF ClaimFails, Reach, TypeOK
<1> QED
  BY <1>4, <1>5, <1>6, <1>7, <1>8, <1>9, <1>10, <1>11, <1>12, <1>13 DEF PurgeStep, Delivery

LEMMA TypesStep == IInv /\ [Next]_vars => TypeOK'
<1> SUFFICES ASSUME IInv, [Next]_vars PROVE TypeOK'
  OBVIOUS
<1>1. CASE UNCHANGED vars
  BY <1>1 DEF vars, access, request, ledger, delivery, files, mails, IInv, TypeOK
<1>2. ASSUME NEW u \in Users, SweepRun(u) PROVE TypeOK'
  BY <1>2
     DEF SweepRun, Ledger!Forget, IInv, TypeOK, access, request, delivery, files, mails
<1> QED BY <1>1, <1>2, TypesAside, TypesPurge DEF Next, IInv

\* The four ways a delivery moves, as the ledger sees them.
Goes(r) ==
    /\ stage[r] \in PurgeStages
    /\ \E next \in PurgeStages \cup {"farewell"} : stage' = [stage EXCEPT ![r] = next]
    /\ UNCHANGED <<running, won>>
Ends(r) ==
    /\ stage[r] \in PurgeStages \cup {"farewell"}
    /\ \E how \in {"over", "abandoned"} : stage' = [stage EXCEPT ![r] = how]
    /\ Ledger!Succeed(r, Subject[r]) \/ Ledger!Stop(r, Subject[r])
Starts(r) ==
    /\ stage' = [stage EXCEPT ![r] = "decide"]
    /\ Ledger!Start(r, Subject[r])
Rests(r) ==
    /\ \E how \in {"over", "unclaimed"} : stage' = [stage EXCEPT ![r] = how]
    /\ stage[r] = "waiting"
    /\ UNCHANGED <<running, won>>
Forgets(u) == Ledger!Forget(u) /\ UNCHANGED stage

LEMMA Moves ==
  ASSUME IInv, [Next]_vars
  PROVE  \/ UNCHANGED <<stage, running, won>>
         \/ \E r \in Runs : Goes(r) \/ Ends(r) \/ Starts(r) \/ Rests(r)
         \/ \E u \in Users : Forgets(u)
<1>1. ASSUME NEW r \in Runs, PurgeStep(r) \/ CrashRun(r) PROVE Goes(r) \/ Ends(r)
  <2>1. CASE Decide(r)
    BY <2>1 DEF Decide, Goes, Ends, PurgeStages, Reach, Succeed, GiveUp, End, ledger
  <2>2. CASE PurgeStorage(r) BY <2>2 DEF PurgeStorage, Goes, PurgeStages, Reach, ledger
  <2>3. CASE PurgeOrganizations(r) BY <2>3 DEF PurgeOrganizations, Goes, PurgeStages, Reach, ledger
  <2>4. CASE PurgeAuth(r) BY <2>4 DEF PurgeAuth, Goes, PurgeStages, Reach, ledger
  <2>5. CASE SendFarewell(r) BY <2>5 DEF SendFarewell, Ends, Succeed, End
  <2>6. CASE PurgeFails(r) BY <2>6 DEF PurgeFails, GiveUp, Goes, Ends, PurgeStages, End, ledger
  <2>7. CASE CrashRun(r) BY <2>7 DEF CrashRun, Ends, End
  <2> QED BY <1>1, <2>1, <2>2, <2>3, <2>4, <2>5, <2>6, <2>7 DEF PurgeStep
<1>2. ASSUME NEW r \in Runs, Deliver(r) PROVE Starts(r)
  BY <1>2 DEF Deliver, Starts, Reserve
<1>3. ASSUME NEW u \in Users, Meanwhile(u) \/ Request(u) PROVE UNCHANGED <<stage, running, won>>
  BY <1>3
     DEF Meanwhile, Request, BeginUpload, EndUpload, CreateOrganization, LeaveOrganization,
         TransferOwnership, RequestDeletion, EmitPurge, MarkRequested, RevokeSessions,
         CrashRequest, ledger, delivery
<1>4. ASSUME NEW r \in Runs, Skip(r) \/ ClaimFails(r) PROVE Rests(r)
  BY <1>4 DEF Skip, ClaimFails, Arrives, Rests, Reach, ledger
<1>5. ASSUME NEW u \in Users, SweepRun(u)
      PROVE  Forgets(u) \/ UNCHANGED <<stage, running, won>>
  BY <1>5 DEF SweepRun, Forgets, delivery
<1> QED BY <1>1, <1>2, <1>3, <1>4, <1>5 DEF Next, Delivery, vars, ledger, delivery

LEMMA LedgeredStep ==
  ASSUME IInv, [Next]_vars
  PROVE  Ledgered'
<1> USE AccountDeletionAssumption DEF ledger
<1>1. ASSUME NEW r \in Runs, Goes(r) PROVE Ledgered'
  BY <1>1 DEF Goes, IInv, TypeOK, Ledgered
<1>2. ASSUME NEW r \in Runs, Ends(r) PROVE Ledgered'
  <2> DEFINE u == Subject[r]
  <2>1. u \in Users /\ r \in running[u] /\ running[u] = {r}
    BY <1>2 DEF Ends, IInv, Ledgered
  <2>2. running'[u] = {} /\ \A v \in Users : v # u => running'[v] = running[v] /\ won'[v] = won[v]
    BY <1>2, <2>1 DEF Ends, Ledger!Succeed, Ledger!Stop, IInv, TypeOK
  <2>3. \A q \in Runs : stage'[q] \in PurgeStages \cup {"farewell"}
                        => q # r /\ stage'[q] = stage[q]
    BY <1>2 DEF Ends, PurgeStages, IInv, TypeOK
  <2>4. \A q \in Runs : stage'[q] \in PurgeStages \cup {"farewell"} => q \in running'[Subject[q]]
    BY <2>1, <2>2, <2>3 DEF IInv, Ledgered
  <2> QED BY <2>2, <2>4 DEF IInv, Ledgered
<1>3. ASSUME NEW r \in Runs, Starts(r) PROVE Ledgered'
  <2> DEFINE u == Subject[r]
  <2>1. u \in Users /\ running'[u] = {r} /\ ~ won'[u] /\ running[u] = {}
    BY <1>3 DEF Starts, Ledger!Start, IInv, TypeOK
  <2>2. \A v \in Users : v # u => running'[v] = running[v] /\ won'[v] = won[v]
    BY <1>3, <2>1 DEF Starts, Ledger!Start, IInv, TypeOK
  <2>3. \A q \in Runs : q # r => stage'[q] = stage[q]
    BY <1>3 DEF Starts, IInv, TypeOK
  <2>4. \A q \in Runs : stage'[q] \in PurgeStages \cup {"farewell"} => q \in running'[Subject[q]]
    BY <2>1, <2>2, <2>3 DEF IInv, Ledgered
  <2> QED BY <2>1, <2>2, <2>4 DEF IInv, Ledgered
<1>4. ASSUME NEW r \in Runs, Rests(r) PROVE Ledgered'
  <2>1. \A q \in Runs : stage'[q] \in PurgeStages \cup {"farewell"} => stage'[q] = stage[q]
    BY <1>4 DEF Rests, PurgeStages, IInv, TypeOK
  <2> QED BY <1>4, <2>1 DEF Rests, IInv, Ledgered
<1>5. ASSUME NEW u \in Users, Forgets(u) PROVE Ledgered'
  BY <1>5 DEF Forgets, Ledger!Forget, IInv, TypeOK, Ledgered
<1>6. CASE UNCHANGED <<stage, running, won>>
  BY <1>6 DEF IInv, Ledgered
<1> QED BY <1>1, <1>2, <1>3, <1>4, <1>5, <1>6, Moves

\* A purge under way is the only one of its account.
LEMMA OneRunEach ==
  ASSUME IInv, NEW r \in Runs, NEW q \in Runs, Subject[q] = Subject[r], q # r,
         stage[r] \in PurgeStages \cup {"farewell"}
  PROVE  stage[q] \notin PurgeStages \cup {"farewell"}
<1> USE AccountDeletionAssumption
<1> SUFFICES ASSUME stage[q] \in PurgeStages \cup {"farewell"} PROVE FALSE
  OBVIOUS
<1>1. r \in running[Subject[r]] /\ q \in running[Subject[r]]
  BY DEF IInv, Ledgered
<1> QED BY <1>1 DEF IInv, Ledgered

LEMMA PartingStep ==
  ASSUME IInv, [Next]_vars
  PROVE  Parting'
<1> USE AccountDeletionAssumption DEF access, request, ledger, delivery, files, mails, Claiming
<1>1. ASSUME NEW r \in Runs, PurgeAuth(r) PROVE Parting'
  <2> DEFINE u == Subject[r]
  <2>1. u \in Users /\ stage[r] = "auth" /\ farewell[u] = 0
    BY <1>1 DEF PurgeAuth, IInv, Parting
  <2>2. \A q \in Runs : q # r /\ Subject[q] = u => stage[q] \notin Claiming \cup {"farewell"}
    BY <2>1, OneRunEach DEF PurgeStages
  <2>3. stage'[r] = "farewell" /\ \A q \in Runs : q # r => stage'[q] = stage[q]
    BY <1>1 DEF PurgeAuth, Reach, IInv, TypeOK
  <2>4. account'[u] = "erased" /\ \A v \in Users : v # u => account'[v] = account[v]
    BY <1>1, <2>1 DEF PurgeAuth, IInv, TypeOK
  <2>5. farewell' = farewell
    BY <1>1 DEF PurgeAuth
  <2> QED BY SMTT(20), <2>1, <2>2, <2>3, <2>4, <2>5 DEF IInv, Parting
<1>2. ASSUME NEW r \in Runs, SendFarewell(r) PROVE Parting'
  <2> DEFINE u == Subject[r]
  <2>1. u \in Users /\ stage[r] = "farewell" /\ account[u] = "erased" /\ farewell[u] = 0
    BY <1>2 DEF SendFarewell, IInv, Parting
  <2>2. \A q \in Runs : q # r /\ Subject[q] = u => stage[q] # "farewell"
    BY <2>1, OneRunEach
  <2>3. farewell'[u] = 1 /\ \A v \in Users : v # u => farewell'[v] = farewell[v]
    BY <1>2, <2>1 DEF SendFarewell, IInv, TypeOK
  <2>4. stage'[r] = "over" /\ account' = account /\ \A q \in Runs : q # r => stage'[q] = stage[q]
    BY <1>2 DEF SendFarewell, Succeed, End, IInv, TypeOK
  <2> QED BY <2>1, <2>2, <2>3, <2>4 DEF IInv, Parting
<1>3. ASSUME NEW r \in Runs, Decide(r) PROVE Parting'
  <2>1. \A q \in Runs : stage'[q] = "farewell" => stage[q] = "farewell"
    BY <1>3 DEF Decide, Succeed, GiveUp, End, Reach, IInv, TypeOK
  <2>2. \A q \in Runs : stage'[q] \in Claiming =>
            stage[q] \in Claiming \/ account[Subject[q]] # "erased"
    BY <1>3 DEF Decide, Succeed, GiveUp, End, Reach, IInv, TypeOK
  <2>3. UNCHANGED <<account, farewell>>
    BY <1>3 DEF Decide
  <2> QED BY <2>1, <2>2, <2>3 DEF IInv, Parting
<1>4. ASSUME NEW r \in Runs,
             PurgeStorage(r) \/ PurgeOrganizations(r) \/ PurgeFails(r) \/ CrashRun(r) \/ Delivery(r)
      PROVE  Parting'
  <2>1. UNCHANGED <<account, farewell>>
    BY <1>4 DEF PurgeStorage, PurgeOrganizations, PurgeFails, CrashRun, Delivery, Deliver, Skip,
                ClaimFails
  <2>2. \A q \in Runs : stage'[q] = "farewell" => stage[q] = "farewell"
    BY <1>4 DEF PurgeStorage, PurgeOrganizations, PurgeFails, GiveUp, CrashRun, Delivery, Deliver,
                Skip, ClaimFails, Reach, End, IInv, TypeOK
  <2>3. \A q \in Runs : stage'[q] \in Claiming => stage[q] \in Claiming
    BY <1>4 DEF PurgeStorage, PurgeOrganizations, PurgeFails, GiveUp, CrashRun, Delivery, Deliver,
                Skip, ClaimFails, Reach, End, IInv, TypeOK
  <2> QED BY <2>1, <2>2, <2>3 DEF IInv, Parting
<1>5. ASSUME NEW u \in Users, MarkRequested(u) PROVE Parting'
  <2>1. \A v \in Users : account'[v] = "erased" <=> account[v] = "erased"
    BY <1>5 DEF MarkRequested, IInv, TypeOK
  <2> QED BY <1>5, <2>1 DEF MarkRequested, IInv, Parting
<1>6. CASE UNCHANGED <<stage, account, farewell>>
  BY <1>6 DEF IInv, Parting
<1>7. ASSUME NEW u \in Users, Meanwhile(u) \/ Request(u) \/ SweepRun(u), ~ MarkRequested(u)
      PROVE  UNCHANGED <<stage, account, farewell>>
  <2>1. CASE Meanwhile(u)
    BY <2>1 DEF Meanwhile, BeginUpload, EndUpload, CreateOrganization, LeaveOrganization,
                TransferOwnership
  <2>2. CASE Request(u)
    BY <1>7, <2>2 DEF Request, RequestDeletion, EmitPurge, RevokeSessions, CrashRequest
  <2>3. CASE SweepRun(u) BY <2>3 DEF SweepRun
  <2> QED BY <1>7, <2>1, <2>2, <2>3
<1>8. CASE \E u \in Users : Meanwhile(u) \/ Request(u) \/ SweepRun(u)
  BY <1>5, <1>6, <1>7, <1>8
<1>9. CASE \E r \in Runs : PurgeStep(r) \/ CrashRun(r) \/ Delivery(r)
  BY <1>1, <1>2, <1>3, <1>4, <1>9 DEF PurgeStep
<1>10. CASE UNCHANGED vars BY <1>6, <1>10 DEF vars
<1> QED BY <1>8, <1>9, <1>10 DEF Next

\* Whoever owns something while leaving was made owner again.
LEMMA DepartingStep ==
  ASSUME IInv, [Next]_vars
  PROVE  Departing'
<1> USE AccountDeletionAssumption DEF access, request, ledger, delivery, files, mails
<1>0. ASSUME NEW u \in Leaving, NEW o \in Orgs, role[o][u] = "owner" PROVE u \in regained
  BY <1>0 DEF IInv, Departing
<1>1. ASSUME NEW u \in Users, NEW o \in Orgs, CreateOrganization(u, o) PROVE Departing'
  <2>1. Leaving' = Leaving BY <1>1 DEF CreateOrganization, Leaving
  <2>2. regained' = regained \cup ({u} \cap Leaving) BY <1>1 DEF CreateOrganization
  <2>3. \A p \in Orgs, v \in Users : role'[p][v] = "owner" => v = u \/ role[p][v] = "owner"
    BY <1>1 DEF CreateOrganization, IInv, TypeOK
  <2>4. Leaving \subseteq Users BY DEF Leaving, IInv, TypeOK
  <2> QED BY <1>0, <2>1, <2>2, <2>3, <2>4 DEF Departing
<1>2. ASSUME NEW u \in Users, NEW v \in Users, NEW o \in Orgs, TransferOwnership(u, v, o)
      PROVE  Departing'
  <2>1. Leaving' = Leaving BY <1>2 DEF TransferOwnership, Leaving
  <2>2. regained' = regained \cup ({v} \cap Leaving) BY <1>2 DEF TransferOwnership
  <2>3. \A p \in Orgs, w \in Users : role'[p][w] = "owner" => w = v \/ role[p][w] = "owner"
    BY <1>2 DEF TransferOwnership, IInv, TypeOK
  <2>4. Leaving \subseteq Users BY DEF Leaving, IInv, TypeOK
  <2> QED BY <1>0, <2>1, <2>2, <2>3, <2>4 DEF Departing
<1>3. ASSUME Leaving' \subseteq Leaving, regained' = regained,
             \A o \in Orgs, u \in Users : role'[o][u] = "owner" => role[o][u] = "owner"
      PROVE  Departing'
  <2>1. Leaving \subseteq Users BY DEF Leaving, IInv, TypeOK
  <2> QED BY <1>0, <1>3, <2>1 DEF Departing
<1>4. ASSUME NEW u \in Users, NEW o \in Orgs, LeaveOrganization(u, o) PROVE Departing'
  <2>1. \A p \in Orgs, v \in Users : role'[p][v] = "owner" => role[p][v] = "owner"
    BY <1>4 DEF LeaveOrganization, IInv, TypeOK
  <2> QED BY <1>3, <1>4, <2>1 DEF LeaveOrganization, Leaving
<1>5. ASSUME NEW r \in Runs, Decide(r) PROVE Departing'
  <2> DEFINE u == Subject[r]
  <2>1. CASE role' = Departed(u)
    <3>1. u \in Users /\ \A o \in Orgs : role'[o][u] = "none"
      BY <2>1, DepartedRoles DEF IInv
    <3>2. \A o \in Orgs, v \in Users : v # u => role'[o][v] = role[o][v]
      BY <2>1, DepartedRoles DEF IInv
    <3>3. Leaving' \subseteq Leaving \cup {u} /\ Leaving' \subseteq Users
      <4>1. \A q \in Runs : q # r => stage'[q] = stage[q]
        BY <1>5 DEF Decide, Succeed, GiveUp, End, Reach, IInv, TypeOK
      <4>2. emptied' = emptied /\ emptied \subseteq Users
        BY <1>5 DEF Decide, IInv, TypeOK
      <4> QED BY <4>1, <4>2 DEF Leaving
    <3>4. \A v \in Users : v # u /\ v \in regained => v \in regained'
      BY <1>5 DEF Decide
    <3>5. ASSUME NEW v \in Leaving', NEW o \in Orgs, role'[o][v] = "owner" PROVE v \in regained'
      BY <1>0, <3>1, <3>2, <3>3, <3>4, <3>5
    <3> QED BY <3>5 DEF Departing
  <2>2. CASE UNCHANGED <<role, regained>> /\ stage'[r] = "over"
    <3>1. Leaving' \subseteq Leaving
      <4>1. \A q \in Runs : q # r => stage'[q] = stage[q]
        BY <1>5 DEF Decide, Succeed, GiveUp, End, Reach, IInv, TypeOK
      <4>2. emptied' = emptied
        BY <1>5 DEF Decide
      <4> QED BY <2>2, <4>1, <4>2 DEF Leaving
    <3> QED BY <1>3, <2>2, <3>1
  <2>3. stage[r] \in Stages /\ (End(r, "over") => stage'[r] = "over")
    BY DEF End, IInv, TypeOK
  <2> QED BY <1>5, <2>1, <2>2, <2>3 DEF Decide, Claimed, Succeed, GiveUp
<1>6. ASSUME NEW r \in Runs, PurgeStorage(r) PROVE Departing'
  <2>1. Leaving' \subseteq Leaving
    BY <1>6 DEF PurgeStorage, Reach, Leaving, IInv, TypeOK
  <2> QED BY <1>3, <1>6, <2>1 DEF PurgeStorage
<1>7. ASSUME NEW r \in Runs, PurgeOrganizations(r) PROVE Departing'
  <2>1. Leaving' \subseteq Leaving
    BY <1>7 DEF PurgeOrganizations, Reach, Leaving, IInv, TypeOK
  <2>2. \A o \in Orgs, v \in Users : role'[o][v] = "owner" => role[o][v] = "owner"
    <3>1. TypeOK /\ Subject[r] \in Users /\ role' = Departed(Subject[r])
      BY <1>7 DEF PurgeOrganizations, IInv
    <3> QED BY <3>1, DepartedRoles
  <2> QED BY <1>3, <1>7, <2>1, <2>2 DEF PurgeOrganizations
<1>8. ASSUME NEW r \in Runs, PurgeAuth(r) PROVE Departing'
  <2> DEFINE u == Subject[r]
  <2>1. Leaving' \subseteq Leaving
    BY <1>8 DEF PurgeAuth, Reach, Leaving, IInv, TypeOK
  <2>2. u \in Users /\ \A o \in Orgs : role'[o][u] = "none"
    BY <1>8, DepartedRoles DEF PurgeAuth, IInv
  <2>3. \A o \in Orgs, v \in Users : v # u => role'[o][v] = role[o][v]
    BY <1>8, DepartedRoles DEF PurgeAuth, IInv
  <2>4. regained' = regained \ {u} /\ Leaving \subseteq Users
    BY <1>8 DEF PurgeAuth, Leaving, IInv, TypeOK
  <2>5. ASSUME NEW v \in Leaving', NEW o \in Orgs, role'[o][v] = "owner" PROVE v \in regained'
    BY <1>0, <2>1, <2>2, <2>3, <2>4, <2>5
  <2> QED BY <2>5 DEF Departing
<1>9. ASSUME NEW r \in Runs, SendFarewell(r) \/ PurgeFails(r) \/ CrashRun(r) \/ Delivery(r)
      PROVE  Departing'
  <2>1. UNCHANGED <<role, emptied, regained>>
    BY <1>9 DEF SendFarewell, PurgeFails, CrashRun, Delivery, Deliver, Skip, ClaimFails
  <2>2. \A q \in Runs : stage'[q] = stage[q] \/ stage'[q] \in {"over", "abandoned", "unclaimed", "decide"}
    BY <1>9 DEF SendFarewell, Succeed, PurgeFails, GiveUp, CrashRun, Delivery, Deliver, Skip,
                ClaimFails, Reach, End, IInv, TypeOK
  <2>3. Leaving' \subseteq Leaving
    BY <2>1, <2>2 DEF Leaving
  <2> QED BY <1>3, <2>1, <2>3
<1>10. CASE UNCHANGED <<stage, role, emptied, regained>>
  BY <1>3, <1>10 DEF Leaving
<1> QED
  BY <1>1, <1>2, <1>4, <1>5, <1>6, <1>7, <1>8, <1>9, <1>10
     DEF Next, PurgeStep, Meanwhile, Request, BeginUpload, EndUpload, RequestDeletion, EmitPurge,
         MarkRequested, RevokeSessions, CrashRequest, SweepRun, vars

\* A refusal is decided by the one delivery that runs; nothing was claimed for it.
LEMMA RefusalStep ==
  ASSUME IInv, [Next]_vars
  PROVE  Cleared' /\ RefusedKeepsFiles'
<1> USE AccountDeletionAssumption DEF access, request, ledger, delivery, files, mails, Claiming
<1>1. ASSUME NEW r \in Runs, Decide(r) PROVE Cleared' /\ RefusedKeepsFiles'
  <2> DEFINE u == Subject[r]
  <2>1. u \in Users /\ stage[r] = "decide" /\ emptied' = emptied
    BY <1>1 DEF Decide
  <2>2. \A q \in Runs : q # r /\ Subject[q] = u => stage[q] \notin Claiming
    BY <2>1, OneRunEach DEF PurgeStages
  <2>3. \A q \in Runs : q # r => stage'[q] = stage[q]
    BY SMTT(20), <1>1 DEF Decide, Succeed, GiveUp, End, Reach, IInv, TypeOK
  <2>4. CASE stage'[r] = "over" /\ UNCHANGED regained
              /\ (UNCHANGED refused \/ (SoleOwner(u) /\ refused' = refused \cup {u}))
    <3>1. Cleared' BY <2>2, <2>3, <2>4 DEF IInv, Cleared
    <3>2. SoleOwner(u) /\ u \in emptied => u \in regained
      <4>1. SoleOwner(u) => \E o \in Orgs : role[o][u] = "owner"
        BY <2>1 DEF SoleOwner, Owners
      <4>2. u \in emptied => u \in Leaving BY DEF Leaving
      <4> QED BY <4>1, <4>2 DEF IInv, Departing
    <3> QED BY <2>1, <2>4, <3>1, <3>2 DEF IInv, RefusedKeepsFiles
  <2>5. CASE refused' = refused \ {u} /\ regained' = regained \ {u}
    <3>1. Cleared' BY <2>1, <2>3, <2>5 DEF IInv, Cleared
    <3> QED BY <2>1, <2>5, <3>1 DEF IInv, RefusedKeepsFiles
  <2>6. End(r, "over") => stage'[r] = "over"
    BY DEF End, IInv, TypeOK
  <2>7. CASE End(r, "over") /\ UNCHANGED regained
             /\ (UNCHANGED refused \/ (SoleOwner(u) /\ refused' = refused \cup {u}))
    <3>1. stage'[r] = "over" BY <2>6, <2>7
    <3> QED BY <2>4, <2>7, <3>1
  <2>8. \/ End(r, "over") /\ UNCHANGED regained
             /\ (UNCHANGED refused \/ (SoleOwner(u) /\ refused' = refused \cup {u}))
        \/ refused' = refused \ {u} /\ regained' = regained \ {u}
    <3>1. \/ End(r, "over") /\ UNCHANGED <<refused, regained>>
          \/ End(r, "over") /\ UNCHANGED regained /\ SoleOwner(u) /\ refused' = refused \cup {u}
          \/ refused' = refused \ {u} /\ regained' = regained \ {u}
      BY <1>1 DEF Decide, Succeed, GiveUp
    <3>2. UNCHANGED <<refused, regained>> => UNCHANGED refused /\ UNCHANGED regained
      OBVIOUS
    <3> QED BY <3>1, <3>2
  <2> QED BY <2>5, <2>7, <2>8
<1>2. ASSUME NEW r \in Runs, PurgeStorage(r) PROVE Cleared' /\ RefusedKeepsFiles'
  <2>1. Subject[r] \notin refused BY <1>2 DEF PurgeStorage, IInv, Cleared
  <2>2. \A q \in Runs : stage'[q] \in Claiming => stage[q] \in Claiming
    BY <1>2 DEF PurgeStorage, Reach, IInv, TypeOK
  <2> QED BY <1>2, <2>1, <2>2 DEF PurgeStorage, IInv, Cleared, RefusedKeepsFiles
<1>3. ASSUME NEW r \in Runs, PurgeOrganizations(r) PROVE Cleared' /\ RefusedKeepsFiles'
  <2>1. \A q \in Runs : stage'[q] \in Claiming => stage[q] \in Claiming
    BY <1>3 DEF PurgeOrganizations, Reach, IInv, TypeOK
  <2> QED BY <1>3, <2>1 DEF PurgeOrganizations, IInv, Cleared, RefusedKeepsFiles
<1>4. ASSUME NEW r \in Runs, PurgeAuth(r) PROVE Cleared' /\ RefusedKeepsFiles'
  <2>1. \A q \in Runs : stage'[q] \in Claiming => stage[q] \in Claiming
    BY <1>4 DEF PurgeAuth, Reach, IInv, TypeOK
  <2> QED BY <1>4, <2>1 DEF PurgeAuth, IInv, Cleared, RefusedKeepsFiles
<1>5. ASSUME NEW r \in Runs, SendFarewell(r) \/ PurgeFails(r) \/ CrashRun(r) \/ Delivery(r)
      PROVE  Cleared' /\ RefusedKeepsFiles'
  <2>1. UNCHANGED <<refused, emptied, regained>>
    BY <1>5 DEF SendFarewell, PurgeFails, CrashRun, Delivery, Deliver, Skip, ClaimFails
  <2>2. \A q \in Runs : stage'[q] \in Claiming => stage[q] \in Claiming
    BY <1>5 DEF SendFarewell, Succeed, PurgeFails, GiveUp, CrashRun, Delivery, Deliver, Skip,
                ClaimFails, Reach, End, IInv, TypeOK
  <2> QED BY <2>1, <2>2 DEF IInv, Cleared, RefusedKeepsFiles
<1>6. ASSUME UNCHANGED <<stage, refused, emptied>>, regained \subseteq regained'
      PROVE  Cleared' /\ RefusedKeepsFiles'
  BY <1>6 DEF IInv, Cleared, RefusedKeepsFiles
<1>7. ASSUME NEW u \in Users, Meanwhile(u) \/ Request(u) \/ SweepRun(u)
      PROVE  UNCHANGED <<stage, refused, emptied>> /\ regained \subseteq regained'
  <2>1. CASE Meanwhile(u)
    BY <2>1 DEF Meanwhile, BeginUpload, EndUpload, CreateOrganization, LeaveOrganization,
                TransferOwnership
  <2>2. CASE Request(u)
    BY <2>2 DEF Request, RequestDeletion, EmitPurge, MarkRequested, RevokeSessions,
                CrashRequest
  <2>3. CASE SweepRun(u) BY <2>3 DEF SweepRun
  <2> QED BY <1>7, <2>1, <2>2, <2>3
<1>8. ASSUME UNCHANGED vars PROVE UNCHANGED <<stage, refused, emptied, regained>>
  BY <1>8 DEF vars
<1>9. \/ \E u \in Users : Meanwhile(u) \/ Request(u) \/ SweepRun(u)
      \/ \E r \in Runs : PurgeStep(r) \/ CrashRun(r) \/ Delivery(r)
      \/ UNCHANGED vars
  BY DEF Next
<1>10. CASE \E u \in Users : Meanwhile(u) \/ Request(u) \/ SweepRun(u)
  BY <1>6, <1>7, <1>10
<1>11. CASE \E r \in Runs : PurgeStep(r) \/ CrashRun(r) \/ Delivery(r)
  BY <1>1, <1>2, <1>3, <1>4, <1>5, <1>11 DEF PurgeStep
<1>12. CASE UNCHANGED vars BY <1>6, <1>8, <1>12
<1> QED BY <1>9, <1>10, <1>11, <1>12

THEOREM Inductive == Spec => []IInv
<1>1. IInv /\ [Next]_vars => IInv'
  BY TypesStep, LedgeredStep, PartingStep, DepartingStep, RefusalStep DEF IInv
<1> QED BY InitInductive, <1>1, PTL DEF Spec

-----------------------------------------------------------------------------

\* The types of the state, for every number of accounts and deliveries.
THEOREM DeletionTypes == Spec => []TypeOK
<1>1. IInv => TypeOK BY DEF IInv
<1> QED BY Inductive, <1>1, PTL

\* One farewell at most, and only for an account that is gone, however often
\* its purge is asked for, delivered, interrupted and tried again.
THEOREM FarewellsOnce == Spec => []FarewellOnce
<1>1. IInv => FarewellOnce
  <2> SUFFICES ASSUME IInv, NEW u \in Users
               PROVE  farewell[u] <= 1 /\ (farewell[u] = 1 => account[u] = "erased")
    BY DEF FarewellOnce
  <2>1. CASE farewell[u] = 0 BY <2>1
  <2>2. CASE farewell[u] # 0
    <3>1. farewell[u] = 1 /\ account[u] = "erased" BY <2>2 DEF IInv, Parting
    <3> QED BY <3>1
  <2> QED BY <2>1, <2>2
<1> QED BY Inductive, <1>1, PTL

\* No account is refused once its files are gone, unless it was made owner
\* again after it had left.
THEOREM RefusalsKeepFiles == Spec => []RefusedKeepsFiles
<1>1. IInv => RefusedKeepsFiles BY DEF IInv
<1> QED BY Inductive, <1>1, PTL

\* The purge asks nothing of the ledger but what JobRuns lets its users do.
THEOREM PurgeUsesLedger == Spec => Ledger!Spec
<1>1. Init => Ledger!Init BY DEF Init
<1>2. IInv /\ [Next]_vars => [Ledger!Next]_(Ledger!runs)
  <2> SUFFICES ASSUME IInv, [Next]_vars PROVE [Ledger!Next]_(Ledger!runs)
    OBVIOUS
  <2>1. \A r \in Runs : Subject[r] \in Users BY AccountDeletionAssumption
  <2>2. ASSUME NEW r \in Runs, Ends(r) PROVE Ledger!Next
    BY <2>1, <2>2 DEF Ends, Ledger!Next
  <2>3. ASSUME NEW r \in Runs, Starts(r) PROVE Ledger!Next
    BY <2>1, <2>3 DEF Starts, Ledger!Next
  <2>4. ASSUME UNCHANGED <<running, won>> PROVE UNCHANGED Ledger!runs
    BY <2>4 DEF Ledger!runs
  <2>5. ASSUME NEW u \in Users, Forgets(u) PROVE Ledger!Next
    BY <2>5 DEF Forgets, Ledger!Next
  <2> QED BY <2>2, <2>3, <2>4, <2>5, Moves DEF Goes, Rests
<1> QED BY Inductive, <1>1, <1>2, PTL DEF Spec, Ledger!Spec

-----------------------------------------------------------------------------
(***************************************************************************)
(* The dispatcher over the PostgreSQL ledger (JobDispatch).  Its promise   *)
(* alone is not inductive: that nobody else runs an emission follows from  *)
(* the row the runner wrote, and that the row stays follows from what the  *)
(* statements still on their way can do to it.                             *)
(***************************************************************************)

\* Who executes, or releases, holds the row of its emission.
Holding ==
    \A d \in Dispatches : pc[d] \in Executing \cup {"releasing"} => row[key[d]] = d

\* A row was written by a dispatcher of its own emission.
RowOwned == \A k \in Keys : row[k] # NoDispatch => key[row[k]] = k

\* An INSERT on its way has had no effect, and its dispatcher does not run.
Inserting ==
    \A d \in Dispatches : <<"insert", d>> \in wire =>
        /\ pc[d] \in {"claiming", "refused", "dead"}
        /\ \A k \in Keys : row[k] # d

\* A DELETE on its way removes the row of its own dispatcher, which has stopped running.
Deleting ==
    \A d \in Dispatches : <<"delete", d>> \in wire =>
        /\ pc[d] \in {"releasing", "failed", "dead"}
        /\ row[key[d]] = d

\* A dispatcher that has not started has left no trace, one that waits has a statement out.
Waiting ==
    \A d \in Dispatches :
        /\ pc[d] = "idle" => \A k \in Keys : row[k] # d
        /\ pc[d] = "claiming" => <<"insert", d>> \in wire
        /\ pc[d] = "releasing" => <<"delete", d>> \in wire

\* A remembered success still holds its row.
Winning == \A k \in Keys : kept[k] => row[k] # NoDispatch /\ pc[row[k]] = "done"

\* Only an attempt that is not the last one is retried.
Counting == \A d \in Dispatches : pc[d] = "backoff" => tries[d] < AttemptLimit

DispatchInv ==
    /\ DispatchTypeOK
    /\ Holding /\ RowOwned /\ Inserting /\ Deleting /\ Waiting /\ Winning /\ Counting

-----------------------------------------------------------------------------

\* The attempt limit is a positive natural number.
LEMMA LimitPositive == AttemptLimit \in Nat \ {0}
BY JobDispatchAssumption DEF JobDispatchAssumption, AttemptLimit

\* The strengthening holds initially: nothing is reserved, sent or started.
LEMMA InitDispatch == DispatchInit => DispatchInv
BY LimitPositive, JobDispatchAssumption
   DEF JobDispatchAssumption, DispatchInit, DispatchInv, DispatchTypeOK, Holding, RowOwned,
       Inserting, Deleting, Waiting, Winning,
       Counting, Executing, Pcs, Ended

\* Every step preserves the types.
LEMMA DispatchTypesStep == DispatchInv /\ [DispatchNext]_dispatchVars => DispatchTypeOK'
<1> SUFFICES ASSUME DispatchInv, [DispatchNext]_dispatchVars PROVE DispatchTypeOK'
  OBVIOUS
<1> USE LimitPositive DEF DispatchInv
<1>1. ASSUME NEW d \in Dispatches, Step(d) PROVE DispatchTypeOK'
  <2>1. CASE Claim(d)
    BY <2>1 DEF DispatchInv, Claim, Go, DispatchTypeOK, Pcs
  <2>2. CASE DbInsert(d)
    BY <2>2
       DEF DispatchInv, DbInsert, Go, DispatchTypeOK, Pcs, Executing, Ended
  <2>3. CASE RunSucceeds(d)
    BY <2>3 DEF DispatchInv, RunSucceeds, Go, DispatchTypeOK, Pcs, Ended
  <2>4. CASE RunFails(d)
    BY <2>4 DEF DispatchInv, RunFails, Go, DispatchTypeOK, Pcs, Executing
  <2>5. CASE Retry(d)
    BY <2>5
       DEF DispatchInv, Retry, Go, DispatchTypeOK, Pcs, Executing, Counting,
           NextTry
  <2>6. CASE DbDelete(d)
    BY <2>6 DEF DispatchInv, DbDelete, Go, DispatchTypeOK, Pcs, Ended
  <2>7. CASE StoreTimeout(d)
    BY <2>7
       DEF DispatchInv, StoreTimeout, AfterStoreFailure, Go, DispatchTypeOK, Pcs,
           Ended
  <2>8. CASE StoreError(d)
    BY <2>8
       DEF DispatchInv, StoreError, AfterStoreFailure, Go, DispatchTypeOK, Pcs,
           Ended
  <2>9. CASE Crash(d)
    BY <2>9 DEF DispatchInv, Crash, Go, DispatchTypeOK, Pcs, Ended
  <2> QED
    BY <1>1, <2>1, <2>2, <2>3, <2>4, <2>5, <2>6, <2>7, <2>8, <2>9 DEF Step
<1>2. ASSUME NEW k \in Keys, Sweep(k) PROVE DispatchTypeOK'
  BY <1>2 DEF DispatchInv, Sweep, DispatchTypeOK
<1>3. CASE UNCHANGED dispatchVars
  BY <1>3 DEF DispatchInv, dispatchVars, DispatchTypeOK
<1> QED
  BY <1>1, <1>2, <1>3 DEF DispatchNext

\* What the dispatchers believe about the ledger, without the types.
Beliefs == Holding /\ RowOwned /\ Inserting /\ Deleting /\ Waiting /\ Winning /\ Counting

\* Every step of a dispatcher or of its statements preserves those beliefs.
LEMMA DispatchStep ==
    ASSUME DispatchInv, NEW d \in Dispatches, Step(d)
    PROVE  Beliefs'
<1> USE JobDispatchAssumption
    DEF DispatchInv, JobDispatchAssumption, DispatchTypeOK, Beliefs, Holding, RowOwned,
        Inserting, Deleting, Waiting, Winning, Counting, Executing, Ended
<1>1. CASE Claim(d)
  <2>1. Holding' /\ RowOwned' /\ Winning' /\ Counting'
    BY <1>1 DEF Claim, Go
  <2>2. Inserting'
    <3>1. /\ pc'[d] = "claiming" /\ row' = row
          /\ \A e \in Dispatches : e # d => pc'[e] = pc[e]
          /\ \A e \in Dispatches : <<"insert", e>> \in wire' => e = d \/ <<"insert", e>> \in wire
      BY <1>1 DEF Claim, Go
    <3>2. \A k \in Keys : row[k] # d
      BY <1>1 DEF Claim
    <3> QED BY <3>1, <3>2
  <2>3. Deleting'
    BY <1>1 DEF Claim, Go
  <2>4. Waiting'
    BY <1>1 DEF Claim, Go
  <2> QED
    BY <2>1, <2>2, <2>3, <2>4
<1>2. CASE DbInsert(d)
  BY <1>2 DEF DbInsert, Go
<1>3. CASE RunSucceeds(d)
  BY <1>3 DEF RunSucceeds, Go
<1>4. CASE RunFails(d)
  BY <1>4 DEF RunFails, Go, Retryable
<1>5. CASE Retry(d)
  BY <1>5 DEF Retry, Go
<1>6. CASE DbDelete(d)
  BY <1>6 DEF DbDelete, Go
<1>7. CASE StoreTimeout(d)
  BY <1>7 DEF StoreTimeout, AfterStoreFailure, Go
<1>8. CASE StoreError(d)
  BY <1>8 DEF StoreError, AfterStoreFailure, Go
<1>9. CASE Crash(d)
  BY <1>9 DEF Crash, Go
<1> QED
  BY <1>1, <1>2, <1>3, <1>4, <1>5, <1>6, <1>7, <1>8, <1>9 DEF Step

\* So does the sweep of an aged row.
LEMMA SweepStep ==
    ASSUME DispatchInv, NEW k \in Keys, Sweep(k)
    PROVE  Beliefs'
BY JobDispatchAssumption
   DEF DispatchInv, JobDispatchAssumption, DispatchTypeOK, Beliefs, Holding, RowOwned,
       Inserting, Deleting, Waiting, Winning,
       Counting, Executing, Ended, Sweep, Aged

\* The strengthening is inductive.
LEMMA DispatchInvStep == DispatchInv /\ [DispatchNext]_dispatchVars => DispatchInv'
<1> SUFFICES ASSUME DispatchInv, [DispatchNext]_dispatchVars PROVE DispatchInv'
  OBVIOUS
<1>1. DispatchTypeOK'
  BY DispatchTypesStep
<1>2. CASE DispatchNext
  BY <1>1, <1>2, DispatchStep, SweepStep DEF DispatchNext, DispatchInv, Beliefs
<1>3. CASE UNCHANGED dispatchVars
  BY <1>1, <1>3
     DEF dispatchVars, DispatchInv, Holding, RowOwned, Inserting, Deleting, Waiting, Winning, Counting
<1> QED
  BY <1>2, <1>3

\* The strengthening is an invariant.
LEMMA DispatchInductive == DispatchSpec => []DispatchInv
BY InitDispatch, DispatchInvStep, PTL DEF DispatchSpec

\* The types of the dispatcher, for every set of emissions and deliveries.
THEOREM DispatchTypes == DispatchSpec => []DispatchTypeOK
<1>1. DispatchInv => DispatchTypeOK
  BY DEF DispatchInv
<1> QED
  BY <1>1, DispatchInductive, PTL

-----------------------------------------------------------------------------

\* A step that moves no dispatch in or out of a run is a stuttering step of the promise.
LEMMA Unnoticed ==
    ASSUME key' = key, kept' = kept,
           \A d \in Dispatches : pc'[d] \in Executing <=> pc[d] \in Executing
    PROVE  UNCHANGED Promise!runs
<1>1. Runners' = Runners
  BY DEF Runners
<1> QED
  BY <1>1 DEF Promise!runs

\* The emission of a dispatch that starts is run by nobody and was not won: its row was
\* free, and whoever runs or has won it would hold that row.
LEMMA InsertImplements ==
    ASSUME DispatchInv, NEW d \in Dispatches, DbInsert(d)
    PROVE  [Promise!Next]_(Promise!runs)
<1> USE JobDispatchAssumption DEF DispatchInv, JobDispatchAssumption, DispatchTypeOK
<1>1. CASE pc[d] = "claiming" /\ row[key[d]] = NoDispatch
  <2>1. ~ kept[key[d]]
    BY <1>1 DEF Winning
  <2>2. \A e \in Dispatches : pc[e] \in Executing => key[e] # key[d]
    BY <1>1 DEF Holding
  <2>3. Runners[key[d]] = {}
    BY <2>2 DEF Runners
  <2>4. Runners' = [Runners EXCEPT ![key[d]] = {d}]
    <3>1. pc[d] \notin Executing /\ pc' = [pc EXCEPT ![d] = "running"] /\ key' = key
      BY <1>1 DEF DbInsert, Go, Executing
    <3>2. \A e \in Dispatches : pc'[e] \in Executing <=> e = d \/ pc[e] \in Executing
      BY <3>1 DEF Executing
    <3>3. \A k \in Keys : Runners'[k] = IF k = key[d] THEN {d} ELSE Runners[k]
      BY <2>2, <3>1, <3>2 DEF Runners
    <3> QED
      BY <3>3 DEF Runners
  <2>5. Promise!Start(d, key[d])
    BY <2>1, <2>3, <2>4 DEF Promise!Start, DbInsert
  <2> QED
    BY <2>5 DEF Promise!Next
<1>2. CASE ~ (pc[d] = "claiming" /\ row[key[d]] = NoDispatch)
  <2>1. \A e \in Dispatches : pc'[e] \in Executing <=> pc[e] \in Executing
    BY <1>2 DEF DbInsert, Go, Executing
  <2> QED
    BY <2>1, Unnoticed DEF DbInsert
<1> QED
  BY <1>1, <1>2

\* A dispatch that leaves its run leaves the runners of its emission, and no other.
LEMMA LeavingRun ==
    ASSUME DispatchInv, NEW d \in Dispatches, pc[d] \in Executing, key' = key,
           NEW p \in Pcs \ Executing, pc' = [pc EXCEPT ![d] = p]
    PROVE  /\ d \in Runners[key[d]]
           /\ Runners' = [Runners EXCEPT ![key[d]] = @ \ {d}]
<1> USE DEF DispatchInv, DispatchTypeOK
<1>1. \A k \in Keys :
         Runners'[k] = IF k = key[d] THEN Runners[k] \ {d} ELSE Runners[k]
  BY DEF Runners
<1>2. Runners' = [Runners EXCEPT ![key[d]] = @ \ {d}]
  BY <1>1 DEF Runners
<1> QED
  BY <1>2 DEF Runners

\* Every step of a dispatcher is a step of the promise, or one it does not see.
LEMMA DispatchImplements ==
    ASSUME DispatchInv, NEW d \in Dispatches, Step(d)
    PROVE  [Promise!Next]_(Promise!runs)
<1> USE DEF DispatchInv, DispatchTypeOK
<1>1. CASE DbInsert(d)
  BY <1>1, InsertImplements
<1>2. CASE RunSucceeds(d)
  <2>1. Promise!Succeed(d, key[d])
    BY <1>2, LeavingRun
       DEF RunSucceeds, Go, Promise!Succeed, Executing, Ended, Pcs
  <2> QED
    BY <2>1 DEF Promise!Next
<1>3. CASE RunFails(d)
  <2>1. CASE Go(d, "backoff")
    <3>1. \A e \in Dispatches : pc'[e] \in Executing <=> pc[e] \in Executing
      BY <1>3, <2>1 DEF RunFails, Go, Executing
    <3> QED
      BY <1>3, <3>1, Unnoticed DEF RunFails
  <2>2. CASE Go(d, "releasing")
    <3>1. Promise!Stop(d, key[d])
      BY <1>3, <2>2, LeavingRun
         DEF RunFails, Go, Promise!Stop, Executing, Ended, Pcs
    <3> QED
      BY <3>1 DEF Promise!Next
  <2> QED
    BY <1>3, <2>1, <2>2 DEF RunFails
<1>4. CASE Crash(d)
  <2>1. CASE pc[d] \in Executing
    <3>1. Promise!Stop(d, key[d])
      BY <1>4, <2>1, LeavingRun
         DEF Crash, Go, Promise!Stop, Executing, Ended, Pcs
    <3> QED
      BY <3>1 DEF Promise!Next
  <2>2. CASE pc[d] \notin Executing
    <3>1. \A e \in Dispatches : pc'[e] \in Executing <=> pc[e] \in Executing
      BY <1>4, <2>2 DEF Crash, Go, Executing
    <3> QED
      BY <1>4, <3>1, Unnoticed DEF Crash
  <2> QED
    BY <2>1, <2>2
<1>5. CASE \/ Claim(d) \/ Retry(d) \/ DbDelete(d)
           \/ StoreTimeout(d) \/ StoreError(d)
  <2>1. \A e \in Dispatches : pc'[e] \in Executing <=> pc[e] \in Executing
    BY <1>5
       DEF Claim, Retry, DbDelete, StoreTimeout, StoreError,
           AfterStoreFailure, Go,
                Executing, Ended
  <2>2. key' = key /\ kept' = kept
    BY <1>5 DEF Claim, Retry, DbDelete, StoreTimeout, StoreError
  <2> QED
    BY <2>1, <2>2, Unnoticed
<1> QED
  BY <1>1, <1>2, <1>3, <1>4, <1>5 DEF Step

\* A sweep forgets a success, or is not seen: the row it removes has no runner.
LEMMA SweepImplements ==
    ASSUME DispatchInv, NEW k \in Keys, Sweep(k)
    PROVE  [Promise!Next]_(Promise!runs)
<1> USE DEF DispatchInv, DispatchTypeOK
<1>1. Runners' = Runners /\ Runners[k] = {}
  BY DEF Runners, Sweep, Aged
<1>2. CASE kept[k]
  BY <1>1, <1>2 DEF Sweep, Promise!Forget, Promise!Next
<1>3. CASE ~ kept[k]
  <2>1. kept' = kept
    BY <1>3 DEF Sweep
  <2> QED
    BY <1>1, <2>1 DEF Promise!runs
<1> QED
  BY <1>2, <1>3

\* JobRuns is implemented by the dispatcher over the ledger: for every set of emissions and
\* of deliveries, with statements that execute late, crashes and sweeps, no emission is
\* executed by two dispatchers at once, nor again after a success still remembered.
THEOREM DispatchKeepsItsPromise == DispatchSpec => OneRunAtATime
<1>1. DispatchInit => Promise!Init
  BY DEF DispatchInit, Promise!Init, Runners, Executing
<1>2. DispatchInv /\ [DispatchNext]_dispatchVars => [Promise!Next]_(Promise!runs)
  <2> SUFFICES ASSUME DispatchInv, [DispatchNext]_dispatchVars
               PROVE  [Promise!Next]_(Promise!runs)
    OBVIOUS
  <2>1. CASE DispatchNext
    BY <2>1, DispatchImplements, SweepImplements DEF DispatchNext
  <2>2. CASE UNCHANGED dispatchVars
    BY <2>2, Unnoticed DEF dispatchVars
  <2> QED
    BY <2>1, <2>2
<1> QED
  BY <1>1, <1>2, DispatchInductive, PTL DEF DispatchSpec, OneRunAtATime, Promise!Spec
=============================================================================
