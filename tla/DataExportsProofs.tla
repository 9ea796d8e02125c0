-------------------------- MODULE DataExportsProofs --------------------------
(***************************************************************************)
(* What DataExports promises for every set of requests, scopes and         *)
(* executions.                                                             *)
(*                                                                         *)
(* That a scope has one pending request rests on the lock of the claim:    *)
(* between the read that finds none and the insert, nobody else inserts.   *)
(* That a link has its archive rests on what an execution knows: what it   *)
(* builds was claimed, and is no longer pending once it mails.             *)
(***************************************************************************)
EXTENDS DataExports, TLAPS, FiniteSetTheorems

\* A claim under way holds the lock of its scope.
Claiming ==
  \A r \in Requests : asker[r] \in {"read", "insert"} => lock[ScopeOf[r]] = r

\* What is built was claimed; what is mailed is past its outcome.
Building ==
  /\ \A r \in Requests :
       /\ asker[r] \in {"authorize", "lock", "read", "insert"} => status[r] = "none"
       /\ asker[r] \in {"emit", "close"} => status[r] # "none"
  /\ \A r \in queue : status[r] # "none"
  /\ \A b \in Builders :
       /\ \A r \in builder[b].todo : status[r] # "none"
       /\ builder[b].pc \in {"find", "collect", "ready", "failed", "mail"}
            => builder[b].r \in Requests /\ status[builder[b].r] # "none"
       /\ builder[b].pc = "mail" => status[builder[b].r] # "pending"
  /\ \A r \in mailed : status[r] # "none"

\* One request of a scope is pending, and none while another is inserted.
Alone ==
  /\ \A r, q \in Requests :
       status[r] = "pending" /\ status[q] = "pending" /\ ScopeOf[r] = ScopeOf[q] => r = q
  /\ \A r, q \in Requests :
       asker[r] = "insert" /\ ScopeOf[q] = ScopeOf[r] => status[q] # "pending"

IInv == TypeOK /\ Claiming /\ Building /\ Alone /\ LinkLives /\ LinkAfterOutcome

-----------------------------------------------------------------------------

\* Nothing is asked at first.
LEMMA InitInductive == Init => IInv
BY ExportAssumption
   DEF Init, IInv, TypeOK, Claiming, Building, Alone, LinkLives, LinkAfterOutcome, Clock, Builders,
       Free, Execution, Executions

\* Every step preserves the types.
LEMMA TypesStep == IInv /\ [Next]_vars => TypeOK'
<1> SUFFICES ASSUME IInv, [Next]_vars PROVE TypeOK'
  OBVIOUS
<1> USE ExportAssumption DEF row, WorldUnchanged, AskersUnchanged, BuildersUnchanged, At, Turn, Done,
          Free, Execution, Executions, Asks
<1>1. ASSUME Tick PROVE TypeOK'
  BY <1>1 DEF IInv, TypeOK, Clock, Builders, Claiming, Building, Tick
<1>2. ASSUME SweepForget PROVE TypeOK'
  BY <1>2 DEF IInv, TypeOK, Clock, Builders, Claiming, Building, SweepForget, Forget
<1>3. ASSUME SweepList PROVE TypeOK'
  BY <1>3 DEF IInv, TypeOK, Clock, Builders, Claiming, Building, SweepList, Stale
<1>4. ASSUME SweepNext PROVE TypeOK'
  BY <1>4 DEF IInv, TypeOK, Clock, Builders, Claiming, Building, SweepNext
<1>5. ASSUME NEW r \in Requests, Authorize(r) PROVE TypeOK'
  BY <1>5 DEF IInv, TypeOK, Clock, Builders, Claiming, Building, Authorize, Forget
<1>6. ASSUME NEW r \in Requests, ClaimLock(r) PROVE TypeOK'
  BY <1>6 DEF IInv, TypeOK, Clock, Builders, Claiming, Building, ClaimLock
<1>7. ASSUME NEW r \in Requests, ClaimRead(r) PROVE TypeOK'
  BY <1>7 DEF IInv, TypeOK, Clock, Builders, Claiming, Building, ClaimRead, Unlock, Pending
<1>8. ASSUME NEW r \in Requests, ClaimInsert(r) PROVE TypeOK'
  BY <1>8 DEF IInv, TypeOK, Clock, Builders, Claiming, Building, ClaimInsert, Unlock
<1>9. ASSUME NEW r \in Requests, EmitAccepted(r) PROVE TypeOK'
  BY <1>9 DEF IInv, TypeOK, Clock, Builders, Claiming, Building, EmitAccepted
<1>10. ASSUME NEW r \in Requests, EmitRefused(r) PROVE TypeOK'
  BY <1>10 DEF IInv, TypeOK, Clock, Builders, Claiming, Building, EmitRefused
<1>11. ASSUME NEW r \in Requests, CloseRequest(r) PROVE TypeOK'
  BY <1>11 DEF IInv, TypeOK, Clock, Builders, Claiming, Building, CloseRequest, MarkFailed
<1>12. ASSUME NEW r \in Requests, AskerDies(r) PROVE TypeOK'
  BY <1>12 DEF IInv, TypeOK, Clock, Builders, Claiming, Building, AskerDies, Unlock
<1>13. ASSUME NEW r \in Requests, NEW b \in Workers, Deliver(b, r) PROVE TypeOK'
  BY <1>13 DEF IInv, TypeOK, Clock, Builders, Claiming, Building, Deliver
<1>14. ASSUME NEW b \in Builders, FindRequest(b) PROVE TypeOK'
  BY <1>14 DEF IInv, TypeOK, Clock, Builders, Claiming, Building, FindRequest
<1>15. ASSUME NEW b \in Builders, Collect(b) PROVE TypeOK'
  BY <1>15 DEF IInv, TypeOK, Clock, Builders, Claiming, Building, Collect
<1>16. ASSUME NEW b \in Builders, BuildFailed(b) PROVE TypeOK'
  BY <1>16 DEF IInv, TypeOK, Clock, Builders, Claiming, Building, BuildFailed, MarkFailed
<1>17. ASSUME NEW b \in Builders, BuildReady(b) PROVE TypeOK'
  <2>1. builder[b].r \in Requests /\ builder[b].at \in Clock
    BY <1>17 DEF IInv, TypeOK, Building, BuildReady
  <2>2. expires' \in [Requests -> 0..(MaxClock + Ttl)]
    <3>1. builder[b].at + Ttl \in 0..(MaxClock + Ttl) BY <2>1 DEF Clock
    <3> QED BY <1>17, <2>1, <3>1 DEF IInv, TypeOK, BuildReady, MarkReady
  <2>3. /\ status' \in [Requests -> {"none", "pending", "ready", "failed", "gone"}]
        /\ archive' \in [Requests -> BOOLEAN]
    BY ZenonT(40), <1>17, <2>1 DEF IInv, TypeOK, BuildReady, MarkReady
  <2>4. builder' \in [Builders -> Executions]
    BY <1>17, <2>1 DEF IInv, TypeOK, BuildReady, Clock
  <2> QED BY <1>17, <2>2, <2>3, <2>4 DEF IInv, TypeOK, BuildReady
<1>18. ASSUME NEW b \in Builders, SendLink(b) PROVE TypeOK'
  BY <1>18 DEF IInv, TypeOK, Clock, Builders, Claiming, Building, SendLink
<1>19. ASSUME NEW b \in Builders, BuilderDies(b) PROVE TypeOK'
  BY <1>19 DEF IInv, TypeOK, Clock, Builders, Claiming, Building, BuilderDies
<1>20. ASSUME NEW s \in Scopes, PurgeScope(s) PROVE TypeOK'
  BY <1>20 DEF IInv, TypeOK, Clock, Builders, Claiming, Building, PurgeScope
<1>21. CASE UNCHANGED vars
  BY <1>21 DEF vars, IInv, TypeOK, Clock, Builders, Claiming, Building
<1> QED
  BY <1>1, <1>2, <1>3, <1>4, <1>5, <1>6, <1>7, <1>8, <1>9, <1>10, <1>11, <1>12, <1>13, <1>14, <1>15, <1>16, <1>17, <1>18, <1>19, <1>20, <1>21
     DEF Next, Ask, Sweep, Build

\* The lock is taken before the read and left with the insert.
LEMMA ClaimingStep == IInv /\ [Next]_vars => Claiming'
<1> SUFFICES ASSUME IInv, [Next]_vars PROVE Claiming'
  OBVIOUS
<1> USE ExportAssumption DEF row, WorldUnchanged, AskersUnchanged, BuildersUnchanged, At, Turn, Done,
          Free, Execution, Executions, Asks
<1>1. ASSUME Tick PROVE Claiming'
  BY <1>1 DEF IInv, TypeOK, Claiming, Tick
<1>2. ASSUME SweepForget PROVE Claiming'
  BY <1>2 DEF IInv, TypeOK, Claiming, SweepForget, Forget
<1>3. ASSUME SweepList PROVE Claiming'
  BY <1>3 DEF IInv, TypeOK, Claiming, SweepList, Stale
<1>4. ASSUME SweepNext PROVE Claiming'
  BY <1>4 DEF IInv, TypeOK, Claiming, SweepNext
<1>5. ASSUME NEW r \in Requests, Authorize(r) PROVE Claiming'
  BY <1>5 DEF IInv, TypeOK, Claiming, Authorize, Forget
<1>6. ASSUME NEW r \in Requests, ClaimLock(r) PROVE Claiming'
  BY <1>6 DEF IInv, TypeOK, Claiming, ClaimLock
<1>7. ASSUME NEW r \in Requests, ClaimRead(r) PROVE Claiming'
  BY <1>7 DEF IInv, TypeOK, Claiming, ClaimRead, Unlock, Pending
<1>8. ASSUME NEW r \in Requests, ClaimInsert(r) PROVE Claiming'
  BY <1>8 DEF IInv, TypeOK, Claiming, ClaimInsert, Unlock
<1>9. ASSUME NEW r \in Requests, EmitAccepted(r) PROVE Claiming'
  BY <1>9 DEF IInv, TypeOK, Claiming, EmitAccepted
<1>10. ASSUME NEW r \in Requests, EmitRefused(r) PROVE Claiming'
  BY <1>10 DEF IInv, TypeOK, Claiming, EmitRefused
<1>11. ASSUME NEW r \in Requests, CloseRequest(r) PROVE Claiming'
  BY <1>11 DEF IInv, TypeOK, Claiming, CloseRequest, MarkFailed
<1>12. ASSUME NEW r \in Requests, AskerDies(r) PROVE Claiming'
  BY <1>12 DEF IInv, TypeOK, Claiming, AskerDies, Unlock
<1>13. ASSUME NEW r \in Requests, NEW b \in Workers, Deliver(b, r) PROVE Claiming'
  BY <1>13 DEF IInv, TypeOK, Claiming, Deliver
<1>14. ASSUME NEW b \in Builders, FindRequest(b) PROVE Claiming'
  BY <1>14 DEF IInv, TypeOK, Claiming, FindRequest
<1>15. ASSUME NEW b \in Builders, Collect(b) PROVE Claiming'
  BY <1>15 DEF IInv, TypeOK, Claiming, Collect
<1>16. ASSUME NEW b \in Builders, BuildFailed(b) PROVE Claiming'
  BY <1>16 DEF IInv, TypeOK, Claiming, BuildFailed, MarkFailed
<1>17. ASSUME NEW b \in Builders, BuildReady(b) PROVE Claiming'
  BY <1>17 DEF IInv, TypeOK, Claiming, BuildReady, MarkReady
<1>18. ASSUME NEW b \in Builders, SendLink(b) PROVE Claiming'
  BY <1>18 DEF IInv, TypeOK, Claiming, SendLink
<1>19. ASSUME NEW b \in Builders, BuilderDies(b) PROVE Claiming'
  BY <1>19 DEF IInv, TypeOK, Claiming, BuilderDies
<1>20. ASSUME NEW s \in Scopes, PurgeScope(s) PROVE Claiming'
  BY <1>20 DEF IInv, TypeOK, Claiming, PurgeScope
<1>21. CASE UNCHANGED vars
  BY <1>21 DEF vars, IInv, TypeOK, Claiming
<1> QED
  BY <1>1, <1>2, <1>3, <1>4, <1>5, <1>6, <1>7, <1>8, <1>9, <1>10, <1>11, <1>12, <1>13, <1>14, <1>15, <1>16, <1>17, <1>18, <1>19, <1>20, <1>21
     DEF Next, Ask, Sweep, Build

\* What was claimed stays claimed.
LEMMA BuildingStep == IInv /\ [Next]_vars => Building'
<1> SUFFICES ASSUME IInv, [Next]_vars PROVE Building'
  OBVIOUS
<1> USE ExportAssumption DEF row, WorldUnchanged, AskersUnchanged, BuildersUnchanged, At, Turn, Done,
          Free, Execution, Executions, Asks
<1>1. ASSUME Tick PROVE Building'
  BY <1>1 DEF IInv, TypeOK, Building, Tick
<1>2. ASSUME SweepForget PROVE Building'
  BY <1>2 DEF IInv, TypeOK, Building, SweepForget, Forget
<1>3. ASSUME SweepList PROVE Building'
  BY <1>3 DEF IInv, TypeOK, Building, SweepList, Stale
<1>4. ASSUME SweepNext PROVE Building'
  BY <1>4 DEF IInv, TypeOK, Building, SweepNext
<1>5. ASSUME NEW r \in Requests, Authorize(r) PROVE Building'
  BY <1>5 DEF IInv, TypeOK, Building, Authorize, Forget
<1>6. ASSUME NEW r \in Requests, ClaimLock(r) PROVE Building'
  BY <1>6 DEF IInv, TypeOK, Building, ClaimLock
<1>7. ASSUME NEW r \in Requests, ClaimRead(r) PROVE Building'
  BY <1>7 DEF IInv, TypeOK, Building, ClaimRead, Unlock, Pending
<1>8. ASSUME NEW r \in Requests, ClaimInsert(r) PROVE Building'
  BY <1>8 DEF IInv, TypeOK, Building, ClaimInsert, Unlock
<1>9. ASSUME NEW r \in Requests, EmitAccepted(r) PROVE Building'
  BY <1>9 DEF IInv, TypeOK, Building, EmitAccepted
<1>10. ASSUME NEW r \in Requests, EmitRefused(r) PROVE Building'
  BY <1>10 DEF IInv, TypeOK, Building, EmitRefused
<1>11. ASSUME NEW r \in Requests, CloseRequest(r) PROVE Building'
  BY <1>11 DEF IInv, TypeOK, Building, CloseRequest, MarkFailed
<1>12. ASSUME NEW r \in Requests, AskerDies(r) PROVE Building'
  BY <1>12 DEF IInv, TypeOK, Building, AskerDies, Unlock
<1>13. ASSUME NEW r \in Requests, NEW b \in Workers, Deliver(b, r) PROVE Building'
  BY <1>13 DEF IInv, TypeOK, Building, Deliver
<1>14. ASSUME NEW b \in Builders, FindRequest(b) PROVE Building'
  BY <1>14 DEF IInv, TypeOK, Building, FindRequest
<1>15. ASSUME NEW b \in Builders, Collect(b) PROVE Building'
  <2>1. builder[b].pc = "collect" /\ status' = status /\ UNCHANGED <<asker, queue, mailed>>
    BY <1>15 DEF Collect
  <2>2. \A c \in Builders : c # b => builder'[c] = builder[c]
    BY <1>15 DEF IInv, TypeOK, Collect
  <2>3. /\ builder'[b].r = builder[b].r /\ builder'[b].todo = builder[b].todo
        /\ builder'[b].pc \in {"ready", "failed"}
    BY <1>15 DEF IInv, TypeOK, Collect
  <2> QED BY <2>1, <2>2, <2>3 DEF IInv, Building
<1>16. ASSUME NEW b \in Builders, BuildFailed(b) PROVE Building'
  BY <1>16 DEF IInv, TypeOK, Building, BuildFailed, MarkFailed
<1>17. ASSUME NEW b \in Builders, BuildReady(b) PROVE Building'
  BY <1>17 DEF IInv, TypeOK, Building, BuildReady, MarkReady
<1>18. ASSUME NEW b \in Builders, SendLink(b) PROVE Building'
  BY <1>18 DEF IInv, TypeOK, Building, SendLink
<1>19. ASSUME NEW b \in Builders, BuilderDies(b) PROVE Building'
  BY <1>19 DEF IInv, TypeOK, Building, BuilderDies
<1>20. ASSUME NEW s \in Scopes, PurgeScope(s) PROVE Building'
  BY <1>20 DEF IInv, TypeOK, Building, PurgeScope
<1>21. CASE UNCHANGED vars
  BY <1>21 DEF vars, IInv, TypeOK, Building
<1> QED
  BY <1>1, <1>2, <1>3, <1>4, <1>5, <1>6, <1>7, <1>8, <1>9, <1>10, <1>11, <1>12, <1>13, <1>14, <1>15, <1>16, <1>17, <1>18, <1>19, <1>20, <1>21
     DEF Next, Ask, Sweep, Build

\* The insert follows a read that found nothing, under the lock.
LEMMA AloneStep == IInv /\ [Next]_vars => Alone'
<1> SUFFICES ASSUME IInv, [Next]_vars PROVE Alone'
  OBVIOUS
<1> USE ExportAssumption DEF row, WorldUnchanged, AskersUnchanged, BuildersUnchanged, At, Turn, Done,
          Free, Execution, Executions, Asks
<1>1. ASSUME Tick PROVE Alone'
  BY <1>1 DEF IInv, TypeOK, Claiming, Building, Alone, Pending, Tick
<1>2. ASSUME SweepForget PROVE Alone'
  BY <1>2 DEF IInv, TypeOK, Claiming, Building, Alone, Pending, SweepForget, Forget
<1>3. ASSUME SweepList PROVE Alone'
  BY <1>3 DEF IInv, TypeOK, Claiming, Building, Alone, Pending, SweepList, Stale
<1>4. ASSUME SweepNext PROVE Alone'
  BY <1>4 DEF IInv, TypeOK, Claiming, Building, Alone, Pending, SweepNext
<1>5. ASSUME NEW r \in Requests, Authorize(r) PROVE Alone'
  BY <1>5 DEF IInv, TypeOK, Claiming, Building, Alone, Pending, Authorize, Forget
<1>6. ASSUME NEW r \in Requests, ClaimLock(r) PROVE Alone'
  BY <1>6 DEF IInv, TypeOK, Claiming, Building, Alone, Pending, ClaimLock
<1>7. ASSUME NEW r \in Requests, ClaimRead(r) PROVE Alone'
  BY <1>7 DEF IInv, TypeOK, Claiming, Building, Alone, Pending, ClaimRead, Unlock, Pending
<1>8. ASSUME NEW r \in Requests, ClaimInsert(r) PROVE Alone'
  BY <1>8 DEF IInv, TypeOK, Claiming, Building, Alone, Pending, ClaimInsert, Unlock
<1>9. ASSUME NEW r \in Requests, EmitAccepted(r) PROVE Alone'
  BY <1>9 DEF IInv, TypeOK, Claiming, Building, Alone, Pending, EmitAccepted
<1>10. ASSUME NEW r \in Requests, EmitRefused(r) PROVE Alone'
  BY <1>10 DEF IInv, TypeOK, Claiming, Building, Alone, Pending, EmitRefused
<1>11. ASSUME NEW r \in Requests, CloseRequest(r) PROVE Alone'
  BY <1>11 DEF IInv, TypeOK, Claiming, Building, Alone, Pending, CloseRequest, MarkFailed
<1>12. ASSUME NEW r \in Requests, AskerDies(r) PROVE Alone'
  BY <1>12 DEF IInv, TypeOK, Claiming, Building, Alone, Pending, AskerDies, Unlock
<1>13. ASSUME NEW r \in Requests, NEW b \in Workers, Deliver(b, r) PROVE Alone'
  BY <1>13 DEF IInv, TypeOK, Claiming, Building, Alone, Pending, Deliver
<1>14. ASSUME NEW b \in Builders, FindRequest(b) PROVE Alone'
  BY <1>14 DEF IInv, TypeOK, Claiming, Building, Alone, Pending, FindRequest
<1>15. ASSUME NEW b \in Builders, Collect(b) PROVE Alone'
  BY <1>15 DEF IInv, TypeOK, Claiming, Building, Alone, Pending, Collect
<1>16. ASSUME NEW b \in Builders, BuildFailed(b) PROVE Alone'
  BY <1>16 DEF IInv, TypeOK, Claiming, Building, Alone, Pending, BuildFailed, MarkFailed
<1>17. ASSUME NEW b \in Builders, BuildReady(b) PROVE Alone'
  BY <1>17 DEF IInv, TypeOK, Claiming, Building, Alone, Pending, BuildReady, MarkReady
<1>18. ASSUME NEW b \in Builders, SendLink(b) PROVE Alone'
  BY <1>18 DEF IInv, TypeOK, Claiming, Building, Alone, Pending, SendLink
<1>19. ASSUME NEW b \in Builders, BuilderDies(b) PROVE Alone'
  BY <1>19 DEF IInv, TypeOK, Claiming, Building, Alone, Pending, BuilderDies
<1>20. ASSUME NEW s \in Scopes, PurgeScope(s) PROVE Alone'
  BY <1>20 DEF IInv, TypeOK, Claiming, Building, Alone, Pending, PurgeScope
<1>21. CASE UNCHANGED vars
  BY <1>21 DEF vars, IInv, TypeOK, Claiming, Building, Alone, Pending
<1> QED
  BY <1>1, <1>2, <1>3, <1>4, <1>5, <1>6, <1>7, <1>8, <1>9, <1>10, <1>11, <1>12, <1>13, <1>14, <1>15, <1>16, <1>17, <1>18, <1>19, <1>20, <1>21
     DEF Next, Ask, Sweep, Build

\* An archive that is not due is kept.
LEMMA LinkLivesStep == IInv /\ [Next]_vars => LinkLives'
<1> SUFFICES ASSUME IInv, [Next]_vars PROVE LinkLives'
  OBVIOUS
<1> USE ExportAssumption DEF row, WorldUnchanged, AskersUnchanged, BuildersUnchanged, At, Turn, Done,
          Free, Execution, Executions, Asks
<1>1. ASSUME Tick PROVE LinkLives'
  BY <1>1 DEF IInv, TypeOK, Clock, Building, LinkLives, LinkAfterOutcome, Tick
<1>2. ASSUME SweepForget PROVE LinkLives'
  BY <1>2 DEF IInv, TypeOK, Clock, Building, LinkLives, LinkAfterOutcome, SweepForget, Forget
<1>3. ASSUME SweepList PROVE LinkLives'
  BY <1>3 DEF IInv, TypeOK, Clock, Building, LinkLives, LinkAfterOutcome, SweepList, Stale
<1>4. ASSUME SweepNext PROVE LinkLives'
  BY <1>4 DEF IInv, TypeOK, Clock, Building, LinkLives, LinkAfterOutcome, SweepNext
<1>5. ASSUME NEW r \in Requests, Authorize(r) PROVE LinkLives'
  BY <1>5 DEF IInv, TypeOK, Clock, Building, LinkLives, LinkAfterOutcome, Authorize, Forget
<1>6. ASSUME NEW r \in Requests, ClaimLock(r) PROVE LinkLives'
  BY <1>6 DEF IInv, TypeOK, Clock, Building, LinkLives, LinkAfterOutcome, ClaimLock
<1>7. ASSUME NEW r \in Requests, ClaimRead(r) PROVE LinkLives'
  BY <1>7 DEF IInv, TypeOK, Clock, Building, LinkLives, LinkAfterOutcome, ClaimRead, Unlock, Pending
<1>8. ASSUME NEW r \in Requests, ClaimInsert(r) PROVE LinkLives'
  BY <1>8 DEF IInv, TypeOK, Clock, Building, LinkLives, LinkAfterOutcome, ClaimInsert, Unlock
<1>9. ASSUME NEW r \in Requests, EmitAccepted(r) PROVE LinkLives'
  BY <1>9 DEF IInv, TypeOK, Clock, Building, LinkLives, LinkAfterOutcome, EmitAccepted
<1>10. ASSUME NEW r \in Requests, EmitRefused(r) PROVE LinkLives'
  BY <1>10 DEF IInv, TypeOK, Clock, Building, LinkLives, LinkAfterOutcome, EmitRefused
<1>11. ASSUME NEW r \in Requests, CloseRequest(r) PROVE LinkLives'
  BY <1>11 DEF IInv, TypeOK, Clock, Building, LinkLives, LinkAfterOutcome, CloseRequest, MarkFailed
<1>12. ASSUME NEW r \in Requests, AskerDies(r) PROVE LinkLives'
  BY <1>12 DEF IInv, TypeOK, Clock, Building, LinkLives, LinkAfterOutcome, AskerDies, Unlock
<1>13. ASSUME NEW r \in Requests, NEW b \in Workers, Deliver(b, r) PROVE LinkLives'
  BY <1>13 DEF IInv, TypeOK, Clock, Building, LinkLives, LinkAfterOutcome, Deliver
<1>14. ASSUME NEW b \in Builders, FindRequest(b) PROVE LinkLives'
  BY <1>14 DEF IInv, TypeOK, Clock, Building, LinkLives, LinkAfterOutcome, FindRequest
<1>15. ASSUME NEW b \in Builders, Collect(b) PROVE LinkLives'
  BY <1>15 DEF IInv, TypeOK, Clock, Building, LinkLives, LinkAfterOutcome, Collect
<1>16. ASSUME NEW b \in Builders, BuildFailed(b) PROVE LinkLives'
  BY <1>16 DEF IInv, TypeOK, Clock, Building, LinkLives, LinkAfterOutcome, BuildFailed, MarkFailed
<1>17. ASSUME NEW b \in Builders, BuildReady(b) PROVE LinkLives'
  BY <1>17 DEF IInv, TypeOK, Clock, Building, LinkLives, LinkAfterOutcome, BuildReady, MarkReady
<1>18. ASSUME NEW b \in Builders, SendLink(b) PROVE LinkLives'
  BY <1>18 DEF IInv, TypeOK, Clock, Building, LinkLives, LinkAfterOutcome, SendLink
<1>19. ASSUME NEW b \in Builders, BuilderDies(b) PROVE LinkLives'
  BY <1>19 DEF IInv, TypeOK, Clock, Building, LinkLives, LinkAfterOutcome, BuilderDies
<1>20. ASSUME NEW s \in Scopes, PurgeScope(s) PROVE LinkLives'
  BY <1>20 DEF IInv, TypeOK, Clock, Building, LinkLives, LinkAfterOutcome, PurgeScope
<1>21. CASE UNCHANGED vars
  BY <1>21 DEF vars, IInv, TypeOK, Clock, Building, LinkLives, LinkAfterOutcome
<1> QED
  BY <1>1, <1>2, <1>3, <1>4, <1>5, <1>6, <1>7, <1>8, <1>9, <1>10, <1>11, <1>12, <1>13, <1>14, <1>15, <1>16, <1>17, <1>18, <1>19, <1>20, <1>21
     DEF Next, Ask, Sweep, Build

\* An archive is kept by a ready request, and its link leaves after.
LEMMA LinkAfterOutcomeStep == IInv /\ [Next]_vars => LinkAfterOutcome'
<1> SUFFICES ASSUME IInv, [Next]_vars PROVE LinkAfterOutcome'
  OBVIOUS
<1> USE ExportAssumption DEF row, WorldUnchanged, AskersUnchanged, BuildersUnchanged, At, Turn, Done,
          Free, Execution, Executions, Asks
<1>1. ASSUME Tick PROVE LinkAfterOutcome'
  BY <1>1 DEF IInv, TypeOK, Building, LinkAfterOutcome, Tick
<1>2. ASSUME SweepForget PROVE LinkAfterOutcome'
  BY <1>2 DEF IInv, TypeOK, Building, LinkAfterOutcome, SweepForget, Forget
<1>3. ASSUME SweepList PROVE LinkAfterOutcome'
  BY <1>3 DEF IInv, TypeOK, Building, LinkAfterOutcome, SweepList, Stale
<1>4. ASSUME SweepNext PROVE LinkAfterOutcome'
  BY <1>4 DEF IInv, TypeOK, Building, LinkAfterOutcome, SweepNext
<1>5. ASSUME NEW r \in Requests, Authorize(r) PROVE LinkAfterOutcome'
  BY <1>5 DEF IInv, TypeOK, Building, LinkAfterOutcome, Authorize, Forget
<1>6. ASSUME NEW r \in Requests, ClaimLock(r) PROVE LinkAfterOutcome'
  BY <1>6 DEF IInv, TypeOK, Building, LinkAfterOutcome, ClaimLock
<1>7. ASSUME NEW r \in Requests, ClaimRead(r) PROVE LinkAfterOutcome'
  BY <1>7 DEF IInv, TypeOK, Building, LinkAfterOutcome, ClaimRead, Unlock, Pending
<1>8. ASSUME NEW r \in Requests, ClaimInsert(r) PROVE LinkAfterOutcome'
  BY <1>8 DEF IInv, TypeOK, Building, LinkAfterOutcome, ClaimInsert, Unlock
<1>9. ASSUME NEW r \in Requests, EmitAccepted(r) PROVE LinkAfterOutcome'
  BY <1>9 DEF IInv, TypeOK, Building, LinkAfterOutcome, EmitAccepted
<1>10. ASSUME NEW r \in Requests, EmitRefused(r) PROVE LinkAfterOutcome'
  BY <1>10 DEF IInv, TypeOK, Building, LinkAfterOutcome, EmitRefused
<1>11. ASSUME NEW r \in Requests, CloseRequest(r) PROVE LinkAfterOutcome'
  BY <1>11 DEF IInv, TypeOK, Building, LinkAfterOutcome, CloseRequest, MarkFailed
<1>12. ASSUME NEW r \in Requests, AskerDies(r) PROVE LinkAfterOutcome'
  BY <1>12 DEF IInv, TypeOK, Building, LinkAfterOutcome, AskerDies, Unlock
<1>13. ASSUME NEW r \in Requests, NEW b \in Workers, Deliver(b, r) PROVE LinkAfterOutcome'
  BY <1>13 DEF IInv, TypeOK, Building, LinkAfterOutcome, Deliver
<1>14. ASSUME NEW b \in Builders, FindRequest(b) PROVE LinkAfterOutcome'
  BY <1>14 DEF IInv, TypeOK, Building, LinkAfterOutcome, FindRequest
<1>15. ASSUME NEW b \in Builders, Collect(b) PROVE LinkAfterOutcome'
  BY <1>15 DEF IInv, TypeOK, Building, LinkAfterOutcome, Collect
<1>16. ASSUME NEW b \in Builders, BuildFailed(b) PROVE LinkAfterOutcome'
  BY <1>16 DEF IInv, TypeOK, Building, LinkAfterOutcome, BuildFailed, MarkFailed
<1>17. ASSUME NEW b \in Builders, BuildReady(b) PROVE LinkAfterOutcome'
  <2>1. mailed' = mailed /\ \A r \in Requests : status'[r] \in {status[r], "ready"}
    BY <1>17 DEF IInv, TypeOK, BuildReady, MarkReady
  <2>2. \A r \in Requests : r \in mailed' => status'[r] \in {"ready", "failed", "gone"}
    BY <2>1 DEF IInv, LinkAfterOutcome
  <2>3. \A r \in Requests : archive'[r] => status'[r] = "ready"
    BY <1>17 DEF IInv, TypeOK, Building, LinkAfterOutcome, BuildReady, MarkReady
  <2> QED BY <2>2, <2>3 DEF LinkAfterOutcome
<1>18. ASSUME NEW b \in Builders, SendLink(b) PROVE LinkAfterOutcome'
  BY <1>18 DEF IInv, TypeOK, Building, LinkAfterOutcome, SendLink
<1>19. ASSUME NEW b \in Builders, BuilderDies(b) PROVE LinkAfterOutcome'
  BY <1>19 DEF IInv, TypeOK, Building, LinkAfterOutcome, BuilderDies
<1>20. ASSUME NEW s \in Scopes, PurgeScope(s) PROVE LinkAfterOutcome'
  BY <1>20 DEF IInv, TypeOK, Building, LinkAfterOutcome, PurgeScope
<1>21. CASE UNCHANGED vars
  BY <1>21 DEF vars, IInv, TypeOK, Building, LinkAfterOutcome
<1> QED
  BY <1>1, <1>2, <1>3, <1>4, <1>5, <1>6, <1>7, <1>8, <1>9, <1>10, <1>11, <1>12, <1>13, <1>14, <1>15, <1>16, <1>17, <1>18, <1>19, <1>20, <1>21
     DEF Next, Ask, Sweep, Build

\* The strengthening is an invariant of DataExports.
LEMMA Inductive == Spec => []IInv
<1>1. IInv /\ [Next]_vars => IInv'
  BY TypesStep, ClaimingStep, BuildingStep, AloneStep, LinkLivesStep, LinkAfterOutcomeStep DEF IInv
<1> QED BY InitInductive, <1>1, PTL DEF Spec

\* Every reachable state is well typed, and a lock is held by a claim under way.
THEOREM ExportTypes == Spec => []TypeOK
<1>1. IInv => TypeOK BY DEF IInv
<1> QED BY Inductive, <1>1, PTL

\* Whatever requests are in flight together, a scope has one pending export.
THEOREM OnePendingKept == Spec => []OnePending
<1>1. IInv => OnePending
  <2> SUFFICES ASSUME IInv, NEW s \in Scopes PROVE Cardinality(Pending(s)) <= 1
    BY DEF OnePending
  <2>1. CASE Pending(s) = {}
    BY <2>1, FS_EmptySet
  <2>2. CASE \E r \in Requests : Pending(s) = {r}
    BY <2>2, FS_Singleton
  <2>3. Pending(s) = {} \/ \E r \in Requests : Pending(s) = {r}
    BY DEF IInv, Alone, Pending
  <2> QED BY <2>1, <2>2, <2>3
<1> QED BY Inductive, <1>1, PTL

\* A ready request that is not due has its archive, and nothing but a ready
\* request keeps one.
THEOREM LinksBacked == Spec => []LinkLives
<1>1. IInv => LinkLives BY DEF IInv
<1> QED BY Inductive, <1>1, PTL

\* No link leaves for a request that is still pending, whichever of its executions mails it,
\* and nothing but a ready request keeps an archive.  A link may name an archive that was
\* never kept, when the request was closed as failed while it was built.
THEOREM LinksAfterOutcomes == Spec => []LinkAfterOutcome
<1>1. IInv => LinkAfterOutcome BY DEF IInv
<1> QED BY Inductive, <1>1, PTL

\* The first outcome of a request stands, for every step of every execution.
THEOREM OutcomeKept == Spec => OutcomeHolds
<1>1. IInv /\ [Next]_vars
      => [\A r \in Requests :
            status[r] \in {"ready", "failed", "gone"}
              => /\ status'[r] \in {status[r], "gone"}
                 /\ expires'[r] = expires[r]]_vars
  <2> DEFINE Held ==
        \A r \in Requests :
            status[r] \in {"ready", "failed", "gone"}
              => /\ status'[r] \in {status[r], "gone"}
                 /\ expires'[r] = expires[r]
  <2> SUFFICES ASSUME IInv, [Next]_vars PROVE Held
    OBVIOUS
  <2> USE ExportAssumption DEF row, WorldUnchanged, AskersUnchanged, BuildersUnchanged
  <2>1. ASSUME NEW r \in Requests, ClaimInsert(r) PROVE Held
    BY <2>1 DEF IInv, TypeOK, Building, ClaimInsert
  <2>2. ASSUME NEW r \in Requests, CloseRequest(r) PROVE Held
    BY <2>2 DEF IInv, TypeOK, CloseRequest, MarkFailed
  <2>3. ASSUME NEW b \in Builders, BuildFailed(b) PROVE Held
    BY <2>3 DEF IInv, TypeOK, Building, BuildFailed, MarkFailed, At
  <2>4. ASSUME NEW b \in Builders, BuildReady(b) PROVE Held
    BY <2>4 DEF IInv, TypeOK, Building, BuildReady, MarkReady, At
  <2>5. ASSUME NEW s \in Scopes, PurgeScope(s) PROVE Held
    BY <2>5 DEF IInv, TypeOK, PurgeScope
  <2>6. CASE UNCHANGED <<status, expires>>
    BY <2>6
  <2> QED
    BY <2>1, <2>2, <2>3, <2>4, <2>5, <2>6
       DEF Next, vars, Ask, Sweep, Build, Tick, SweepForget, SweepList, SweepNext, Authorize,
           ClaimLock, ClaimRead, EmitAccepted, EmitRefused, AskerDies, Deliver, FindRequest,
           Collect, SendLink, BuilderDies
<1> QED BY Inductive, <1>1, PTL DEF Spec, OutcomeHolds
=============================================================================
