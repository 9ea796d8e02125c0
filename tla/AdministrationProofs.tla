------------------------ MODULE AdministrationProofs ------------------------
(***************************************************************************)
(* What Administration promises for every set of accounts and requests.    *)
(*                                                                         *)
(* That a superadmin stays rests on one fact about the gesture that holds  *)
(* the lock: the role has not moved since it read the accounts, and every  *)
(* superadmin still banned was among those it read.                        *)
(***************************************************************************)
EXTENDS Administration, TLAPS, FiniteSetTheorems

\* What the place of a gesture says of the rest of its record.
Shaped ==
  \A g \in Gestures :
    LET x == gest[g] IN
      /\ x.pc \in {"begin", "wait"} => x.kind \in Locking
      /\ x.pc \in {"read", "write"} => x.kind \in {"revoke", "ban"}
      /\ x.pc = "seal" => x.kind = "ban"
      /\ x.pc = "close" => x.kind = "revoke"
      /\ x.pc \notin Ended \cup {"insert"} => x.target \in Accounts
      /\ x.pc \in {"authorize", "count", "designate", "enlist", "check", "aim", "resolve", "open",
                    "insert"}
           => x.actor \in Accounts
      /\ x.pc = "restore" => x.borrower \in Accounts

\* The lock is held by the one gesture between its read and its commit.
Exclusive ==
  \A g \in Gestures : gest[g].pc \in {"read", "write", "seal"} <=> lock = g

\* What the holder read: superadmins, and all those still banned.
HasRead ==
  \A g \in Gestures :
    gest[g].pc = "write" => /\ gest[g].blocked \subseteq role
                            /\ role \cap banned \subseteq gest[g].blocked

IInv == TypeOK /\ Shaped /\ Exclusive /\ HasRead /\ AccessFollowsState

RowsTyped ==
  /\ role \subseteq Accounts /\ banned \subseteq Accounts /\ leaving \subseteq Accounts
  /\ sessions \subseteq SessionRows
  /\ issued \in Nat
  /\ lock \in Gestures \cup {Nobody}

-----------------------------------------------------------------------------

\* Nobody has asked for anything at first.
LEMMA InitInductive == Init => IInv
<1> SUFFICES ASSUME Init PROVE IInv
  OBVIOUS
<1> USE AdministrationAssumption DEF Init, Idle, Row, Capable, Closed
<1>1. TypeOK 
  <2>1. sessions \subseteq SessionRows
    <3>1. PICK own \in Capable, borrowed \in SUBSET (Accounts \ (role \cup banned)) :
            sessions = {Row(1, own, Nobody)} \cup {Row(2, user, own) : user \in borrowed}
      OBVIOUS
    <3>2. Row(1, own, Nobody) \in SessionRows BY DEF SessionRows
    <3>3. \A user \in borrowed : Row(2, user, own) \in SessionRows BY DEF SessionRows
    <3> QED BY <3>1, <3>2, <3>3
  <2>2. gest \in [Gestures -> GestureRecords] BY DEF GestureRecords, Ended
  <2> QED BY <2>1, <2>2 DEF TypeOK
<1>2. Shaped /\ Exclusive /\ HasRead BY DEF Shaped, Exclusive, HasRead, Ended
<1>3. AccessFollowsState BY DEF AccessFollowsState
<1> QED BY <1>1, <1>2, <1>3 DEF IInv

\* A gesture keeps the record its place needs.
LEMMA ShapedStep == IInv /\ [Next]_vars => Shaped'
<1> SUFFICES ASSUME IInv, [Next]_vars PROVE Shaped'
  OBVIOUS
<1> USE AdministrationAssumption DEF RowsUnchanged, SessionsUnchanged, Goto, Idle, Ended, GestureRecords, SessionRows, Locking, Kinds
<1>1. ASSUME NEW g \in Gestures, Enter(g) PROVE Shaped'
  BY <1>1 DEF IInv, TypeOK, Shaped, Enter
<1>2. ASSUME NEW g \in Gestures, SignInHook(g) PROVE Shaped'
  BY <1>2 DEF IInv, TypeOK, Shaped, SignInHook
<1>3. ASSUME NEW g \in Gestures, AuthorizeSession(g) PROVE Shaped'
  BY <1>3 DEF IInv, TypeOK, Shaped, AuthorizeSession
<1>33. ASSUME NEW g \in Gestures, CountSuperadmins(g) PROVE Shaped'
  BY <1>33 DEF IInv, TypeOK, Shaped, CountSuperadmins
<1>4. ASSUME NEW g \in Gestures, Designate(g) PROVE Shaped'
  BY <1>4 DEF IInv, TypeOK, Shaped, Designate
<1>5. ASSUME NEW g \in Gestures, AuthorizeRole(g) PROVE Shaped'
  BY <1>5 DEF IInv, TypeOK, Shaped, AuthorizeRole, FirstStep
<1>6. ASSUME NEW g \in Gestures, Begin(g) PROVE Shaped'
  BY <1>6 DEF IInv, TypeOK, Shaped, Begin
<1>7. ASSUME NEW g \in Gestures, BeginTimesOut(g) PROVE Shaped'
  BY <1>7 DEF IInv, TypeOK, Shaped, BeginTimesOut
<1>8. ASSUME NEW g \in Gestures, TakeLock(g) PROVE Shaped'
  BY <1>8 DEF IInv, TypeOK, Shaped, TakeLock
<1>9. ASSUME NEW g \in Gestures, Grant(g) PROVE Shaped'
  BY <1>9 DEF IInv, TypeOK, Shaped, Grant
<1>10. ASSUME NEW g \in Gestures, ReadState(g) PROVE Shaped'
  BY <1>10 DEF IInv, TypeOK, Shaped, ReadState, Closed
<1>11. ASSUME NEW g \in Gestures, ReadFails(g) PROVE Shaped'
  BY <1>11 DEF IInv, TypeOK, Shaped, ReadFails
<1>12. ASSUME NEW g \in Gestures, RevokeWrite(g) PROVE Shaped'
  BY <1>12 DEF IInv, TypeOK, Shaped, RevokeWrite
<1>13. ASSUME NEW g \in Gestures, EndBorrows(g) PROVE Shaped'
  BY <1>13 DEF IInv, TypeOK, Shaped, EndBorrows
<1>14. ASSUME NEW g \in Gestures, EndBorrowsFails(g) PROVE Shaped'
  BY <1>14 DEF IInv, TypeOK, Shaped, EndBorrowsFails
<1>15. ASSUME NEW g \in Gestures, BanMark(g) PROVE Shaped'
  BY <1>15 DEF IInv, TypeOK, Shaped, BanMark
<1>16. ASSUME NEW g \in Gestures, BanSeal(g) PROVE Shaped'
  BY <1>16 DEF IInv, TypeOK, Shaped, BanSeal
<1>17. ASSUME NEW g \in Gestures, BanFails(g) PROVE Shaped'
  BY <1>17 DEF IInv, TypeOK, Shaped, BanFails
<1>18. ASSUME NEW g \in Gestures, Unban(g) PROVE Shaped'
  BY <1>18 DEF IInv, TypeOK, Shaped, Unban
<1>19. ASSUME NEW g \in Gestures, Kick(g) PROVE Shaped'
  BY <1>19 DEF IInv, TypeOK, Shaped, Kick
<1>20. ASSUME NEW g \in Gestures, KickNothing(g) PROVE Shaped'
  BY <1>20 DEF IInv, TypeOK, Shaped, KickNothing
<1>21. ASSUME NEW g \in Gestures, StartAim(g) PROVE Shaped'
  BY <1>21 DEF IInv, TypeOK, Shaped, StartAim
<1>22. ASSUME NEW g \in Gestures, StartResolve(g) PROVE Shaped'
  BY <1>22 DEF IInv, TypeOK, Shaped, StartResolve
<1>23. ASSUME NEW g \in Gestures, StartOpen(g) PROVE Shaped'
  BY <1>23 DEF IInv, TypeOK, Shaped, StartOpen, CreateGuarded
<1>24. ASSUME NEW g \in Gestures, StopFind(g) PROVE Shaped'
  BY <1>24 DEF IInv, TypeOK, Shaped, StopFind
<1>25. ASSUME NEW g \in Gestures, StopRestore(g) PROVE Shaped'
  BY <1>25 DEF IInv, TypeOK, Shaped, StopRestore, CreateGuarded
<1>26. ASSUME NEW g \in Gestures, Rotate(g) PROVE Shaped'
  BY <1>26 DEF IInv, TypeOK, Shaped, Rotate
<1>27. ASSUME NEW g \in Gestures, SignInInsert(g) PROVE Shaped'
  BY <1>27 DEF IInv, TypeOK, Shaped, SignInInsert
<1>28. ASSUME NEW a \in Accounts, MarkLeaving(a) PROVE Shaped'
  BY <1>28 DEF IInv, TypeOK, Shaped, MarkLeaving
<1>29. ASSUME NEW s \in sessions, Tick(s) PROVE Shaped'
  BY <1>29 DEF IInv, TypeOK, Shaped, Tick
<1>30. ASSUME NEW s \in sessions, Refresh(s) PROVE Shaped'
  BY <1>30 DEF IInv, TypeOK, Shaped, Refresh
<1>31. ASSUME Sweep PROVE Shaped'
  BY <1>31 DEF IInv, TypeOK, Shaped, Sweep
<1>32. CASE UNCHANGED vars
  BY <1>32 DEF vars, IInv, TypeOK, Shaped
<1> QED
  BY <1>1, <1>2, <1>3, <1>4, <1>5, <1>6, <1>7, <1>8, <1>9, <1>10, <1>11, <1>12, <1>13,
     <1>14, <1>15, <1>16, <1>17, <1>18, <1>19, <1>20, <1>21, <1>22, <1>23, <1>24, <1>25,
     <1>26, <1>27, <1>28, <1>29, <1>30, <1>31, <1>32, <1>33
     DEF Next, Arrive, Step, Around

\* A gesture keeps the type of its record.
LEMMA GestureStep == IInv /\ [Next]_vars => (gest \in [Gestures -> GestureRecords])'
<1> SUFFICES ASSUME IInv, [Next]_vars PROVE (gest \in [Gestures -> GestureRecords])'
  OBVIOUS
<1> USE AdministrationAssumption DEF RowsUnchanged, SessionsUnchanged, Goto, Idle, Ended, GestureRecords, SessionRows, Locking, Kinds, Resolved
<1>1. ASSUME NEW g \in Gestures, Enter(g) PROVE (gest \in [Gestures -> GestureRecords])'
  <2>1. PICK k \in Kinds \ {"signin"}, s \in sessions, t \in Accounts :
          gest' = [gest EXCEPT ![g] =
            [Idle EXCEPT !.kind = k, !.actor = s.user, !.target = t, !.cookie = s.id,
                         !.pc = IF k = "stop" THEN "find" ELSE "authorize"]]
    BY <1>1 DEF Enter
  <2>2. s.user \in Accounts /\ s.id \in Nat
    BY DEF IInv, TypeOK
  <2>3. [Idle EXCEPT !.kind = k, !.actor = s.user, !.target = t, !.cookie = s.id,
                     !.pc = IF k = "stop" THEN "find" ELSE "authorize"] \in GestureRecords
    BY <2>2
  <2> QED BY <2>1, <2>3 DEF IInv, TypeOK
<1>2. ASSUME NEW g \in Gestures, SignInHook(g) PROVE (gest \in [Gestures -> GestureRecords])'
  <2>1. PICK a \in Accounts \ Closed :
          gest' = [gest EXCEPT ![g] = [Idle EXCEPT !.kind = "signin", !.actor = a, !.pc = "insert"]]
    BY <1>2 DEF SignInHook
  <2>2. [Idle EXCEPT !.kind = "signin", !.actor = a, !.pc = "insert"] \in GestureRecords
    OBVIOUS
  <2> QED BY <2>1, <2>2 DEF IInv, TypeOK
<1>3. ASSUME NEW g \in Gestures, AuthorizeSession(g) PROVE (gest \in [Gestures -> GestureRecords])'
  BY <1>3 DEF IInv, TypeOK, Shaped, AuthorizeSession
<1>33. ASSUME NEW g \in Gestures, CountSuperadmins(g) PROVE (gest \in [Gestures -> GestureRecords])'
  BY <1>33 DEF IInv, TypeOK, Shaped, CountSuperadmins
<1>4. ASSUME NEW g \in Gestures, Designate(g) PROVE (gest \in [Gestures -> GestureRecords])'
  BY <1>4 DEF IInv, TypeOK, Shaped, Designate
<1>5. ASSUME NEW g \in Gestures, AuthorizeRole(g) PROVE (gest \in [Gestures -> GestureRecords])'
  BY <1>5 DEF IInv, TypeOK, Shaped, AuthorizeRole, FirstStep
<1>6. ASSUME NEW g \in Gestures, Begin(g) PROVE (gest \in [Gestures -> GestureRecords])'
  BY <1>6 DEF IInv, TypeOK, Shaped, Begin
<1>7. ASSUME NEW g \in Gestures, BeginTimesOut(g) PROVE (gest \in [Gestures -> GestureRecords])'
  BY <1>7 DEF IInv, TypeOK, Shaped, BeginTimesOut
<1>8. ASSUME NEW g \in Gestures, TakeLock(g) PROVE (gest \in [Gestures -> GestureRecords])'
  BY <1>8 DEF IInv, TypeOK, Shaped, TakeLock
<1>9. ASSUME NEW g \in Gestures, Grant(g) PROVE (gest \in [Gestures -> GestureRecords])'
  BY <1>9 DEF IInv, TypeOK, Shaped, Grant
<1>10. ASSUME NEW g \in Gestures, ReadState(g) PROVE (gest \in [Gestures -> GestureRecords])'
  <2>1. role \cap Closed \in SUBSET Accounts
    BY DEF IInv, TypeOK
  <2>2. gest[g] \in GestureRecords
    BY DEF IInv, TypeOK
  <2>3. [gest[g] EXCEPT !.pc = "write", !.blocked = role \cap Closed] \in GestureRecords
    BY <2>1, <2>2
  <2>4. gest' = [gest EXCEPT ![g] = [gest[g] EXCEPT !.pc = "write", !.blocked = role \cap Closed]]
    BY <1>10 DEF IInv, TypeOK, ReadState
  <2> QED BY <2>3, <2>4 DEF IInv, TypeOK
<1>11. ASSUME NEW g \in Gestures, ReadFails(g) PROVE (gest \in [Gestures -> GestureRecords])'
  BY <1>11 DEF IInv, TypeOK, Shaped, ReadFails
<1>12. ASSUME NEW g \in Gestures, RevokeWrite(g) PROVE (gest \in [Gestures -> GestureRecords])'
  BY <1>12 DEF IInv, TypeOK, Shaped, RevokeWrite
<1>13. ASSUME NEW g \in Gestures, EndBorrows(g) PROVE (gest \in [Gestures -> GestureRecords])'
  BY <1>13 DEF IInv, TypeOK, Shaped, EndBorrows
<1>14. ASSUME NEW g \in Gestures, EndBorrowsFails(g) PROVE (gest \in [Gestures -> GestureRecords])'
  BY <1>14 DEF IInv, TypeOK, Shaped, EndBorrowsFails
<1>15. ASSUME NEW g \in Gestures, BanMark(g) PROVE (gest \in [Gestures -> GestureRecords])'
  BY <1>15 DEF IInv, TypeOK, Shaped, BanMark
<1>16. ASSUME NEW g \in Gestures, BanSeal(g) PROVE (gest \in [Gestures -> GestureRecords])'
  BY <1>16 DEF IInv, TypeOK, Shaped, BanSeal
<1>17. ASSUME NEW g \in Gestures, BanFails(g) PROVE (gest \in [Gestures -> GestureRecords])'
  BY <1>17 DEF IInv, TypeOK, Shaped, BanFails
<1>18. ASSUME NEW g \in Gestures, Unban(g) PROVE (gest \in [Gestures -> GestureRecords])'
  BY <1>18 DEF IInv, TypeOK, Shaped, Unban
<1>19. ASSUME NEW g \in Gestures, Kick(g) PROVE (gest \in [Gestures -> GestureRecords])'
  BY <1>19 DEF IInv, TypeOK, Shaped, Kick
<1>20. ASSUME NEW g \in Gestures, KickNothing(g) PROVE (gest \in [Gestures -> GestureRecords])'
  BY <1>20 DEF IInv, TypeOK, Shaped, KickNothing
<1>21. ASSUME NEW g \in Gestures, StartAim(g) PROVE (gest \in [Gestures -> GestureRecords])'
  BY <1>21 DEF IInv, TypeOK, Shaped, StartAim
<1>22. ASSUME NEW g \in Gestures, StartResolve(g) PROVE (gest \in [Gestures -> GestureRecords])'
  <2>1. gest[g] \in GestureRecords
    BY DEF IInv, TypeOK
  <2>2. \A c \in Nat : [gest[g] EXCEPT !.pc = "open", !.cookie = c] \in GestureRecords
    BY <2>1
  <2>3. PICK c \in Nat : gest' = [gest EXCEPT ![g] = [gest[g] EXCEPT !.pc = "open", !.cookie = c]]
    BY <1>22, <2>1 DEF IInv, TypeOK, StartResolve
  <2> QED BY <2>2, <2>3 DEF IInv, TypeOK
<1>23. ASSUME NEW g \in Gestures, StartOpen(g) PROVE (gest \in [Gestures -> GestureRecords])'
  BY <1>23 DEF IInv, TypeOK, Shaped, StartOpen, CreateGuarded
<1>24. ASSUME NEW g \in Gestures, StopFind(g) PROVE (gest \in [Gestures -> GestureRecords])'
  BY <1>24 DEF IInv, TypeOK, Shaped, StopFind
<1>25. ASSUME NEW g \in Gestures, StopRestore(g) PROVE (gest \in [Gestures -> GestureRecords])'
  BY <1>25 DEF IInv, TypeOK, Shaped, StopRestore, CreateGuarded
<1>26. ASSUME NEW g \in Gestures, Rotate(g) PROVE (gest \in [Gestures -> GestureRecords])'
  BY <1>26 DEF IInv, TypeOK, Shaped, Rotate
<1>27. ASSUME NEW g \in Gestures, SignInInsert(g) PROVE (gest \in [Gestures -> GestureRecords])'
  BY <1>27 DEF IInv, TypeOK, Shaped, SignInInsert
<1>28. ASSUME NEW a \in Accounts, MarkLeaving(a) PROVE (gest \in [Gestures -> GestureRecords])'
  BY <1>28 DEF IInv, TypeOK, Shaped, MarkLeaving
<1>29. ASSUME NEW s \in sessions, Tick(s) PROVE (gest \in [Gestures -> GestureRecords])'
  BY <1>29 DEF IInv, TypeOK, Shaped, Tick
<1>30. ASSUME NEW s \in sessions, Refresh(s) PROVE (gest \in [Gestures -> GestureRecords])'
  BY <1>30 DEF IInv, TypeOK, Shaped, Refresh
<1>31. ASSUME Sweep PROVE (gest \in [Gestures -> GestureRecords])'
  BY <1>31 DEF IInv, TypeOK, Shaped, Sweep
<1>32. CASE UNCHANGED vars
  BY <1>32 DEF vars, IInv, TypeOK, Shaped
<1> QED
  BY <1>1, <1>2, <1>3, <1>4, <1>5, <1>6, <1>7, <1>8, <1>9, <1>10, <1>11, <1>12, <1>13,
     <1>14, <1>15, <1>16, <1>17, <1>18, <1>19, <1>20, <1>21, <1>22, <1>23, <1>24, <1>25,
     <1>26, <1>27, <1>28, <1>29, <1>30, <1>31, <1>32, <1>33
     DEF Next, Arrive, Step, Around

\* The rows keep their types.
LEMMA RowsStep == IInv /\ [Next]_vars => RowsTyped'
<1> SUFFICES ASSUME IInv, [Next]_vars PROVE RowsTyped'
  OBVIOUS
<1> USE AdministrationAssumption DEF RowsUnchanged, SessionsUnchanged, Row, SessionRows, Ended, Locking
<1>1. ASSUME NEW g \in Gestures, Enter(g) PROVE RowsTyped'
  BY <1>1 DEF IInv, TypeOK, Shaped, RowsTyped, Enter
<1>2. ASSUME NEW g \in Gestures, SignInHook(g) PROVE RowsTyped'
  BY <1>2 DEF IInv, TypeOK, Shaped, RowsTyped, SignInHook
<1>3. ASSUME NEW g \in Gestures, AuthorizeSession(g) PROVE RowsTyped'
  BY <1>3 DEF IInv, TypeOK, Shaped, RowsTyped, AuthorizeSession
<1>33. ASSUME NEW g \in Gestures, CountSuperadmins(g) PROVE RowsTyped'
  BY <1>33 DEF IInv, TypeOK, Shaped, RowsTyped, CountSuperadmins
<1>4. ASSUME NEW g \in Gestures, Designate(g) PROVE RowsTyped'
  BY <1>4 DEF IInv, TypeOK, Shaped, RowsTyped, Designate
<1>5. ASSUME NEW g \in Gestures, AuthorizeRole(g) PROVE RowsTyped'
  BY <1>5 DEF IInv, TypeOK, Shaped, RowsTyped, AuthorizeRole, FirstStep
<1>6. ASSUME NEW g \in Gestures, Begin(g) PROVE RowsTyped'
  BY <1>6 DEF IInv, TypeOK, Shaped, RowsTyped, Begin
<1>7. ASSUME NEW g \in Gestures, BeginTimesOut(g) PROVE RowsTyped'
  BY <1>7 DEF IInv, TypeOK, Shaped, RowsTyped, BeginTimesOut
<1>8. ASSUME NEW g \in Gestures, TakeLock(g) PROVE RowsTyped'
  BY <1>8 DEF IInv, TypeOK, Shaped, RowsTyped, TakeLock
<1>9. ASSUME NEW g \in Gestures, Grant(g) PROVE RowsTyped'
  BY <1>9 DEF IInv, TypeOK, Shaped, RowsTyped, Grant
<1>10. ASSUME NEW g \in Gestures, ReadState(g) PROVE RowsTyped'
  BY <1>10 DEF IInv, TypeOK, Shaped, RowsTyped, ReadState, Closed
<1>11. ASSUME NEW g \in Gestures, ReadFails(g) PROVE RowsTyped'
  BY <1>11 DEF IInv, TypeOK, Shaped, RowsTyped, ReadFails
<1>12. ASSUME NEW g \in Gestures, RevokeWrite(g) PROVE RowsTyped'
  BY <1>12 DEF IInv, TypeOK, Shaped, RowsTyped, RevokeWrite
<1>13. ASSUME NEW g \in Gestures, EndBorrows(g) PROVE RowsTyped'
  BY <1>13 DEF IInv, TypeOK, Shaped, RowsTyped, EndBorrows
<1>14. ASSUME NEW g \in Gestures, EndBorrowsFails(g) PROVE RowsTyped'
  BY <1>14 DEF IInv, TypeOK, Shaped, RowsTyped, EndBorrowsFails
<1>15. ASSUME NEW g \in Gestures, BanMark(g) PROVE RowsTyped'
  BY <1>15 DEF IInv, TypeOK, Shaped, RowsTyped, BanMark
<1>16. ASSUME NEW g \in Gestures, BanSeal(g) PROVE RowsTyped'
  BY <1>16 DEF IInv, TypeOK, Shaped, RowsTyped, BanSeal
<1>17. ASSUME NEW g \in Gestures, BanFails(g) PROVE RowsTyped'
  BY <1>17 DEF IInv, TypeOK, Shaped, RowsTyped, BanFails
<1>18. ASSUME NEW g \in Gestures, Unban(g) PROVE RowsTyped'
  BY <1>18 DEF IInv, TypeOK, Shaped, RowsTyped, Unban
<1>19. ASSUME NEW g \in Gestures, Kick(g) PROVE RowsTyped'
  BY <1>19 DEF IInv, TypeOK, Shaped, RowsTyped, Kick
<1>20. ASSUME NEW g \in Gestures, KickNothing(g) PROVE RowsTyped'
  BY <1>20 DEF IInv, TypeOK, Shaped, RowsTyped, KickNothing
<1>21. ASSUME NEW g \in Gestures, StartAim(g) PROVE RowsTyped'
  BY <1>21 DEF IInv, TypeOK, Shaped, RowsTyped, StartAim
<1>22. ASSUME NEW g \in Gestures, StartResolve(g) PROVE RowsTyped'
  BY <1>22 DEF IInv, TypeOK, Shaped, RowsTyped, StartResolve
<1>23. ASSUME NEW g \in Gestures, StartOpen(g) PROVE RowsTyped'
  <2>1. Row(issued + 1, gest[g].target, gest[g].actor) \in SessionRows
    BY <1>23 DEF IInv, TypeOK, Shaped, StartOpen
  <2>2. /\ sessions' \subseteq sessions \cup {Row(issued + 1, gest[g].target, gest[g].actor)}
        /\ issued' \in {issued, issued + 1}
    BY <1>23 DEF StartOpen, CreateGuarded
  <2> QED BY <1>23, <2>1, <2>2 DEF IInv, TypeOK, RowsTyped, StartOpen, CreateGuarded
<1>24. ASSUME NEW g \in Gestures, StopFind(g) PROVE RowsTyped'
  BY <1>24 DEF IInv, TypeOK, Shaped, RowsTyped, StopFind
<1>25. ASSUME NEW g \in Gestures, StopRestore(g) PROVE RowsTyped'
  <2>1. Row(issued + 1, gest[g].borrower, Nobody) \in SessionRows
    BY <1>25 DEF IInv, TypeOK, Shaped, StopRestore
  <2>2. /\ sessions' \subseteq sessions \cup {Row(issued + 1, gest[g].borrower, Nobody)}
        /\ issued' \in {issued, issued + 1}
    BY <1>25 DEF StopRestore, CreateGuarded
  <2> QED BY <1>25, <2>1, <2>2 DEF IInv, TypeOK, RowsTyped, StopRestore, CreateGuarded
<1>26. ASSUME NEW g \in Gestures, Rotate(g) PROVE RowsTyped'
  BY <1>26 DEF IInv, TypeOK, Shaped, RowsTyped, Rotate
<1>27. ASSUME NEW g \in Gestures, SignInInsert(g) PROVE RowsTyped'
  <2>1. Row(issued + 1, gest[g].actor, Nobody) \in SessionRows
    BY <1>27 DEF IInv, TypeOK, Shaped, SignInInsert
  <2>2. /\ sessions' \subseteq sessions \cup {Row(issued + 1, gest[g].actor, Nobody)}
        /\ issued' \in {issued, issued + 1}
    BY <1>27 DEF SignInInsert
  <2> QED BY <1>27, <2>1, <2>2 DEF IInv, TypeOK, RowsTyped, SignInInsert
<1>28. ASSUME NEW a \in Accounts, MarkLeaving(a) PROVE RowsTyped'
  BY <1>28 DEF IInv, TypeOK, Shaped, RowsTyped, MarkLeaving
<1>29. ASSUME NEW s \in sessions, Tick(s) PROVE RowsTyped'
  BY <1>29 DEF IInv, TypeOK, Shaped, RowsTyped, Tick
<1>30. ASSUME NEW s \in sessions, Refresh(s) PROVE RowsTyped'
  BY <1>30 DEF IInv, TypeOK, Shaped, RowsTyped, Refresh
<1>31. ASSUME Sweep PROVE RowsTyped'
  BY <1>31 DEF IInv, TypeOK, Shaped, RowsTyped, Sweep
<1>32. CASE UNCHANGED vars
  BY <1>32 DEF vars, IInv, TypeOK, Shaped, RowsTyped
<1> QED
  BY <1>1, <1>2, <1>3, <1>4, <1>5, <1>6, <1>7, <1>8, <1>9, <1>10, <1>11, <1>12, <1>13,
     <1>14, <1>15, <1>16, <1>17, <1>18, <1>19, <1>20, <1>21, <1>22, <1>23, <1>24, <1>25,
     <1>26, <1>27, <1>28, <1>29, <1>30, <1>31, <1>32, <1>33
     DEF Next, Arrive, Step, Around

\* The lock goes from one gesture to another through its release.
LEMMA ExclusiveStep == IInv /\ [Next]_vars => Exclusive'
<1> SUFFICES ASSUME IInv, [Next]_vars PROVE Exclusive'
  OBVIOUS
<1> USE AdministrationAssumption DEF RowsUnchanged, SessionsUnchanged, Goto, Idle, Ended
<1>1. ASSUME NEW g \in Gestures, Enter(g) PROVE Exclusive'
  BY <1>1 DEF IInv, TypeOK, Exclusive, Shaped, Enter
<1>2. ASSUME NEW g \in Gestures, SignInHook(g) PROVE Exclusive'
  BY <1>2 DEF IInv, TypeOK, Exclusive, Shaped, SignInHook
<1>3. ASSUME NEW g \in Gestures, AuthorizeSession(g) PROVE Exclusive'
  <2>1. \A h \in Gestures : h # g => gest'[h] = gest[h]
    BY <1>3 DEF IInv, TypeOK, AuthorizeSession
  <2>2. gest[g].pc = "authorize" /\ gest'[g].pc \in {"done", "count"}
    BY <1>3 DEF IInv, TypeOK, GestureRecords, AuthorizeSession
  <2>3. UNCHANGED <<lock, role, banned>>
    BY <1>3 DEF AuthorizeSession
  <2> QED BY <2>1, <2>2, <2>3 DEF IInv, Exclusive
<1>33. ASSUME NEW g \in Gestures, CountSuperadmins(g) PROVE Exclusive'
  <2>1. \A h \in Gestures : h # g => gest'[h] = gest[h]
    BY <1>33 DEF IInv, TypeOK, CountSuperadmins
  <2>2. gest[g].pc = "count" /\ gest'[g].pc \in {"check", "designate"}
    BY <1>33 DEF IInv, TypeOK, GestureRecords, CountSuperadmins
  <2>3. UNCHANGED <<lock, role, banned>>
    BY <1>33 DEF CountSuperadmins
  <2> QED BY <2>1, <2>2, <2>3 DEF IInv, Exclusive
<1>4. ASSUME NEW g \in Gestures, Designate(g) PROVE Exclusive'
  BY <1>4 DEF IInv, TypeOK, Exclusive, Shaped, Designate
<1>5. ASSUME NEW g \in Gestures, AuthorizeRole(g) PROVE Exclusive'
  <2>1. \A h \in Gestures : h # g => gest'[h] = gest[h]
    BY <1>5 DEF IInv, TypeOK, AuthorizeRole, FirstStep
  <2>2. gest[g].pc = "check" /\ gest'[g].pc \in {"done", "begin", "aim", "act"}
    BY <1>5 DEF IInv, TypeOK, GestureRecords, AuthorizeRole, FirstStep
  <2>3. UNCHANGED <<lock, role, banned>>
    BY <1>5 DEF AuthorizeRole, FirstStep
  <2> QED BY <2>1, <2>2, <2>3 DEF IInv, Exclusive
<1>6. ASSUME NEW g \in Gestures, Begin(g) PROVE Exclusive'
  BY <1>6 DEF IInv, TypeOK, Exclusive, Shaped, Begin
<1>7. ASSUME NEW g \in Gestures, BeginTimesOut(g) PROVE Exclusive'
  BY <1>7 DEF IInv, TypeOK, Exclusive, Shaped, BeginTimesOut
<1>8. ASSUME NEW g \in Gestures, TakeLock(g) PROVE Exclusive'
  BY <1>8 DEF IInv, TypeOK, Exclusive, Shaped, TakeLock
<1>9. ASSUME NEW g \in Gestures, Grant(g) PROVE Exclusive'
  BY <1>9 DEF IInv, TypeOK, Exclusive, Shaped, Grant
<1>10. ASSUME NEW g \in Gestures, ReadState(g) PROVE Exclusive'
  BY <1>10 DEF IInv, TypeOK, Exclusive, Shaped, ReadState, Closed
<1>11. ASSUME NEW g \in Gestures, ReadFails(g) PROVE Exclusive'
  BY <1>11 DEF IInv, TypeOK, Exclusive, Shaped, ReadFails
<1>12. ASSUME NEW g \in Gestures, RevokeWrite(g) PROVE Exclusive'
  <2>1. \A h \in Gestures : h # g => gest'[h] = gest[h]
    BY <1>12 DEF IInv, TypeOK, RevokeWrite
  <2>2. gest[g].pc = "write" /\ gest'[g].pc \in {"done", "close"} /\ lock' = Nobody
    BY <1>12 DEF IInv, TypeOK, GestureRecords, RevokeWrite
  <2> QED BY <2>1, <2>2 DEF IInv, Exclusive
<1>13. ASSUME NEW g \in Gestures, EndBorrows(g) PROVE Exclusive'
  BY <1>13 DEF IInv, TypeOK, Exclusive, Shaped, EndBorrows
<1>14. ASSUME NEW g \in Gestures, EndBorrowsFails(g) PROVE Exclusive'
  BY <1>14 DEF IInv, TypeOK, Exclusive, Shaped, EndBorrowsFails
<1>15. ASSUME NEW g \in Gestures, BanMark(g) PROVE Exclusive'
  <2>1. \A h \in Gestures : h # g => gest'[h] = gest[h]
    BY <1>15 DEF IInv, TypeOK, BanMark
  <2>2. /\ gest[g].pc = "write"
        /\ \/ gest'[g].pc = "done" /\ lock' = Nobody
           \/ gest'[g].pc = "seal" /\ lock' = lock
    BY <1>15 DEF IInv, TypeOK, GestureRecords, BanMark
  <2> QED BY <2>1, <2>2 DEF IInv, Exclusive
<1>16. ASSUME NEW g \in Gestures, BanSeal(g) PROVE Exclusive'
  BY <1>16 DEF IInv, TypeOK, Exclusive, Shaped, BanSeal
<1>17. ASSUME NEW g \in Gestures, BanFails(g) PROVE Exclusive'
  BY <1>17 DEF IInv, TypeOK, Exclusive, Shaped, BanFails
<1>18. ASSUME NEW g \in Gestures, Unban(g) PROVE Exclusive'
  BY <1>18 DEF IInv, TypeOK, Exclusive, Shaped, Unban
<1>19. ASSUME NEW g \in Gestures, Kick(g) PROVE Exclusive'
  BY <1>19 DEF IInv, TypeOK, Exclusive, Shaped, Kick
<1>20. ASSUME NEW g \in Gestures, KickNothing(g) PROVE Exclusive'
  BY <1>20 DEF IInv, TypeOK, Exclusive, Shaped, KickNothing
<1>21. ASSUME NEW g \in Gestures, StartAim(g) PROVE Exclusive'
  BY <1>21 DEF IInv, TypeOK, Exclusive, Shaped, StartAim
<1>22. ASSUME NEW g \in Gestures, StartResolve(g) PROVE Exclusive'
  BY <1>22 DEF IInv, TypeOK, Exclusive, Shaped, StartResolve
<1>23. ASSUME NEW g \in Gestures, StartOpen(g) PROVE Exclusive'
  <2>1. \A h \in Gestures : h # g => gest'[h] = gest[h]
    BY <1>23 DEF IInv, TypeOK, StartOpen, CreateGuarded
  <2>2. gest[g].pc = "open" /\ gest'[g].pc \in {"done", "rotate"}
    BY <1>23 DEF IInv, TypeOK, GestureRecords, StartOpen, CreateGuarded
  <2>3. UNCHANGED <<lock, role, banned>>
    BY <1>23 DEF StartOpen, CreateGuarded
  <2> QED BY <2>1, <2>2, <2>3 DEF IInv, Exclusive
<1>24. ASSUME NEW g \in Gestures, StopFind(g) PROVE Exclusive'
  <2>1. \A h \in Gestures : h # g => gest'[h] = gest[h]
    BY <1>24 DEF IInv, TypeOK, StopFind
  <2>2. gest[g].pc = "find" /\ gest'[g].pc \in {"done", "restore"}
    BY <1>24 DEF IInv, TypeOK, GestureRecords, StopFind
  <2>3. UNCHANGED <<lock, role, banned>>
    BY <1>24 DEF StopFind
  <2> QED BY <2>1, <2>2, <2>3 DEF IInv, Exclusive
<1>25. ASSUME NEW g \in Gestures, StopRestore(g) PROVE Exclusive'
  <2>1. \A h \in Gestures : h # g => gest'[h] = gest[h]
    BY <1>25 DEF IInv, TypeOK, StopRestore, CreateGuarded
  <2>2. gest[g].pc = "restore" /\ gest'[g].pc \in {"done", "rotate"}
    BY <1>25 DEF IInv, TypeOK, GestureRecords, StopRestore, CreateGuarded
  <2>3. UNCHANGED <<lock, role, banned>>
    BY <1>25 DEF StopRestore, CreateGuarded
  <2> QED BY <2>1, <2>2, <2>3 DEF IInv, Exclusive
<1>26. ASSUME NEW g \in Gestures, Rotate(g) PROVE Exclusive'
  BY <1>26 DEF IInv, TypeOK, Exclusive, Shaped, Rotate
<1>27. ASSUME NEW g \in Gestures, SignInInsert(g) PROVE Exclusive'
  BY <1>27 DEF IInv, TypeOK, Exclusive, Shaped, SignInInsert
<1>28. ASSUME NEW a \in Accounts, MarkLeaving(a) PROVE Exclusive'
  BY <1>28 DEF IInv, TypeOK, Exclusive, Shaped, MarkLeaving
<1>29. ASSUME NEW s \in sessions, Tick(s) PROVE Exclusive'
  BY <1>29 DEF IInv, TypeOK, Exclusive, Shaped, Tick
<1>30. ASSUME NEW s \in sessions, Refresh(s) PROVE Exclusive'
  BY <1>30 DEF IInv, TypeOK, Exclusive, Shaped, Refresh
<1>31. ASSUME Sweep PROVE Exclusive'
  BY <1>31 DEF IInv, TypeOK, Exclusive, Shaped, Sweep
<1>32. CASE UNCHANGED vars
  BY <1>32 DEF vars, IInv, TypeOK, Exclusive, Shaped
<1> QED
  BY <1>1, <1>2, <1>3, <1>4, <1>5, <1>6, <1>7, <1>8, <1>9, <1>10, <1>11, <1>12, <1>13,
     <1>14, <1>15, <1>16, <1>17, <1>18, <1>19, <1>20, <1>21, <1>22, <1>23, <1>24, <1>25,
     <1>26, <1>27, <1>28, <1>29, <1>30, <1>31, <1>32, <1>33
     DEF Next, Arrive, Step, Around

\* Nobody else moves the role while the lock is held.
LEMMA HasReadStep == IInv /\ [Next]_vars => HasRead'
<1> SUFFICES ASSUME IInv, [Next]_vars PROVE HasRead'
  OBVIOUS
<1> USE AdministrationAssumption DEF RowsUnchanged, SessionsUnchanged, Goto, Idle, Ended, Locking
<1>1. ASSUME NEW g \in Gestures, Enter(g) PROVE HasRead'
  BY <1>1 DEF IInv, TypeOK, Exclusive, Shaped, HasRead, Enter
<1>2. ASSUME NEW g \in Gestures, SignInHook(g) PROVE HasRead'
  BY <1>2 DEF IInv, TypeOK, Exclusive, Shaped, HasRead, SignInHook
<1>3. ASSUME NEW g \in Gestures, AuthorizeSession(g) PROVE HasRead'
  <2>1. \A h \in Gestures : h # g => gest'[h] = gest[h]
    BY <1>3 DEF IInv, TypeOK, AuthorizeSession
  <2>2. gest[g].pc = "authorize" /\ gest'[g].pc \in {"done", "count"}
    BY <1>3 DEF IInv, TypeOK, GestureRecords, AuthorizeSession
  <2>3. UNCHANGED <<lock, role, banned>>
    BY <1>3 DEF AuthorizeSession
  <2> QED BY <2>1, <2>2, <2>3 DEF IInv, HasRead
<1>33. ASSUME NEW g \in Gestures, CountSuperadmins(g) PROVE HasRead'
  <2>1. \A h \in Gestures : h # g => gest'[h] = gest[h]
    BY <1>33 DEF IInv, TypeOK, CountSuperadmins
  <2>2. gest[g].pc = "count" /\ gest'[g].pc \in {"check", "designate"}
    BY <1>33 DEF IInv, TypeOK, GestureRecords, CountSuperadmins
  <2>3. UNCHANGED <<lock, role, banned>>
    BY <1>33 DEF CountSuperadmins
  <2> QED BY <2>1, <2>2, <2>3 DEF IInv, HasRead
<1>4. ASSUME NEW g \in Gestures, Designate(g) PROVE HasRead'
  BY <1>4 DEF IInv, TypeOK, Exclusive, Shaped, HasRead, Designate
<1>5. ASSUME NEW g \in Gestures, AuthorizeRole(g) PROVE HasRead'
  <2>1. \A h \in Gestures : h # g => gest'[h] = gest[h]
    BY <1>5 DEF IInv, TypeOK, AuthorizeRole, FirstStep
  <2>2. gest[g].pc = "check" /\ gest'[g].pc \in {"done", "begin", "aim", "act"}
    BY <1>5 DEF IInv, TypeOK, GestureRecords, AuthorizeRole, FirstStep
  <2>3. UNCHANGED <<lock, role, banned>>
    BY <1>5 DEF AuthorizeRole, FirstStep
  <2> QED BY <2>1, <2>2, <2>3 DEF IInv, HasRead
<1>6. ASSUME NEW g \in Gestures, Begin(g) PROVE HasRead'
  BY <1>6 DEF IInv, TypeOK, Exclusive, Shaped, HasRead, Begin
<1>7. ASSUME NEW g \in Gestures, BeginTimesOut(g) PROVE HasRead'
  BY <1>7 DEF IInv, TypeOK, Exclusive, Shaped, HasRead, BeginTimesOut
<1>8. ASSUME NEW g \in Gestures, TakeLock(g) PROVE HasRead'
  BY <1>8 DEF IInv, TypeOK, Exclusive, Shaped, HasRead, TakeLock
<1>9. ASSUME NEW g \in Gestures, Grant(g) PROVE HasRead'
  BY <1>9 DEF IInv, TypeOK, Exclusive, Shaped, HasRead, Grant
<1>10. ASSUME NEW g \in Gestures, ReadState(g) PROVE HasRead'
  BY <1>10 DEF IInv, TypeOK, Exclusive, Shaped, HasRead, ReadState, Closed
<1>11. ASSUME NEW g \in Gestures, ReadFails(g) PROVE HasRead'
  BY <1>11 DEF IInv, TypeOK, Exclusive, Shaped, HasRead, ReadFails
<1>12. ASSUME NEW g \in Gestures, RevokeWrite(g) PROVE HasRead'
  <2>1. \A h \in Gestures : h # g => gest'[h] = gest[h]
    BY <1>12 DEF IInv, TypeOK, RevokeWrite
  <2>2. gest[g].pc = "write" /\ gest'[g].pc \in {"done", "close"}
    BY <1>12 DEF IInv, TypeOK, GestureRecords, RevokeWrite
  <2>3. \A h \in Gestures : h # g => gest[h].pc # "write"
    BY <2>2 DEF IInv, Exclusive
  <2> QED BY <2>1, <2>2, <2>3 DEF HasRead
<1>13. ASSUME NEW g \in Gestures, EndBorrows(g) PROVE HasRead'
  BY <1>13 DEF IInv, TypeOK, Exclusive, Shaped, HasRead, EndBorrows
<1>14. ASSUME NEW g \in Gestures, EndBorrowsFails(g) PROVE HasRead'
  BY <1>14 DEF IInv, TypeOK, Exclusive, Shaped, HasRead, EndBorrowsFails
<1>15. ASSUME NEW g \in Gestures, BanMark(g) PROVE HasRead'
  <2>1. \A h \in Gestures : h # g => gest'[h] = gest[h]
    BY <1>15 DEF IInv, TypeOK, BanMark
  <2>2. gest[g].pc = "write" /\ gest'[g].pc \in {"done", "seal"}
    BY <1>15 DEF IInv, TypeOK, GestureRecords, BanMark
  <2>3. \A h \in Gestures : h # g => gest[h].pc # "write"
    BY <2>2 DEF IInv, Exclusive
  <2> QED BY <2>1, <2>2, <2>3 DEF HasRead
<1>16. ASSUME NEW g \in Gestures, BanSeal(g) PROVE HasRead'
  BY <1>16 DEF IInv, TypeOK, Exclusive, Shaped, HasRead, BanSeal
<1>17. ASSUME NEW g \in Gestures, BanFails(g) PROVE HasRead'
  BY <1>17 DEF IInv, TypeOK, Exclusive, Shaped, HasRead, BanFails
<1>18. ASSUME NEW g \in Gestures, Unban(g) PROVE HasRead'
  BY <1>18 DEF IInv, TypeOK, Exclusive, Shaped, HasRead, Unban
<1>19. ASSUME NEW g \in Gestures, Kick(g) PROVE HasRead'
  BY <1>19 DEF IInv, TypeOK, Exclusive, Shaped, HasRead, Kick
<1>20. ASSUME NEW g \in Gestures, KickNothing(g) PROVE HasRead'
  BY <1>20 DEF IInv, TypeOK, Exclusive, Shaped, HasRead, KickNothing
<1>21. ASSUME NEW g \in Gestures, StartAim(g) PROVE HasRead'
  BY <1>21 DEF IInv, TypeOK, Exclusive, Shaped, HasRead, StartAim
<1>22. ASSUME NEW g \in Gestures, StartResolve(g) PROVE HasRead'
  BY <1>22 DEF IInv, TypeOK, Exclusive, Shaped, HasRead, StartResolve
<1>23. ASSUME NEW g \in Gestures, StartOpen(g) PROVE HasRead'
  <2>1. \A h \in Gestures : h # g => gest'[h] = gest[h]
    BY <1>23 DEF IInv, TypeOK, StartOpen, CreateGuarded
  <2>2. gest[g].pc = "open" /\ gest'[g].pc \in {"done", "rotate"}
    BY <1>23 DEF IInv, TypeOK, GestureRecords, StartOpen, CreateGuarded
  <2>3. UNCHANGED <<lock, role, banned>>
    BY <1>23 DEF StartOpen, CreateGuarded
  <2> QED BY <2>1, <2>2, <2>3 DEF IInv, HasRead
<1>24. ASSUME NEW g \in Gestures, StopFind(g) PROVE HasRead'
  <2>1. \A h \in Gestures : h # g => gest'[h] = gest[h]
    BY <1>24 DEF IInv, TypeOK, StopFind
  <2>2. gest[g].pc = "find" /\ gest'[g].pc \in {"done", "restore"}
    BY <1>24 DEF IInv, TypeOK, GestureRecords, StopFind
  <2>3. UNCHANGED <<lock, role, banned>>
    BY <1>24 DEF StopFind
  <2> QED BY <2>1, <2>2, <2>3 DEF IInv, HasRead
<1>25. ASSUME NEW g \in Gestures, StopRestore(g) PROVE HasRead'
  <2>1. \A h \in Gestures : h # g => gest'[h] = gest[h]
    BY <1>25 DEF IInv, TypeOK, StopRestore, CreateGuarded
  <2>2. gest[g].pc = "restore" /\ gest'[g].pc \in {"done", "rotate"}
    BY <1>25 DEF IInv, TypeOK, GestureRecords, StopRestore, CreateGuarded
  <2>3. UNCHANGED <<lock, role, banned>>
    BY <1>25 DEF StopRestore, CreateGuarded
  <2> QED BY <2>1, <2>2, <2>3 DEF IInv, HasRead
<1>26. ASSUME NEW g \in Gestures, Rotate(g) PROVE HasRead'
  BY <1>26 DEF IInv, TypeOK, Exclusive, Shaped, HasRead, Rotate
<1>27. ASSUME NEW g \in Gestures, SignInInsert(g) PROVE HasRead'
  BY <1>27 DEF IInv, TypeOK, Exclusive, Shaped, HasRead, SignInInsert
<1>28. ASSUME NEW a \in Accounts, MarkLeaving(a) PROVE HasRead'
  BY <1>28 DEF IInv, TypeOK, Exclusive, Shaped, HasRead, MarkLeaving
<1>29. ASSUME NEW s \in sessions, Tick(s) PROVE HasRead'
  BY <1>29 DEF IInv, TypeOK, Exclusive, Shaped, HasRead, Tick
<1>30. ASSUME NEW s \in sessions, Refresh(s) PROVE HasRead'
  BY <1>30 DEF IInv, TypeOK, Exclusive, Shaped, HasRead, Refresh
<1>31. ASSUME Sweep PROVE HasRead'
  BY <1>31 DEF IInv, TypeOK, Exclusive, Shaped, HasRead, Sweep
<1>32. CASE UNCHANGED vars
  BY <1>32 DEF vars, IInv, TypeOK, Exclusive, Shaped, HasRead
<1> QED
  BY <1>1, <1>2, <1>3, <1>4, <1>5, <1>6, <1>7, <1>8, <1>9, <1>10, <1>11, <1>12, <1>13,
     <1>14, <1>15, <1>16, <1>17, <1>18, <1>19, <1>20, <1>21, <1>22, <1>23, <1>24, <1>25,
     <1>26, <1>27, <1>28, <1>29, <1>30, <1>31, <1>32, <1>33
     DEF Next, Arrive, Step, Around

\* Sessions follow the account and the role.
LEMMA AccessStep == IInv /\ [Next]_vars => AccessFollowsState'
<1> SUFFICES ASSUME IInv, [Next]_vars PROVE AccessFollowsState'
  OBVIOUS
<1> USE AdministrationAssumption DEF RowsUnchanged, SessionsUnchanged, Goto, Idle, Row, Closed, Holders, Ended
<1>1. ASSUME NEW g \in Gestures, Enter(g) PROVE AccessFollowsState'
  BY <1>1 DEF IInv, TypeOK, Shaped, AccessFollowsState, Sealing, Detaching, Enter
<1>2. ASSUME NEW g \in Gestures, SignInHook(g) PROVE AccessFollowsState'
  BY <1>2 DEF IInv, TypeOK, Shaped, AccessFollowsState, Sealing, Detaching, SignInHook
<1>3. ASSUME NEW g \in Gestures, AuthorizeSession(g) PROVE AccessFollowsState'
  BY <1>3 DEF IInv, TypeOK, Shaped, AccessFollowsState, Sealing, Detaching, AuthorizeSession
<1>33. ASSUME NEW g \in Gestures, CountSuperadmins(g) PROVE AccessFollowsState'
  BY <1>33 DEF IInv, TypeOK, Shaped, AccessFollowsState, Sealing, Detaching, CountSuperadmins
<1>4. ASSUME NEW g \in Gestures, Designate(g) PROVE AccessFollowsState'
  BY <1>4 DEF IInv, TypeOK, Shaped, AccessFollowsState, Sealing, Detaching, Designate
<1>5. ASSUME NEW g \in Gestures, AuthorizeRole(g) PROVE AccessFollowsState'
  BY <1>5 DEF IInv, TypeOK, Shaped, AccessFollowsState, Sealing, Detaching, AuthorizeRole, FirstStep
<1>6. ASSUME NEW g \in Gestures, Begin(g) PROVE AccessFollowsState'
  BY <1>6 DEF IInv, TypeOK, Shaped, AccessFollowsState, Sealing, Detaching, Begin
<1>7. ASSUME NEW g \in Gestures, BeginTimesOut(g) PROVE AccessFollowsState'
  BY <1>7 DEF IInv, TypeOK, Shaped, AccessFollowsState, Sealing, Detaching, BeginTimesOut
<1>8. ASSUME NEW g \in Gestures, TakeLock(g) PROVE AccessFollowsState'
  BY <1>8 DEF IInv, TypeOK, Shaped, AccessFollowsState, Sealing, Detaching, TakeLock
<1>9. ASSUME NEW g \in Gestures, Grant(g) PROVE AccessFollowsState'
  BY <1>9 DEF IInv, TypeOK, Shaped, AccessFollowsState, Sealing, Detaching, Grant
<1>10. ASSUME NEW g \in Gestures, ReadState(g) PROVE AccessFollowsState'
  BY <1>10 DEF IInv, TypeOK, Shaped, AccessFollowsState, Sealing, Detaching, ReadState, Closed
<1>11. ASSUME NEW g \in Gestures, ReadFails(g) PROVE AccessFollowsState'
  BY <1>11 DEF IInv, TypeOK, Shaped, AccessFollowsState, Sealing, Detaching, ReadFails
<1>12. ASSUME NEW g \in Gestures, RevokeWrite(g) PROVE AccessFollowsState'
  <2>1. \A h \in Gestures : h # g => gest'[h] = gest[h]
    BY <1>12 DEF IInv, TypeOK, RevokeWrite
  <2>2. gest[g].pc = "write" /\ UNCHANGED <<banned, sessions>>
    BY <1>12 DEF RevokeWrite
  <2>3. CASE role' = role
    BY <2>1, <2>2, <2>3 DEF IInv, AccessFollowsState, Sealing, Detaching
  <2>4. CASE role' = role \ {gest[g].target} /\ Goto(g, "close")
    <3>1. gest'[g].pc = "close" /\ gest'[g].kind = "revoke" /\ gest'[g].target = gest[g].target
      BY <1>12, <2>4 DEF IInv, TypeOK, RevokeWrite
    <3> QED BY <2>1, <2>2, <2>4, <3>1 DEF IInv, AccessFollowsState, Sealing, Detaching
  <2> QED BY <1>12, <2>3, <2>4 DEF RevokeWrite
<1>13. ASSUME NEW g \in Gestures, EndBorrows(g) PROVE AccessFollowsState'
  BY <1>13 DEF IInv, TypeOK, Shaped, AccessFollowsState, Sealing, Detaching, EndBorrows
<1>14. ASSUME NEW g \in Gestures, EndBorrowsFails(g) PROVE AccessFollowsState'
  BY <1>14 DEF IInv, TypeOK, Shaped, AccessFollowsState, Sealing, Detaching, EndBorrowsFails
<1>15. ASSUME NEW g \in Gestures, BanMark(g) PROVE AccessFollowsState'
  <2>1. \A h \in Gestures : h # g => gest'[h] = gest[h]
    BY <1>15 DEF IInv, TypeOK, BanMark
  <2>2. gest[g].pc = "write" /\ UNCHANGED <<role, sessions>>
    BY <1>15 DEF BanMark
  <2>3. CASE banned' = banned
    BY <2>1, <2>2, <2>3 DEF IInv, AccessFollowsState, Sealing, Detaching
  <2>4. CASE banned' = banned \cup {gest[g].target} /\ Goto(g, "seal")
    <3>1. gest'[g].pc = "seal" /\ gest'[g].kind = "ban" /\ gest'[g].target = gest[g].target
      BY <1>15, <2>4 DEF IInv, TypeOK, BanMark
    <3> QED BY <2>1, <2>2, <2>4, <3>1 DEF IInv, AccessFollowsState, Sealing, Detaching
  <2> QED BY <1>15, <2>3, <2>4 DEF BanMark
<1>16. ASSUME NEW g \in Gestures, BanSeal(g) PROVE AccessFollowsState'
  BY <1>16 DEF IInv, TypeOK, Shaped, AccessFollowsState, Sealing, Detaching, BanSeal
<1>17. ASSUME NEW g \in Gestures, BanFails(g) PROVE AccessFollowsState'
  BY <1>17 DEF IInv, TypeOK, Shaped, AccessFollowsState, Sealing, Detaching, BanFails
<1>18. ASSUME NEW g \in Gestures, Unban(g) PROVE AccessFollowsState'
  BY <1>18 DEF IInv, TypeOK, Shaped, AccessFollowsState, Sealing, Detaching, Unban
<1>19. ASSUME NEW g \in Gestures, Kick(g) PROVE AccessFollowsState'
  BY <1>19 DEF IInv, TypeOK, Shaped, AccessFollowsState, Sealing, Detaching, Kick
<1>20. ASSUME NEW g \in Gestures, KickNothing(g) PROVE AccessFollowsState'
  BY <1>20 DEF IInv, TypeOK, Shaped, AccessFollowsState, Sealing, Detaching, KickNothing
<1>21. ASSUME NEW g \in Gestures, StartAim(g) PROVE AccessFollowsState'
  BY <1>21 DEF IInv, TypeOK, Shaped, AccessFollowsState, Sealing, Detaching, StartAim
<1>22. ASSUME NEW g \in Gestures, StartResolve(g) PROVE AccessFollowsState'
  BY <1>22 DEF IInv, TypeOK, Shaped, AccessFollowsState, Sealing, Detaching, StartResolve
<1>23. ASSUME NEW g \in Gestures, StartOpen(g) PROVE AccessFollowsState'
  <2>1. \A h \in Gestures : h # g => gest'[h] = gest[h]
    BY <1>23 DEF IInv, TypeOK, StartOpen, CreateGuarded
  <2>2. gest[g].pc = "open" /\ UNCHANGED <<role, banned>>
    BY <1>23 DEF StartOpen, CreateGuarded
  <2>3. \A a \in Accounts : Sealing(a)' = Sealing(a) /\ Detaching(a)' = Detaching(a)
    <3>1. gest'[g].pc \in {"done", "rotate"} BY <1>23 DEF IInv, TypeOK, GestureRecords, StartOpen, CreateGuarded
    <3> QED BY <2>1, <2>2, <3>1 DEF Sealing, Detaching
  <2>4. sessions' \subseteq sessions \cup {Row(issued + 1, gest[g].target, gest[g].actor)}
    BY <1>23 DEF StartOpen, CreateGuarded
  <2>5. LET s == Row(issued + 1, gest[g].target, gest[g].actor) IN
          ~s.late => s.user \notin banned /\ s.by \notin banned /\ (s.by # Nobody => s.by \in role)
    BY DEF IInv, TypeOK
  <2> QED BY <2>2, <2>3, <2>4, <2>5 DEF IInv, TypeOK, AccessFollowsState, SessionRows
<1>24. ASSUME NEW g \in Gestures, StopFind(g) PROVE AccessFollowsState'
  BY <1>24 DEF IInv, TypeOK, Shaped, AccessFollowsState, Sealing, Detaching, StopFind
<1>25. ASSUME NEW g \in Gestures, StopRestore(g) PROVE AccessFollowsState'
  BY <1>25 DEF IInv, TypeOK, Shaped, AccessFollowsState, Sealing, Detaching, StopRestore, CreateGuarded
<1>26. ASSUME NEW g \in Gestures, Rotate(g) PROVE AccessFollowsState'
  BY <1>26 DEF IInv, TypeOK, Shaped, AccessFollowsState, Sealing, Detaching, Rotate
<1>27. ASSUME NEW g \in Gestures, SignInInsert(g) PROVE AccessFollowsState'
  <2>1. \A h \in Gestures : h # g => gest'[h] = gest[h]
    BY <1>27 DEF IInv, TypeOK, SignInInsert
  <2>2. gest[g].pc = "insert" /\ UNCHANGED <<role, banned>>
    BY <1>27 DEF SignInInsert
  <2>3. \A a \in Accounts : Sealing(a)' = Sealing(a) /\ Detaching(a)' = Detaching(a)
    <3>1. gest'[g].pc \in {"done", "rotate"} BY <1>27 DEF IInv, TypeOK, GestureRecords, SignInInsert
    <3> QED BY <2>1, <2>2, <3>1 DEF Sealing, Detaching
  <2>4. sessions' \subseteq sessions \cup {Row(issued + 1, gest[g].actor, Nobody)}
    BY <1>27 DEF SignInInsert
  <2>5. LET s == Row(issued + 1, gest[g].actor, Nobody) IN
          ~s.late => s.user \notin banned /\ s.by \notin banned /\ (s.by # Nobody => s.by \in role)
    BY DEF IInv, TypeOK
  <2> QED BY <2>2, <2>3, <2>4, <2>5 DEF IInv, TypeOK, AccessFollowsState, SessionRows
<1>28. ASSUME NEW a \in Accounts, MarkLeaving(a) PROVE AccessFollowsState'
  BY <1>28 DEF IInv, TypeOK, Shaped, AccessFollowsState, Sealing, Detaching, MarkLeaving
<1>29. ASSUME NEW s \in sessions, Tick(s) PROVE AccessFollowsState'
  <2>1. UNCHANGED <<role, banned, gest>>
    BY <1>29 DEF Tick
  <2>2. \A t \in sessions' : \E u \in sessions : t.user = u.user /\ t.by = u.by /\ t.late = u.late
    BY <1>29 DEF IInv, TypeOK, SessionRows, Tick
  <2> QED BY <2>1, <2>2 DEF IInv, AccessFollowsState, Sealing, Detaching
<1>30. ASSUME NEW s \in sessions, Refresh(s) PROVE AccessFollowsState'
  <2>1. UNCHANGED <<role, banned, gest>>
    BY <1>30 DEF Refresh
  <2>2. \A t \in sessions' : \E u \in sessions : t.user = u.user /\ t.by = u.by /\ t.late = u.late
    BY <1>30 DEF IInv, TypeOK, SessionRows, Refresh
  <2> QED BY <2>1, <2>2 DEF IInv, AccessFollowsState, Sealing, Detaching
<1>31. ASSUME Sweep PROVE AccessFollowsState'
  BY <1>31 DEF IInv, TypeOK, Shaped, AccessFollowsState, Sealing, Detaching, Sweep
<1>32. CASE UNCHANGED vars
  BY <1>32 DEF vars, IInv, TypeOK, Shaped, AccessFollowsState, Sealing, Detaching
<1> QED
  BY <1>1, <1>2, <1>3, <1>4, <1>5, <1>6, <1>7, <1>8, <1>9, <1>10, <1>11, <1>12, <1>13,
     <1>14, <1>15, <1>16, <1>17, <1>18, <1>19, <1>20, <1>21, <1>22, <1>23, <1>24, <1>25,
     <1>26, <1>27, <1>28, <1>29, <1>30, <1>31, <1>32, <1>33
     DEF Next, Arrive, Step, Around

\* The strengthening is an invariant of Administration.
LEMMA Inductive == Spec => []IInv
<1>1. IInv /\ [Next]_vars => IInv'
  BY ShapedStep, GestureStep, RowsStep, ExclusiveStep, HasReadStep, AccessStep
     DEF IInv, TypeOK, RowsTyped
<1> QED BY InitInductive, <1>1, PTL DEF Spec

\* Every reachable state is well typed.
THEOREM AdministrationTypes == Spec => []TypeOK
<1>1. IInv => TypeOK BY DEF IInv
<1> QED BY Inductive, <1>1, PTL

\* A ban or a revocation reaches every session it is about, whatever was in
\* flight, but for the rows inserted by a request let in before.
THEOREM AccessFollows == Spec => []AccessFollowsState
<1>1. IInv => AccessFollowsState BY DEF IInv
<1> QED BY Inductive, <1>1, PTL

\* The write of a gesture that was not outrun leaves a superadmin.
LEMMA WriteLeavesOne ==
  ASSUME IInv, NEW g \in Gestures, RevokeWrite(g) \/ BanMark(g),
         ~OutrunByLeaving(g), ~OutrunByUnban(g)
  PROVE  Capable' # {}
<1> USE AdministrationAssumption
<1>1. gest[g].pc = "write" /\ leaving' = leaving
  BY DEF RevokeWrite, BanMark
<1>2. role \ gest[g].blocked # {} /\ role \ gest[g].blocked \subseteq Capable
  BY <1>1 DEF IInv, HasRead, OutrunByLeaving, OutrunByUnban, Capable, Closed
<1>3. CASE RevokeWrite(g)
  <2>1. \E a \in role \ gest[g].blocked : a \in role'
    BY <1>2, <1>3 DEF RevokeWrite, SurvivorLeft
  <2> QED BY <2>1, <1>2, <1>3 DEF RevokeWrite, RowsUnchanged, Capable, Closed
<1>4. CASE BanMark(g)
  <2>1. CASE BanRefused(g)
    BY <2>1, <1>2, <1>4 DEF BanMark, Capable, Closed
  <2>2. CASE ~BanRefused(g)
    <3>1. \E a \in role \ gest[g].blocked : a # gest[g].target
      <4>1. CASE role \ gest[g].blocked \subseteq {gest[g].target}
        <5>1. role \ gest[g].blocked = {gest[g].target} BY <4>1, <1>2
        <5>2. Cardinality(role \ gest[g].blocked) = 1 BY <5>1, FS_Singleton
        <5> QED BY <5>1, <5>2, <2>2 DEF BanRefused
      <4> QED BY <4>1
    <3> QED BY <3>1, <1>2, <1>4, <2>2 DEF BanMark, Capable, Closed
  <2> QED BY <2>1, <2>2
<1> QED BY <1>3, <1>4

\* No sequence of revocations, bans and promotions takes the platform its last superadmin
\* able to sign in: a deletion request does, or a gesture decided on a reading that a deletion
\* request, or the lifting of a ban when all superadmins were refused, has outrun.
THEOREM SuperadminKept == Spec => LastSuperadminKept
<1>1. IInv /\ [Next]_vars
      => [Capable # {} /\ Capable' = {}
            => \/ leaving' # leaving
               \/ \E g \in Gestures : OutrunByLeaving(g) \/ OutrunByUnban(g)]_vars
  <2> SUFFICES ASSUME IInv, [Next]_vars, Capable # {}, leaving' = leaving,
                      ~ \E g \in Gestures : OutrunByLeaving(g) \/ OutrunByUnban(g)
               PROVE  Capable' # {}
    OBVIOUS
  <2>1. ASSUME NEW g \in Gestures, RevokeWrite(g) \/ BanMark(g) PROVE Capable' # {}
    BY <2>1, WriteLeavesOne
  <2>2. CASE role \subseteq role' /\ banned' \subseteq banned
    BY <2>2 DEF Capable, Closed
  <2> QED
    BY <2>1, <2>2
       DEF Next, Arrive, Step, Around, vars, Enter, SignInHook, AuthorizeSession,
           CountSuperadmins, Designate, AuthorizeRole, Begin, BeginTimesOut, TakeLock, Grant, ReadState, ReadFails,
           EndBorrows, EndBorrowsFails, BanSeal, BanFails, Unban, Kick, KickNothing, StartAim,
           StartResolve, StartOpen, StopFind, StopRestore, Rotate, SignInInsert, MarkLeaving,
           Tick, Refresh, Sweep, RowsUnchanged
<1> QED BY Inductive, <1>1, PTL DEF Spec, LastSuperadminKept
=============================================================================
