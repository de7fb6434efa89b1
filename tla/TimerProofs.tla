---------------------------- MODULE TimerProofs ----------------------------
(***************************************************************************)
(* Safety of Timer for every set of timers.                                *)
(*                                                                         *)
(* The properties are nearly inductive.  What they need and do not say is  *)
(* that a destructor runs only for a timer that is dying, that start() is  *)
(* called by an owner, that after a late call the timer is stopped and its *)
(* worker out of the function, and that the list is changed by the holder  *)
(* of its lock.                                                            *)
(***************************************************************************)
EXTENDS Timer, TLAPS

\* The timers that are destroyed under the lock are dying, nobody else's.
ReapDying == \A t \in reap : life[t] = "dying"

\* start() is called through a handle, which outlives the call.
StartingIsHeld == \A t \in starting : Held(t) /\ life[t] = "started"

Ownership == OwnedOrDying /\ ReapDying /\ StartingIsHeld

\* A late call was the last one of its worker, until the next start().
LateIsLast ==
    \A t \in Timers :
        /\ late[t] \in {0, 1}
        /\ late[t] = 1 => ~running[t] /\ wpc[t] # "func"

\* One thread at a time is inside the locked part of unregist() or of
\* force_stop_all (Timer.cpp:83-105).
ListIsGuarded ==
    /\ \A t \in Timers : wpc[t] \in {"erase", "unlock"} => lock = t
    /\ mpc \in Timers \cup {"next", "clear"} => lock = Manager

IInv ==
    /\ TypeOK
    /\ NoUseAfterFree
    /\ Ownership
    /\ LateIsLast
    /\ ListIsGuarded

USE ManagerAssumption

-----------------------------------------------------------------------------

\* Initially there are no timers, no worker runs and nobody has the lock
\* (Timer.cpp:45-52, 70-72).
LEMMA InitIInv == Init => IInv
<1> SUFFICES ASSUME Init PROVE IInv
  OBVIOUS
<1>1. TypeOK
  BY DEF Init, TypeOK, WorkerPCs, Free
<1>2. NoUseAfterFree /\ Ownership
  BY DEF Init, NoUseAfterFree, Ownership, OwnedOrDying, Held, ReapDying,
             StartingIsHeld
<1>3. LateIsLast
  BY DEF Init, LateIsLast
<1>4. ListIsGuarded
  BY DEF Init, ListIsGuarded
<1>5. QED
  BY <1>1, <1>2, <1>3, <1>4 DEF IInv

\* Every step keeps every variable in its type; the lock is given back before its
\* holder leaves unregist() (Timer.cpp:83-91).
LEMMA TypeStep ==
    ASSUME TypeOK, Next
    PROVE  TypeOK'
<1> USE DEF TypeOK, WorkerPCs, Free, refVars, forceVars
<1>1. ASSUME NEW t \in Timers, Create(t) PROVE TypeOK'
  BY <1>1 DEF Create
<1>2. ASSUME NEW t \in Timers, Start(t) PROVE TypeOK'
  BY <1>2 DEF Start, Held
<1>3. ASSUME NEW t \in Timers, Stop(t) PROVE TypeOK'
  BY <1>3 DEF Stop
<1>4. ASSUME NEW t \in Timers, Drop(t) PROVE TypeOK'
  BY <1>4 DEF Drop, Condemn, Held
<1>5. ASSUME NEW t \in Timers, UserFree(t) PROVE TypeOK'
  BY <1>5 DEF UserFree, Gone
<1>6. ASSUME NEW t \in Timers, Wake(t) PROVE TypeOK'
  BY <1>6 DEF Wake, WGoto
<1>7. ASSUME NEW t \in Timers, Loop(t) PROVE TypeOK'
  BY <1>7 DEF Loop, WGoto
<1>8. ASSUME NEW t \in Timers, Func(t) PROVE TypeOK'
  BY <1>8 DEF Func, WGoto
<1>9. ASSUME NEW t \in Timers, Promise(t) PROVE TypeOK'
  BY <1>9 DEF Promise, WGoto
<1>10. ASSUME NEW t \in Timers, SharedFromDead(t) PROVE TypeOK'
  BY <1>10 DEF SharedFromDead, Held
<1>11. ASSUME NEW t \in Timers, TryLock(t) PROVE TypeOK'
  BY <1>11 DEF TryLock, WGoto, Held
<1>12. ASSUME NEW t \in Timers, Erase(t) PROVE TypeOK'
  BY <1>12 DEF Erase, WGoto, Condemn, Held
<1>13. ASSUME NEW t \in Timers, Unlock(t) PROVE TypeOK'
  BY <1>13 DEF Unlock, WGoto
<1>14. ASSUME NEW t \in Timers, Leave(t) PROVE TypeOK'
  BY <1>14 DEF Leave, WGoto, Condemn, Held
<1>15. ASSUME NEW t \in Timers, Reap(t) PROVE TypeOK'
  BY <1>15 DEF Reap, Gone
<1>16. ASSUME NEW t \in Timers, ForceStop(t) PROVE TypeOK'
  BY <1>16 DEF ForceStop
<1>17. ASSUME NEW t \in Timers, ForceWait(t) PROVE TypeOK'
  BY <1>17 DEF ForceWait, Gone
<1>18. CASE ForceShutdown
  BY <1>18 DEF ForceShutdown
<1>19. CASE ForceLock
  BY <1>19 DEF ForceLock
<1>20. CASE ForceClear
  BY <1>20 DEF ForceClear, Condemn, Held
<1>21. CASE ForceUnlock
  BY <1>21 DEF ForceUnlock
<1>22. ASSUME NEW t \in Timers, Launch(t) PROVE TypeOK'
  BY <1>22 DEF Launch, Gone
<1> HIDE DEF TypeOK, WorkerPCs, Free, refVars, forceVars
<1>23. QED
  BY <1>1, <1>2, <1>3, <1>4, <1>5, <1>6, <1>7, <1>8, <1>9, <1>10, <1>11,
     <1>12, <1>13, <1>14, <1>15, <1>16, <1>17, <1>18, <1>19, <1>20, <1>21,
     <1>22 DEF Next, Worker, ForceStopAll

\* A timer is freed only when its worker has gone, and no worker starts in a freed
\* timer (Timer.cpp:113-126).
LEMMA FreedStep ==
    ASSUME TypeOK, NoUseAfterFree, Ownership, Next
    PROVE  NoUseAfterFree'
<1> USE DEF TypeOK, NoUseAfterFree, Gone, refVars, forceVars
<1>1. ASSUME NEW t \in Timers, Create(t) PROVE NoUseAfterFree'
  BY <1>1 DEF Create
<1>2. ASSUME NEW t \in Timers, Start(t) PROVE NoUseAfterFree'
  BY <1>2 DEF Start, Held
<1>3. ASSUME NEW t \in Timers, Stop(t) PROVE NoUseAfterFree'
  BY <1>3 DEF Stop
<1>4. ASSUME NEW t \in Timers, Drop(t) PROVE NoUseAfterFree'
  BY <1>4 DEF Drop, Condemn, Held
<1>5. ASSUME NEW t \in Timers, UserFree(t) PROVE NoUseAfterFree'
  BY <1>5 DEF UserFree, Ownership, StartingIsHeld
<1>6. ASSUME NEW t \in Timers, Wake(t) PROVE NoUseAfterFree'
  BY <1>6 DEF Wake, WGoto
<1>7. ASSUME NEW t \in Timers, Loop(t) PROVE NoUseAfterFree'
  BY <1>7 DEF Loop, WGoto
<1>8. ASSUME NEW t \in Timers, Func(t) PROVE NoUseAfterFree'
  BY <1>8 DEF Func, WGoto
<1>9. ASSUME NEW t \in Timers, Promise(t) PROVE NoUseAfterFree'
  BY <1>9 DEF Promise, WGoto
<1>10. ASSUME NEW t \in Timers, SharedFromDead(t) PROVE NoUseAfterFree'
  BY <1>10 DEF SharedFromDead, Held
<1>11. ASSUME NEW t \in Timers, TryLock(t) PROVE NoUseAfterFree'
  BY <1>11 DEF TryLock, WGoto, Held
<1>12. ASSUME NEW t \in Timers, Erase(t) PROVE NoUseAfterFree'
  BY <1>12 DEF Erase, WGoto, Condemn, Held
<1>13. ASSUME NEW t \in Timers, Unlock(t) PROVE NoUseAfterFree'
  BY <1>13 DEF Unlock, WGoto
<1>14. ASSUME NEW t \in Timers, Leave(t) PROVE NoUseAfterFree'
  BY <1>14 DEF Leave, WGoto, Condemn, Held
<1>15. ASSUME NEW t \in Timers, Reap(t) PROVE NoUseAfterFree'
  BY <1>15 DEF Reap, Ownership, ReapDying, StartingIsHeld
<1>16. ASSUME NEW t \in Timers, ForceStop(t) PROVE NoUseAfterFree'
  BY <1>16 DEF ForceStop
<1>17. ASSUME NEW t \in Timers, ForceWait(t) PROVE NoUseAfterFree'
  BY <1>17 DEF ForceWait, Gone
<1>18. CASE ForceShutdown
  BY <1>18 DEF ForceShutdown
<1>19. CASE ForceLock
  BY <1>19 DEF ForceLock
<1>20. CASE ForceClear
  BY <1>20 DEF ForceClear, Condemn, Held
<1>21. CASE ForceUnlock
  BY <1>21 DEF ForceUnlock
<1>22. ASSUME NEW t \in Timers, Launch(t) PROVE NoUseAfterFree'
  BY <1>22 DEF Launch
<1> HIDE DEF TypeOK, NoUseAfterFree, Gone, refVars, forceVars
<1>23. QED
  BY <1>1, <1>2, <1>3, <1>4, <1>5, <1>6, <1>7, <1>8, <1>9, <1>10, <1>11,
     <1>12, <1>13, <1>14, <1>15, <1>16, <1>17, <1>18, <1>19, <1>20, <1>21,
     <1>22 DEF Next, Worker, ForceStopAll

\* Whoever drops the last reference, and nobody else, begins the destruction
\* (Timer.cpp:83-118, 170-178).
LEMMA OwnedStep ==
    ASSUME TypeOK, Ownership, Next
    PROVE  Ownership'
<1> USE DEF TypeOK, Ownership, OwnedOrDying, ReapDying, StartingIsHeld, Held,
    refVars, forceVars
<1>1. ASSUME NEW t \in Timers, Create(t) PROVE Ownership'
  BY <1>1 DEF Create
<1>2. ASSUME NEW t \in Timers, Start(t) PROVE Ownership'
  BY <1>2 DEF Start, Held
<1>3. ASSUME NEW t \in Timers, Stop(t) PROVE Ownership'
  BY <1>3 DEF Stop
<1>4. ASSUME NEW t \in Timers, Drop(t) PROVE Ownership'
  BY <1>4 DEF Drop, Condemn, Held
<1>5. ASSUME NEW t \in Timers, UserFree(t) PROVE Ownership'
  BY <1>5 DEF UserFree, Gone
<1>6. ASSUME NEW t \in Timers, Wake(t) PROVE Ownership'
  BY <1>6 DEF Wake, WGoto
<1>7. ASSUME NEW t \in Timers, Loop(t) PROVE Ownership'
  BY <1>7 DEF Loop, WGoto
<1>8. ASSUME NEW t \in Timers, Func(t) PROVE Ownership'
  BY <1>8 DEF Func, WGoto
<1>9. ASSUME NEW t \in Timers, Promise(t) PROVE Ownership'
  BY <1>9 DEF Promise, WGoto
<1>10. ASSUME NEW t \in Timers, SharedFromDead(t) PROVE Ownership'
  BY <1>10 DEF SharedFromDead, Held
<1>11. ASSUME NEW t \in Timers, TryLock(t) PROVE Ownership'
  BY <1>11 DEF TryLock, WGoto, Held
<1>12. ASSUME NEW t \in Timers, Erase(t) PROVE Ownership'
  BY <1>12 DEF Erase, WGoto, Condemn, Held
<1>13. ASSUME NEW t \in Timers, Unlock(t) PROVE Ownership'
  BY <1>13 DEF Unlock, WGoto
<1>14. ASSUME NEW t \in Timers, Leave(t) PROVE Ownership'
  BY <1>14 DEF Leave, WGoto, Condemn, Held
<1>15. ASSUME NEW t \in Timers, Reap(t) PROVE Ownership'
  BY <1>15 DEF Reap, Gone
<1>16. ASSUME NEW t \in Timers, ForceStop(t) PROVE Ownership'
  BY <1>16 DEF ForceStop
<1>17. ASSUME NEW t \in Timers, ForceWait(t) PROVE Ownership'
  BY <1>17 DEF ForceWait, Gone
<1>18. CASE ForceShutdown
  BY <1>18 DEF ForceShutdown
<1>19. CASE ForceLock
  BY <1>19 DEF ForceLock
<1>20. CASE ForceClear
  BY <1>20 DEF ForceClear, Condemn, Held
<1>21. CASE ForceUnlock
  BY <1>21 DEF ForceUnlock
<1>22. ASSUME NEW t \in Timers, Launch(t) PROVE Ownership'
  BY <1>22 DEF Launch
<1> HIDE DEF TypeOK, Ownership, OwnedOrDying, ReapDying, StartingIsHeld, Held,
    refVars, forceVars
<1>23. QED
  BY <1>1, <1>2, <1>3, <1>4, <1>5, <1>6, <1>7, <1>8, <1>9, <1>10, <1>11,
     <1>12, <1>13, <1>14, <1>15, <1>16, <1>17, <1>18, <1>19, <1>20, <1>21,
     <1>22 DEF Next, Worker, ForceStopAll

\* After a call that was late the loop ends (Timer.cpp:133-144).
LEMMA LateStep ==
    ASSUME TypeOK, LateIsLast, Next
    PROVE  LateIsLast'
<1> USE DEF TypeOK, LateIsLast, refVars, forceVars
<1>1. ASSUME NEW t \in Timers, Create(t) PROVE LateIsLast'
  BY <1>1 DEF Create
<1>2. ASSUME NEW t \in Timers, Start(t) PROVE LateIsLast'
  BY <1>2 DEF Start, Held
<1>3. ASSUME NEW t \in Timers, Stop(t) PROVE LateIsLast'
  BY <1>3 DEF Stop
<1>4. ASSUME NEW t \in Timers, Drop(t) PROVE LateIsLast'
  BY <1>4 DEF Drop, Condemn, Held
<1>5. ASSUME NEW t \in Timers, UserFree(t) PROVE LateIsLast'
  BY <1>5 DEF UserFree, Gone
<1>6. ASSUME NEW t \in Timers, Wake(t) PROVE LateIsLast'
  BY <1>6 DEF Wake, WGoto
<1>7. ASSUME NEW t \in Timers, Loop(t) PROVE LateIsLast'
  BY <1>7 DEF Loop, WGoto
<1>8. ASSUME NEW t \in Timers, Func(t) PROVE LateIsLast'
  BY <1>8 DEF Func, WGoto
<1>9. ASSUME NEW t \in Timers, Promise(t) PROVE LateIsLast'
  BY <1>9 DEF Promise, WGoto
<1>10. ASSUME NEW t \in Timers, SharedFromDead(t) PROVE LateIsLast'
  BY <1>10 DEF SharedFromDead, Held
<1>11. ASSUME NEW t \in Timers, TryLock(t) PROVE LateIsLast'
  BY <1>11 DEF TryLock, WGoto, Held
<1>12. ASSUME NEW t \in Timers, Erase(t) PROVE LateIsLast'
  BY <1>12 DEF Erase, WGoto, Condemn, Held
<1>13. ASSUME NEW t \in Timers, Unlock(t) PROVE LateIsLast'
  BY <1>13 DEF Unlock, WGoto
<1>14. ASSUME NEW t \in Timers, Leave(t) PROVE LateIsLast'
  BY <1>14 DEF Leave, WGoto, Condemn, Held
<1>15. ASSUME NEW t \in Timers, Reap(t) PROVE LateIsLast'
  BY <1>15 DEF Reap, Gone
<1>16. ASSUME NEW t \in Timers, ForceStop(t) PROVE LateIsLast'
  BY <1>16 DEF ForceStop
<1>17. ASSUME NEW t \in Timers, ForceWait(t) PROVE LateIsLast'
  BY <1>17 DEF ForceWait, Gone
<1>18. CASE ForceShutdown
  BY <1>18 DEF ForceShutdown
<1>19. CASE ForceLock
  BY <1>19 DEF ForceLock
<1>20. CASE ForceClear
  BY <1>20 DEF ForceClear, Condemn, Held
<1>21. CASE ForceUnlock
  BY <1>21 DEF ForceUnlock
<1>22. ASSUME NEW t \in Timers, Launch(t) PROVE LateIsLast'
  BY <1>22 DEF Launch
<1> HIDE DEF TypeOK, LateIsLast, refVars, forceVars
<1>23. QED
  BY <1>1, <1>2, <1>3, <1>4, <1>5, <1>6, <1>7, <1>8, <1>9, <1>10, <1>11,
     <1>12, <1>13, <1>14, <1>15, <1>16, <1>17, <1>18, <1>19, <1>20, <1>21,
     <1>22 DEF Next, Worker, ForceStopAll

\* The lock passes from one holder to the next through being free
\* (Timer.cpp:83-105).
LEMMA ListStep ==
    ASSUME TypeOK, ListIsGuarded, Next
    PROVE  ListIsGuarded'
<1> USE DEF TypeOK, ListIsGuarded, Free, refVars, forceVars
<1>1. ASSUME NEW t \in Timers, Create(t) PROVE ListIsGuarded'
  BY <1>1 DEF Create
<1>2. ASSUME NEW t \in Timers, Start(t) PROVE ListIsGuarded'
  BY <1>2 DEF Start, Held
<1>3. ASSUME NEW t \in Timers, Stop(t) PROVE ListIsGuarded'
  BY <1>3 DEF Stop
<1>4. ASSUME NEW t \in Timers, Drop(t) PROVE ListIsGuarded'
  BY <1>4 DEF Drop, Condemn, Held
<1>5. ASSUME NEW t \in Timers, UserFree(t) PROVE ListIsGuarded'
  BY <1>5 DEF UserFree, Gone
<1>6. ASSUME NEW t \in Timers, Wake(t) PROVE ListIsGuarded'
  BY <1>6 DEF Wake, WGoto
<1>7. ASSUME NEW t \in Timers, Loop(t) PROVE ListIsGuarded'
  BY <1>7 DEF Loop, WGoto
<1>8. ASSUME NEW t \in Timers, Func(t) PROVE ListIsGuarded'
  BY <1>8 DEF Func, WGoto
<1>9. ASSUME NEW t \in Timers, Promise(t) PROVE ListIsGuarded'
  BY <1>9 DEF Promise, WGoto
<1>10. ASSUME NEW t \in Timers, SharedFromDead(t) PROVE ListIsGuarded'
  BY <1>10 DEF SharedFromDead, Held
<1>11. ASSUME NEW t \in Timers, TryLock(t) PROVE ListIsGuarded'
  BY <1>11 DEF TryLock, WGoto, Held
<1>12. ASSUME NEW t \in Timers, Erase(t) PROVE ListIsGuarded'
  BY <1>12 DEF Erase, WGoto, Condemn, Held
<1>13. ASSUME NEW t \in Timers, Unlock(t) PROVE ListIsGuarded'
  BY <1>13 DEF Unlock, WGoto
<1>14. ASSUME NEW t \in Timers, Leave(t) PROVE ListIsGuarded'
  BY <1>14 DEF Leave, WGoto, Condemn, Held
<1>15. ASSUME NEW t \in Timers, Reap(t) PROVE ListIsGuarded'
  BY <1>15 DEF Reap, Gone
<1>16. ASSUME NEW t \in Timers, ForceStop(t) PROVE ListIsGuarded'
  BY <1>16 DEF ForceStop
<1>17. ASSUME NEW t \in Timers, ForceWait(t) PROVE ListIsGuarded'
  BY <1>17 DEF ForceWait, Gone
<1>18. CASE ForceShutdown
  BY <1>18 DEF ForceShutdown
<1>19. CASE ForceLock
  BY <1>19 DEF ForceLock
<1>20. CASE ForceClear
  BY <1>20 DEF ForceClear, Condemn, Held
<1>21. CASE ForceUnlock
  BY <1>21 DEF ForceUnlock
<1>22. ASSUME NEW t \in Timers, Launch(t) PROVE ListIsGuarded'
  BY <1>22 DEF Launch
<1> HIDE DEF TypeOK, ListIsGuarded, Free, refVars, forceVars
<1>23. QED
  BY <1>1, <1>2, <1>3, <1>4, <1>5, <1>6, <1>7, <1>8, <1>9, <1>10, <1>11,
     <1>12, <1>13, <1>14, <1>15, <1>16, <1>17, <1>18, <1>19, <1>20, <1>21,
     <1>22 DEF Next, Worker, ForceStopAll

-----------------------------------------------------------------------------

\* Steps of the timers and of the manager, and stuttering, keep the invariant.
LEMMA IInvStep == IInv /\ [Next]_vars => IInv'
<1> SUFFICES ASSUME IInv, [Next]_vars PROVE IInv'
  OBVIOUS
<1>1. CASE Next
  BY <1>1, TypeStep, FreedStep, OwnedStep, LateStep, ListStep DEF IInv
<1>2. CASE UNCHANGED vars
  BY <1>2 DEF vars, refVars, forceVars, IInv, TypeOK, NoUseAfterFree, Gone,
              Ownership, OwnedOrDying, Held, ReapDying, StartingIsHeld, LateIsLast,
              ListIsGuarded
<1>3. QED
  BY <1>1, <1>2

\* The invariant holds in every reachable state, for any set of timers.
THEOREM Invariance == Spec => []IInv
<1>1. QED
  BY InitIInv, IInvStep, PTL DEF Spec

\* Type correctness, for any set of timers.
THEOREM TypeCorrect == Spec => []TypeOK
<1>1. IInv => TypeOK
  BY DEF IInv
<1>2. QED
  BY <1>1, Invariance, PTL

\* No timer is freed under its worker, whoever destroys it (Timer.cpp:83-118).
THEOREM FreedIsGone == Spec => []NoUseAfterFree
<1>1. IInv => NoUseAfterFree
  BY DEF IInv
<1>2. QED
  BY <1>1, Invariance, PTL

\* A timer is destroyed when, and only when, nobody refers to it
\* (Timer.cpp:83-118, 170-178).
THEOREM ReferencesAreExact == Spec => []OwnedOrDying
<1>1. IInv => OwnedOrDying
  BY DEF IInv, Ownership
<1>2. QED
  BY <1>1, Invariance, PTL

\* After stop() the function is called at most once more (Timer.cpp:133-144).
THEOREM OneLateCall == Spec => []AtMostOneLateCall
<1>1. IInv => AtMostOneLateCall
  BY DEF IInv, LateIsLast, AtMostOneLateCall
<1>2. QED
  BY <1>1, Invariance, PTL

\* Workers in unregist() and force_stop_all never are in the list together
\* (Timer.cpp:83-105).
THEOREM OneHolderOfTheList == Spec => []ListIsGuarded
<1>1. IInv => ListIsGuarded
  BY DEF IInv
<1>2. QED
  BY <1>1, Invariance, PTL
=============================================================================
