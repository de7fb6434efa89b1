--------------------------- MODULE IOContextProofs ---------------------------
(***************************************************************************)
(* Safety of IOContext for every number of workers, handlers and callers.  *)
(*                                                                         *)
(* That stop() waits is not a matter of that call alone:                   *)
(* TaskExecutor::stop() waits in its first call only, and what a later     *)
(* call finds must have been left by the first.  A second thread that is   *)
(* in stop() at the same time would not wait: StopsOnce is a hypothesis.   *)
(***************************************************************************)
EXTENDS IOContext, TLAPS

\* A caller in run() still has a task to load.
LoadsLeft == \A c \in Callers : cpc[c] \in {"store", "load"} => loaded[c] < ExecutorCount

\* The callers that are in stop(), past its check.
Stopping == {c \in Callers : cpc[c] \notin {"idle", "store", "load"}}

\* One thread at a time is in stop().
OneStopper == \A c, d \in Stopping : c = d

\* Once the executor's stop() has waited, no task of the pool runs.
QuietPool == quiet => ~accepting /\ \A l \in Loops : status[l] # "running"

\* An executor that has been stopped has been waited for, or the thread that
\* stopped it is about to wait.
ClosedIsAwaited == ~accepting => quiet \/ \E c \in Callers : cpc[c] = "join"

\* Whoever is past the executor's stop() has the wait behind it.
PastTheWait == \A c \in Callers : cpc[c] \in {"restart", "clear"} => quiet

IInv ==
    /\ TypeOK
    /\ LoadsLeft
    /\ OneStopper
    /\ QuietPool
    /\ ClosedIsAwaited
    /\ PastTheWait

USE CountAssumption, HandlersAssumption

-----------------------------------------------------------------------------

\* Initially nobody is in a call and the pool has no tasks (IOContext.hpp:57-80).
LEMMA InitIInv == Init => IInv
<1> SUFFICES ASSUME Init PROVE IInv
  OBVIOUS
<1>1. TypeOK
  <2>1. {running, guard, stopped} \subseteq BOOLEAN
    BY DEF Init
  <2>2. Pool!PoolTypeOK
    BY DEF Init, Pool!PoolInit, Pool!PoolTypeOK, Pool!Statuses
  <2>3. QED
    BY <2>1, <2>2 DEF Init, TypeOK, CallerPCs
<1>2. LoadsLeft /\ OneStopper /\ PastTheWait
  BY DEF Init, LoadsLeft, OneStopper, Stopping, PastTheWait
<1>3. QuietPool /\ ClosedIsAwaited
  BY DEF Init, QuietPool, ClosedIsAwaited, Pool!PoolInit
<1>4. QED
  BY <1>1, <1>2, <1>3 DEF IInv

-----------------------------------------------------------------------------
(* Types                                                                   *)

\* A step of the pool keeps the pool's types (TaskExecutor.hpp:128-166).
LEMMA PoolStep ==
    ASSUME Pool!PoolTypeOK,
           \/ \E l \in Loops : Pool!Start(l) \/ Pool!Finish(l)
           \/ \E t : Pool!Submit(t)
           \/ Pool!Close
           \/ Pool!Quiesce
           \/ UNCHANGED poolVars
    PROVE  Pool!PoolTypeOK'
<1> USE DEF Pool!PoolTypeOK, Pool!Statuses, Pool!Advance
<1>1. CASE \E l \in Loops : Pool!Start(l) \/ Pool!Finish(l)
  BY <1>1 DEF Pool!Start, Pool!Finish
<1>2. CASE \E t : Pool!Submit(t)
  BY <1>2 DEF Pool!Submit
<1>3. CASE Pool!Close
  BY <1>3 DEF Pool!Close
<1>4. CASE Pool!Quiesce
  BY <1>4 DEF Pool!Quiesce
<1>5. CASE UNCHANGED poolVars
  BY <1>5 DEF poolVars
<1>6. QED
  BY <1>1, <1>2, <1>3, <1>4, <1>5

\* Steps of run(), which also leave a caller in run() with tasks to load.
LEMMA RunType ==
    ASSUME TypeOK, LoadsLeft, NEW c \in Callers,
           RunCheck(c) \/ RunStore(c) \/ RunLoad(c)
    PROVE  TypeOK' /\ LoadsLeft'
<1>1. CASE RunCheck(c)
  <2> USE <1>1 DEF RunCheck, CGoto, contextVars, poolVars, TypeOK
  <2>1. Pool!PoolTypeOK'
    BY PoolStep
  <2>2. TypeOK'
    BY <2>1 DEF CallerPCs
  <2>3. LoadsLeft'
    BY DEF LoadsLeft
  <2>4. QED
    BY <2>2, <2>3
<1>2. CASE RunStore(c)
  <2> USE <1>2 DEF RunStore, CGoto, poolVars, TypeOK
  <2>1. Pool!PoolTypeOK'
    BY PoolStep
  <2>2. TypeOK'
    BY <2>1 DEF CallerPCs
  <2>3. LoadsLeft'
    BY DEF LoadsLeft
  <2>4. QED
    BY <2>2, <2>3
<1>3. CASE RunLoad(c)
  <2> USE <1>3 DEF RunLoad, CGoto, contextVars, TypeOK
  <2>1. Pool!PoolTypeOK'
    BY PoolStep
  <2>2. loaded[c] < ExecutorCount
    BY DEF LoadsLeft
  <2>3. \A l \in Loops : status[l] = "running" => status'[l] = "running"
    BY DEF Pool!Submit, Pool!Advance, Pool!PoolTypeOK
  <2>4. TypeOK'
    BY <2>1, <2>2, <2>3 DEF CallerPCs
  <2>5. LoadsLeft'
    BY <2>2 DEF LoadsLeft
  <2>6. QED
    BY <2>4, <2>5
<1>4. QED
  BY <1>1, <1>2, <1>3

\* A step of stop() (IOContext.hpp:114-123).
StopStep(c) ==
    \/ StopCheck(c) \/ StopGuard(c) \/ StopContext(c) \/ StopExecutor(c)
    \/ StopJoin(c) \/ StopRestart(c) \/ StopClear(c)

\* Steps of stop() change no task and load nothing.
LEMMA StopType ==
    ASSUME TypeOK, LoadsLeft, NEW c \in Callers, StopStep(c)
    PROVE  TypeOK' /\ LoadsLeft'
<1> USE DEF CGoto, TypeOK
<1>1. Pool!PoolTypeOK' /\ status' = status
  <2>1. Pool!Close \/ Pool!Quiesce \/ UNCHANGED poolVars
    BY DEF StopStep, StopCheck, StopGuard, StopContext, StopExecutor,
           StopJoin, StopRestart, StopClear
  <2>2. Pool!PoolTypeOK'
    BY <2>1, PoolStep
  <2>3. QED
    BY <2>1, <2>2 DEF Pool!Close, Pool!Quiesce, poolVars
<1>2. cpc' \in [Callers -> CallerPCs]
  BY DEF CallerPCs, StopStep, StopCheck, StopGuard, StopContext, StopExecutor,
         StopJoin, StopRestart, StopClear
<1>3. \A d \in Callers : cpc'[d] \in {"store", "load"} => cpc'[d] = cpc[d]
  BY DEF CallerPCs, StopStep, StopCheck, StopGuard, StopContext, StopExecutor,
         StopJoin, StopRestart, StopClear
<1>4. /\ {running', guard', stopped'} \subseteq BOOLEAN
      /\ UNCHANGED <<posted, executed, executing, runs, loading, loaded>>
  BY DEF contextVars, StopStep, StopCheck, StopGuard, StopContext, StopExecutor,
         StopJoin, StopRestart, StopClear
<1>5. TypeOK'
  BY <1>1, <1>2, <1>4
<1>6. LoadsLeft'
  BY <1>3, <1>4 DEF LoadsLeft
<1>7. QED
  BY <1>5, <1>6

\* post(), or a step of a task that runs handlers.
LoopStep ==
    \/ \E h \in Handlers : PostHandler(h)
    \/ \E l \in Loops : Enter(l) \/ Dispatch(l) \/ HandlerDone(l) \/ Return(l)

\* A handler is run by a task of the pool that runs, which ends without one.
LEMMA LoopType ==
    ASSUME TypeOK, LoadsLeft, LoopStep
    PROVE  TypeOK' /\ LoadsLeft'
<1>1. CASE \E h \in Handlers : PostHandler(h)
  <2> USE <1>1 DEF PostHandler, callVars, poolVars, TypeOK
  <2>1. Pool!PoolTypeOK'
    BY PoolStep
  <2>2. TypeOK'
    BY <2>1
  <2>3. LoadsLeft'
    BY DEF LoadsLeft
  <2>4. QED
    BY <2>2, <2>3
<1>2. ASSUME NEW l \in Loops, Enter(l) PROVE TypeOK' /\ LoadsLeft'
  <2> USE <1>2 DEF Enter, callVars, contextVars, TypeOK
  <2>1. Pool!PoolTypeOK'
    BY PoolStep
  <2>2. \A k \in Loops : status[k] = "running" => status'[k] = "running"
    BY DEF Pool!Start, Pool!Advance, Pool!PoolTypeOK
  <2>3. TypeOK'
    BY <2>1, <2>2
  <2>4. LoadsLeft'
    BY DEF LoadsLeft
  <2>5. QED
    BY <2>3, <2>4
<1>3. ASSUME NEW l \in Loops, Dispatch(l) PROVE TypeOK' /\ LoadsLeft'
  <2> USE <1>3 DEF Dispatch, callVars, poolVars, TypeOK
  <2>1. Pool!PoolTypeOK'
    BY PoolStep
  <2>2. PICK h \in posted : /\ executing' = [executing EXCEPT ![l] = {h}]
                            /\ posted' = posted \ {h}
    OBVIOUS
  <2>3. /\ executing' \in [Loops -> SUBSET Handlers]
        /\ \A k \in Loops : executing'[k] # {} => status'[k] = "running"
    BY <2>2
  <2>4. TypeOK'
    BY <2>1, <2>2, <2>3
  <2>5. LoadsLeft'
    BY DEF LoadsLeft
  <2>6. QED
    BY <2>4, <2>5
<1>4. ASSUME NEW l \in Loops, HandlerDone(l) \/ Return(l)
      PROVE  TypeOK' /\ LoadsLeft'
  <2> USE <1>4 DEF HandlerDone, Return, callVars, TypeOK
  <2>1. /\ Pool!Finish(l) \/ UNCHANGED poolVars
        /\ executing' = [executing EXCEPT ![l] = {}]
    OBVIOUS
  <2>2. Pool!PoolTypeOK'
    BY <2>1, PoolStep
  <2>3. \A k \in Loops \ {l} : status'[k] = status[k]
    BY <2>1 DEF Pool!Finish, Pool!Advance, Pool!PoolTypeOK, poolVars
  <2>4. /\ executing' \in [Loops -> SUBSET Handlers]
        /\ \A k \in Loops : executing'[k] # {} => status'[k] = "running"
    BY <2>1, <2>3
  <2>5. TypeOK'
    BY <2>2, <2>4
  <2>6. LoadsLeft'
    BY DEF LoadsLeft
  <2>7. QED
    BY <2>5, <2>6
<1>5. QED
  BY <1>1, <1>2, <1>3, <1>4 DEF LoopStep

-----------------------------------------------------------------------------
(* The invariant                                                           *)

\* run(), post() and the tasks leave stop() alone; a task begins only while
\* the executor has not been waited for.
LEMMA OthersKeep ==
    ASSUME IInv, LoopStep \/ \E c \in Callers : RunCheck(c) \/ RunStore(c) \/ RunLoad(c)
    PROVE  /\ \A c \in Callers : cpc'[c] # cpc[c] =>
                 {cpc[c], cpc'[c]} \subseteq {"idle", "store", "load"}
           /\ UNCHANGED <<accepting, quiet>>
           /\ quiet => \A l \in Loops : status[l] # "running" => status'[l] # "running"
<1> USE DEF IInv, TypeOK, Pool!PoolTypeOK
<1>1. CASE LoopStep
  <2>1. UNCHANGED <<cpc, accepting, quiet>>
    BY <1>1 DEF LoopStep, PostHandler, Enter, Dispatch, HandlerDone, Return, callVars,
                poolVars, Pool!Start, Pool!Finish
  <2>2. quiet => \A l \in Loops : status[l] # "running" => status'[l] # "running"
    BY <1>1 DEF LoopStep, PostHandler, Enter, Dispatch, HandlerDone, Return,
                poolVars, Pool!Start, Pool!Finish, Pool!Advance
  <2>3. QED
    BY <2>1, <2>2
<1>2. ASSUME NEW c \in Callers, RunCheck(c) \/ RunStore(c) \/ RunLoad(c)
      PROVE  /\ \A d \in Callers : cpc'[d] # cpc[d] =>
                   {cpc[d], cpc'[d]} \subseteq {"idle", "store", "load"}
             /\ UNCHANGED <<accepting, quiet>>
             /\ \A l \in Loops : status[l] # "running" => status'[l] # "running"
  <2>1. \A d \in Callers : cpc'[d] # cpc[d] =>
            {cpc[d], cpc'[d]} \subseteq {"idle", "store", "load"}
    BY <1>2 DEF RunCheck, RunStore, RunLoad, CGoto
  <2>2. UNCHANGED <<accepting, quiet>>
    BY <1>2 DEF RunCheck, RunStore, RunLoad, poolVars, Pool!Submit
  <2>3. \A l \in Loops : status[l] # "running" => status'[l] # "running"
    BY <1>2 DEF RunCheck, RunStore, RunLoad, poolVars, Pool!Submit, Pool!Advance
  <2>4. QED
    BY <2>1, <2>2, <2>3
<1>3. QED
  BY <1>1, <1>2

\* Therefore they keep the invariant.
LEMMA OthersInv ==
    ASSUME IInv, LoopStep \/ \E c \in Callers : RunCheck(c) \/ RunStore(c) \/ RunLoad(c)
    PROVE  IInv'
<1>1. TypeOK' /\ LoadsLeft'
  BY RunType, LoopType DEF IInv
<1>2. OneStopper' /\ PastTheWait'
  BY OthersKeep DEF IInv, OneStopper, Stopping, PastTheWait
<1>3. QuietPool'
  BY OthersKeep DEF IInv, QuietPool
<1>4. ClosedIsAwaited'
  BY OthersKeep DEF IInv, ClosedIsAwaited
<1>5. QED
  BY <1>1, <1>2, <1>3, <1>4 DEF IInv

\* So does stop().  The case that matters is StopExecutor of an executor that
\* does not accept: nobody else is in stop(), so the wait is over.
LEMMA StopInv ==
    ASSUME StopsOnce, IInv, NEW c \in Callers, StopStep(c)
    PROVE  IInv'
<1> USE DEF CGoto, IInv
<1>1. TypeOK' /\ LoadsLeft'
  BY StopType
<1>2. cpc \in [Callers -> CallerPCs] /\ quiet \in BOOLEAN /\ accepting \in BOOLEAN
  BY DEF TypeOK, Pool!PoolTypeOK
<1>3. cpc' = [cpc EXCEPT ![c] = cpc'[c]] /\ \A d \in Stopping : d = c
  <2>1. CASE StopCheck(c)
    BY <1>2, <2>1 DEF StopCheck, Stopping
  <2>2. CASE ~StopCheck(c)
    BY <1>2, <2>2 DEF StopStep, StopGuard, StopContext, StopExecutor, StopJoin,
                      StopRestart, StopClear, OneStopper, Stopping
  <2>3. QED
    BY <2>1, <2>2
<1>4. OneStopper'
  BY <1>2, <1>3 DEF OneStopper, Stopping
<1>5. \A d \in Callers \ {c} : cpc'[d] \in {"idle", "store", "load"}
  BY <1>2, <1>3 DEF Stopping
<1>6. CASE StopExecutor(c)
  <2>1. CASE accepting
    <3>1. cpc'[c] = "join" /\ Pool!Close /\ ~quiet
      BY <1>2, <1>6, <2>1 DEF StopExecutor, QuietPool
    <3>2. ~quiet'
      BY <3>1 DEF Pool!Close
    <3>3. QuietPool' /\ PastTheWait'
      BY <1>5, <3>1, <3>2 DEF QuietPool, PastTheWait
    <3>4. ClosedIsAwaited'
      BY <3>1 DEF ClosedIsAwaited
    <3>5. QED
      BY <1>1, <1>4, <3>3, <3>4
  <2>2. CASE ~accepting
    <3>1. cpc[c] = "close" /\ UNCHANGED poolVars
      BY <1>6, <2>2 DEF StopExecutor
    <3>2. quiet
      BY <1>3, <2>2, <3>1 DEF ClosedIsAwaited, Stopping
    <3>3. QuietPool' /\ PastTheWait' /\ ClosedIsAwaited'
      BY <3>1, <3>2 DEF QuietPool, PastTheWait, ClosedIsAwaited, poolVars
    <3>4. QED
      BY <1>1, <1>4, <3>3
  <2>3. QED
    BY <2>1, <2>2
<1>7. CASE StopJoin(c)
  <2>1. quiet' /\ ~accepting' /\ \A l \in Loops : status'[l] # "running"
    BY <1>7 DEF StopJoin, Pool!Quiesce
  <2>2. QuietPool' /\ PastTheWait' /\ ClosedIsAwaited'
    BY <2>1 DEF QuietPool, PastTheWait, ClosedIsAwaited
  <2>3. QED
    BY <1>1, <1>4, <2>2
<1>8. CASE StopCheck(c) \/ StopGuard(c) \/ StopContext(c) \/ StopRestart(c) \/ StopClear(c)
  <2>1. UNCHANGED poolVars /\ cpc[c] # "join"
        /\ (cpc'[c] \in {"restart", "clear"} => cpc[c] \in {"restart", "clear"})
    BY <1>2, <1>8 DEF StopCheck, StopGuard, StopContext, StopRestart, StopClear
  <2>2. QuietPool'
    BY <2>1 DEF QuietPool, poolVars
  <2>3. PastTheWait'
    BY <1>5, <2>1 DEF PastTheWait, poolVars
  <2>4. ClosedIsAwaited'
    BY <1>3, <2>1 DEF ClosedIsAwaited, poolVars, Stopping
  <2>5. QED
    BY <1>1, <1>4, <2>2, <2>3, <2>4
<1>9. QED
  BY <1>6, <1>7, <1>8 DEF StopStep

-----------------------------------------------------------------------------

\* The invariant holds in every state, if one thread at a time calls stop()
\* (IOContext.hpp:89-123).
THEOREM Invariance == ASSUME StopsOnce PROVE Spec => []IInv
<1>1. Init => IInv
  BY InitIInv
<1>2. IInv /\ [Next]_vars => IInv'
  <2> SUFFICES ASSUME IInv, [Next]_vars PROVE IInv'
    OBVIOUS
  <2>1. CASE Next
    <3>1. \/ LoopStep \/ \E c \in Callers : RunCheck(c) \/ RunStore(c) \/ RunLoad(c)
          \/ \E c \in Callers : StopStep(c)
      BY <2>1 DEF Next, Caller, Loop, LoopStep, StopStep
    <3>2. QED
      BY <3>1, OthersInv, StopInv
  <2>2. CASE UNCHANGED vars
    <3>1. Pool!PoolTypeOK'
      BY <2>2, PoolStep DEF IInv, TypeOK, vars, poolVars
    <3>2. TypeOK'
      BY <2>2, <3>1 DEF IInv, TypeOK, vars, contextVars, callVars
    <3>3. QED
      BY <2>2, <3>2 DEF IInv, LoadsLeft, OneStopper, Stopping, QuietPool,
                        ClosedIsAwaited, PastTheWait, vars, callVars
  <2>3. QED
    BY <2>1, <2>2
<1>3. QED
  BY <1>1, <1>2, PTL DEF Spec

\* When stop() goes on after the executor's, no handler runs
\* (IOContext.hpp:114-123).
THEOREM StopWaits == ASSUME StopsOnce PROVE Spec => []StopJoins
<1>1. IInv => StopJoins
  <2> SUFFICES ASSUME IInv, NEW c \in Callers, cpc[c] \in {"restart", "clear"}
               PROVE  Executing = {} /\ \A l \in Loops : status[l] # "running"
    BY DEF StopJoins
  <2>1. \A l \in Loops : status[l] # "running"
    BY DEF IInv, PastTheWait, QuietPool
  <2>2. \A l \in Loops : executing[l] = {}
    BY <2>1 DEF IInv, TypeOK
  <2>3. QED
    BY <2>1, <2>2 DEF Executing
<1>2. QED
  BY <1>1, Invariance, PTL
=============================================================================
