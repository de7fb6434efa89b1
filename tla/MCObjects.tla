----------------------------- MODULE MCObjects -----------------------------
(* The two runnables, the containers and the observers: classes that are     *)
(* used on their own and share no state, one of which a behaviour is about.  *)
EXTENDS Naturals, Sequences

CONSTANTS
    Items, MaxRuns,
    MaxThreads, Names, Throws, OtherSetter, WaitsFuture,
    Thieves, MaxItems, InitialSize, IndexModulus, PopFresh,
    MaxLength, MaxPushes, PushesOwn,
    Observers, MaxObservers, MaxEvents, Reentrant

ASSUME RunsAssumption == MaxThreads \in Nat

VARIABLES
    subject,
    running, tasks, pc, rpc, runs, current, notified, executed, unusual,
    looping, name, handle, threads, upc, spc, tpc, given, ready, fault,
    top, bottom, arrays, opc, obottom, otop, pushed, result, thief, ttop, tarray, tresult, taken,
    q, pushes, popped, dropped,
    observers, capacity, memory, events, loops, calls, expected, removed, invalid

activeVars == <<running, tasks, pc, rpc, runs, current, notified, executed, unusual>>
plainVars == <<looping, name, handle, threads, upc, spc, tpc, given, ready, fault>>
dequeVars == <<top, bottom, arrays, opc, obottom, otop, pushed, result, thief, ttop, tarray,
               tresult, taken>>
queueVars == <<q, pushes, popped, dropped>>
observerVars == <<observers, capacity, memory, events, loops, calls, expected, removed, invalid>>
vars == <<subject, activeVars, plainVars, dequeVars, queueVars, observerVars>>

Active == INSTANCE ActiveRunnable
Plain == INSTANCE Runnable WITH
            running <- looping, runs <- threads, MaxRuns <- MaxThreads
Deque == INSTANCE LockFreeWorkQueue WITH tpc <- thief
Queue == INSTANCE SizedQueue WITH Size <- MaxLength, pushed <- pushes
Subject == INSTANCE Observer WITH fault <- invalid

\* The deque's indices do not wrap, and its array has room for an item.
ASSUME DequeAssumption ==
    /\ MaxItems \in Nat /\ IndexModulus \in Nat /\ IndexModulus > MaxItems + 1
    /\ Deque!nextPowerOf2(InitialSize) \in Nat \ {0}

\* A queue of no places would take an item out of an empty one.
ASSUME LengthAssumption == MaxLength \in Nat \ {0}

ASSUME EventsAssumption == MaxEvents \in Nat

Init ==
    /\ subject \in {"active", "plain", "deque", "queue", "observer"}
    /\ Active!Init /\ Plain!Init /\ Deque!Init /\ Queue!Init /\ Subject!Init
    /\ subject # "plain" => name = CHOOSE n \in Names : TRUE

Next ==
    /\ UNCHANGED subject
    /\ \/ /\ subject = "active" /\ Active!Next
          /\ UNCHANGED <<plainVars, dequeVars, queueVars, observerVars>>
       \/ /\ subject = "plain" /\ Plain!Next
          /\ UNCHANGED <<activeVars, dequeVars, queueVars, observerVars>>
       \/ /\ subject = "deque" /\ Deque!Next
          /\ UNCHANGED <<activeVars, plainVars, queueVars, observerVars>>
       \/ /\ subject = "queue" /\ Queue!Next
          /\ UNCHANGED <<activeVars, plainVars, dequeVars, observerVars>>
       \/ /\ subject = "observer" /\ Subject!Next
          /\ UNCHANGED <<activeVars, plainVars, dequeVars, queueVars>>

Spec == Init /\ [][Next]_vars /\ Active!Fairness

-----------------------------------------------------------------------------

\* notify() order is execution order, each item once, and short of a spurious
\* wakeup or an overtaking run() the wait without a predicate takes no item that is
\* not there (Runnable.hpp:253-303).
ExecutedInOrder == Active!ExecutedInOrder /\ Active!NoEmptyTake

\* Every notified item is executed while the object runs (Runnable.hpp:252-303).
NotifiedRuns == Active!NotifiedRuns

\* A stop() that the worker can still see ends it (Runnable.hpp:250-254).
StoppedBusyWorkerExits == Active!StoppedBusyWorkerExits

\* The thread that calls __work() is the one in _t, through stop() and a run()
\* that overtakes it (Runnable.hpp:67-143).
WorkerIsHandled == Plain!WorkerIsHandled

\* Owner and thieves return each item once, also the last one and while the
\* array grows, and the queue of a fixed size keeps just the latest items
\* (LockFreeWorkQueue.hpp:110-196, SizedQueue.hpp:57-60).
EachItemOnce == Deque!EachItemOnce /\ Queue!LatestKept

\* Each event reaches the observers registered when it was notified, also when
\* an observer notifies the next one (Observer.hpp:121-173).
EachObserverCalled == Subject!EachObserverCalled
=============================================================================
