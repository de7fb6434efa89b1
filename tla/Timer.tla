-------------------------------- MODULE Timer --------------------------------
(***************************************************************************)
(* common::threading::Timer: TimerDetail and TimerManager (Timer.cpp).     *)
(*                                                                         *)
(* A timer is owned by shared_ptrs: the user's handle, the manager's list, *)
(* and, while it runs unregist(), its own worker thread.  Whoever drops    *)
(* the last one runs ~TimerDetail, which waits for the worker thread.      *)
(*                                                                         *)
(* The manager's lock is taken with try_lock by workers (unregist) and     *)
(* with lock by create (regist) and force_stop_all.  wait_for may time out *)
(* at any moment, so a stop() whose notify_all falls between the predicate *)
(* and the wait is only late.  A timer is started by one thread at a time, *)
(* which does not drop its handle meanwhile.                               *)
(***************************************************************************)
EXTENDS Naturals, FiniteSets

CONSTANTS
    Timers,    \* the timers that may be created
    Manager    \* force_stop_all, as a holder of the manager's lock

\* Nobody else is called like the manager, a free lock, or a place in force_stop_all.
ASSUME ManagerAssumption ==
    /\ Manager \notin Timers \cup {"free"}
    /\ Timers \cap {"free", "idle", "lock", "next", "clear", "done"} = {}

VARIABLES
    life,      \* life[t]: "none", "created", "started", then "dying", "freed"
    handle,    \* handle[t]: "user" while the user holds a reference, "async"
               \* while Timer::async does, "none" afterwards
    listed,    \* the timers in the manager's _timers
    self,      \* the timers whose worker holds a reference, in unregist()
    running,   \* running[t]: _running
    starting,  \* the timers whose start() has set _running and not yet made
               \* the new worker thread
    wpc,       \* wpc[t]: where the worker thread of t is
    ready,     \* the timers whose timerFuture, of the last start(), is ready
    lock,      \* who holds the manager's _lock, if anybody
    reap,      \* the timers the holder of the lock is destroying
    mpc,       \* where force_stop_all is, or the timer it waits for
    todo,      \* the timers force_stop_all has yet to stop
    late,      \* late[t]: calls of _func that found _running cleared, since start()
    crashed    \* std::terminate has been called

refVars == <<handle, listed, self>>
forceVars == <<mpc, todo>>
vars == <<life, refVars, running, starting, wpc, ready, lock, reap, forceVars, late,
          crashed>>

Free == "free"
WorkerPCs == {"none", "sleep", "loop", "func", "promise", "unregist", "erase",
              "unlock", "leave", "selfJoin", "exit"}

Init ==
    /\ life = [t \in Timers |-> "none"]
    /\ handle = [t \in Timers |-> "none"]
    /\ listed = {}
    /\ self = {}
    /\ running = [t \in Timers |-> FALSE]
    /\ starting = {}
    /\ wpc = [t \in Timers |-> "none"]
    /\ ready = {}
    /\ lock = Free
    /\ reap = {}
    /\ mpc = "idle"
    /\ todo = {}
    /\ late = [t \in Timers |-> 0]
    /\ crashed = FALSE

WGoto(t, from, to) == wpc[t] = from /\ wpc' = [wpc EXCEPT ![t] = to]
Gone(t) == wpc[t] \in {"none", "exit"}
Held(t) == handle[t] # "none"

\* What ~TimerDetail does before it waits: stop().
Condemn(S) ==
    /\ life' = [t \in Timers |-> IF t \in S THEN "dying" ELSE life[t]]
    /\ running' = [t \in Timers |-> running[t] /\ t \notin S]

-----------------------------------------------------------------------------
(* The user                                                                *)

\* Timer::create and Timer::async: regist() pushes the timer under the lock,
\* or does nothing once _shutingdown is set (mpc has left "idle").
Create(t) ==
    /\ life[t] = "none"
    /\ mpc = "idle" => lock = Free
    /\ life' = [life EXCEPT ![t] = "created"]
    /\ \E h \in {"user", "async"} : handle' = [handle EXCEPT ![t] = h]
    /\ listed' = IF mpc = "idle" THEN listed \cup {t} ELSE listed
    /\ UNCHANGED <<self, running, starting, wpc, ready, lock, reap, forceVars, late, crashed>>

\* start(): while the timer runs it throws and changes nothing; otherwise it
\* sets _running and makes a new promise.
Start(t) ==
    /\ life[t] \in IF handle[t] = "async" THEN {"created"} ELSE {"created", "started"}
    /\ Held(t)
    /\ ~running[t] /\ t \notin starting
    /\ life' = [life EXCEPT ![t] = "started"]
    /\ running' = [running EXCEPT ![t] = TRUE]
    /\ starting' = starting \cup {t}
    /\ ready' = ready \ {t}
    /\ late' = [late EXCEPT ![t] = 0]
    /\ UNCHANGED <<refVars, wpc, lock, reap, forceVars, crashed>>

\* _thread = Thread::create() destroys the Thread of an earlier start(), whose
\* deleter joins the old worker; then the new worker is started.
Launch(t) ==
    /\ t \in starting /\ starting' = starting \ {t}
    /\ Gone(t)
    /\ wpc' = [wpc EXCEPT ![t] = "sleep"]
    /\ UNCHANGED <<life, refVars, running, ready, lock, reap, forceVars, late, crashed>>

\* stop() through the handle, also from another thread while start() waits.
Stop(t) ==
    /\ handle[t] = "user"
    /\ running' = [running EXCEPT ![t] = FALSE]
    /\ UNCHANGED <<life, refVars, starting, wpc, ready, lock, reap, forceVars, late, crashed>>

\* The user's unique_ptr, or the local variable of Timer::async, is destroyed.
\* If it was the last reference the destructor runs here.
Drop(t) ==
    /\ Held(t)
    /\ t \notin starting
    /\ handle[t] = "async" => life[t] = "started"
    /\ handle' = [handle EXCEPT ![t] = "none"]
    /\ Condemn(IF t \in listed \cup self THEN {} ELSE {t})
    /\ UNCHANGED <<listed, self, starting, wpc, ready, lock, reap, forceVars, late, crashed>>

\* Mutant of UserFree: the destructor does not wait for the worker.
UserFreeEarly(t) ==
    /\ life[t] = "dying"
    /\ t \notin reap
    /\ life' = [life EXCEPT ![t] = "freed"]
    /\ UNCHANGED <<refVars, running, starting, wpc, ready, lock, reap, forceVars, late, crashed>>

\* ~TimerDetail returns in the user's thread once the worker is gone.
UserFree(t) ==
    /\ life[t] = "dying"
    /\ t \notin reap
    /\ Gone(t)
    /\ life' = [life EXCEPT ![t] = "freed"]
    /\ UNCHANGED <<refVars, running, starting, wpc, ready, lock, reap, forceVars, late, crashed>>

-----------------------------------------------------------------------------
(* The worker thread of timer t                                            *)

\* _cv.wait_for returns, after the interval or because of stop().
Wake(t) ==
    /\ WGoto(t, "sleep", "loop")
    /\ UNCHANGED <<life, refVars, running, starting, ready, lock, reap, forceVars, late, crashed>>

\* Mutant of Loop: the flag is not looked at.
LoopBlind(t) ==
    /\ WGoto(t, "loop", "func")
    /\ UNCHANGED <<life, refVars, running, starting, ready, lock, reap, forceVars, late, crashed>>

\* while(_running.load())
Loop(t) ==
    /\ WGoto(t, "loop", IF running[t] THEN "func" ELSE "promise")
    /\ UNCHANGED <<life, refVars, running, starting, ready, lock, reap, forceVars, late, crashed>>

\* _func() is called and returns whether the timer goes on.
Func(t) ==
    /\ \/ WGoto(t, "func", "sleep")
       \/ WGoto(t, "func", "promise")
    /\ late' = [late EXCEPT ![t] = IF running[t] THEN @ ELSE @ + 1]
    /\ UNCHANGED <<life, refVars, running, starting, ready, lock, reap, forceVars, crashed>>

\* Mutant of Promise: only a timer that ends by itself fulfils its promise.
PromiseUnlessStopped(t) ==
    /\ WGoto(t, "promise", "unregist")
    /\ ready' = IF running[t] THEN ready \cup ({t} \ starting) ELSE ready
    /\ UNCHANGED <<life, refVars, running, starting, lock, reap, forceVars, late, crashed>>

\* timerPromise->set_value(); a worker that start() is waiting for fulfils the
\* promise of an earlier start().
Promise(t) ==
    /\ WGoto(t, "promise", "unregist")
    /\ ready' = ready \cup ({t} \ starting)
    /\ UNCHANGED <<life, refVars, running, starting, lock, reap, forceVars, late, crashed>>

\* shared_from_this() throws bad_weak_ptr in a timer that is being destroyed,
\* and nothing catches it.
SharedFromDead(t) ==
    /\ wpc[t] = "unregist"
    /\ ~Held(t) /\ t \notin listed
    /\ crashed' = TRUE
    /\ UNCHANGED <<life, refVars, running, starting, wpc, ready, lock, reap, forceVars, late>>

\* Mutant of TryLock: _lock.lock() instead of try_lock().
TryLockBlocks(t) ==
    /\ Held(t) \/ t \in listed
    /\ lock = Free
    /\ WGoto(t, "unregist", "erase")
    /\ lock' = t
    /\ self' = self \cup {t}
    /\ UNCHANGED <<life, handle, listed, running, starting, ready, reap, forceVars, late, crashed>>

\* shared_from_this(), then _lock.try_lock()
TryLock(t) ==
    /\ Held(t) \/ t \in listed
    /\ self' = self \cup {t}
    /\ IF lock = Free
          THEN WGoto(t, "unregist", "erase") /\ lock' = t
          ELSE WGoto(t, "unregist", "leave") /\ lock' = lock
    /\ UNCHANGED <<life, handle, listed, running, starting, ready, reap, forceVars, late, crashed>>

\* Mutant of Erase: a timer is destroyed while its handle still refers to it.
EraseOwned(t) ==
    LET gone == {u \in listed : u = t \/ ~running[u]}
        orphans == gone \ self
    IN  /\ WGoto(t, "erase", "unlock")
        /\ listed' = listed \ gone
        /\ Condemn(orphans)
        /\ reap' = orphans
        /\ UNCHANGED <<handle, self, starting, ready, lock, forceVars, late, crashed>>

\* Erase this timer and every timer that is not running; those nobody else
\* refers to are destroyed, under the lock.
Erase(t) ==
    LET gone == {u \in listed : u = t \/ ~running[u]}
        orphans == {u \in gone : ~Held(u) /\ u \notin self}
    IN  /\ WGoto(t, "erase", "unlock")
        /\ listed' = listed \ gone
        /\ Condemn(orphans)
        /\ reap' = orphans
        /\ UNCHANGED <<handle, self, starting, ready, lock, forceVars, late, crashed>>

\* The destructor of a timer that unregist() erased returns.
Reap(u) ==
    /\ u \in reap
    /\ Gone(u)
    /\ reap' = reap \ {u}
    /\ life' = [life EXCEPT ![u] = "freed"]
    /\ UNCHANGED <<refVars, running, starting, wpc, ready, lock, forceVars, late, crashed>>

\* Mutant of Unlock: no guard adopts the lock that try_lock took.
UnlockForgotten(t) ==
    /\ reap = {}
    /\ WGoto(t, "unlock", "leave")
    /\ UNCHANGED <<life, refVars, running, starting, ready, lock, reap, forceVars, late, crashed>>

Unlock(t) ==
    /\ reap = {}
    /\ WGoto(t, "unlock", "leave")
    /\ lock' = Free
    /\ UNCHANGED <<life, refVars, running, starting, ready, reap, forceVars, late, crashed>>

\* The argument of unregist() is destroyed.  If it was the last reference,
\* ~TimerDetail waits for this very thread, for ever.
Leave(t) ==
    LET last == ~Held(t) /\ t \notin listed
    IN  /\ WGoto(t, "leave", IF last THEN "selfJoin" ELSE "exit")
        /\ self' = self \ {t}
        /\ Condemn(IF last THEN {t} ELSE {})
        /\ UNCHANGED <<handle, listed, starting, ready, lock, reap, forceVars, late, crashed>>

Worker(t) ==
    \/ Wake(t) \/ Loop(t) \/ Func(t) \/ Promise(t) \/ SharedFromDead(t)
    \/ TryLock(t) \/ Erase(t) \/ Unlock(t) \/ Leave(t)

-----------------------------------------------------------------------------
(* TimerManager::force_stop_all                                            *)

\* _shutingdown.store(true), then _lock.lock()
ForceShutdown ==
    /\ mpc = "idle"
    /\ mpc' = "lock"
    /\ UNCHANGED <<life, refVars, running, starting, wpc, ready, lock, reap, todo, late, crashed>>

ForceLock ==
    /\ mpc = "lock" /\ mpc' = "next"
    /\ lock = Free /\ lock' = Manager
    /\ todo' = listed
    /\ UNCHANGED <<life, refVars, running, starting, wpc, ready, reap, late, crashed>>

\* The next timer of the list: stop() ...
ForceStop(t) ==
    /\ mpc = "next" /\ mpc' = t
    /\ t \in todo /\ todo' = todo \ {t}
    /\ running' = [running EXCEPT ![t] = FALSE]
    /\ UNCHANGED <<life, refVars, starting, wpc, ready, lock, reap, late, crashed>>

\* ... and wait_until_stop(), which waits for nothing if it was not started.
ForceWait(t) ==
    /\ mpc = t /\ mpc' = "next"
    /\ Gone(t)
    /\ UNCHANGED <<life, refVars, running, starting, wpc, ready, lock, reap, todo, late, crashed>>

\* _timers.clear() destroys the timers nobody else refers to.
ForceClear ==
    LET orphans == {u \in listed : ~Held(u) /\ u \notin self}
    IN  /\ mpc = "next" /\ mpc' = "clear"
        /\ todo = {}
        /\ listed' = {}
        /\ reap' = orphans
        /\ Condemn(orphans)
        /\ UNCHANGED <<handle, self, starting, wpc, ready, lock, todo, late, crashed>>

ForceUnlock ==
    /\ mpc = "clear" /\ mpc' = "done"
    /\ reap = {}
    /\ lock' = Free
    /\ UNCHANGED <<life, refVars, running, starting, wpc, ready, reap, todo, late, crashed>>

ForceStopAll ==
    \/ ForceLock \/ ForceClear \/ ForceUnlock
    \/ \E t \in Timers : ForceStop(t) \/ ForceWait(t)

-----------------------------------------------------------------------------

Next ==
    /\ ~crashed
    /\ \/ \E t \in Timers :
             \/ Create(t) \/ Start(t) \/ Launch(t) \/ Stop(t) \/ Drop(t) \/ UserFree(t)
             \/ Worker(t) \/ Reap(t)
       \/ ForceShutdown \/ ForceStopAll

Spec == Init /\ [][Next]_vars

\* Intervals end, _func returns, and destructors and force_stop_all, once they
\* have begun, go on, and so does start().  Nobody has to create, start, stop or drop
\* a timer.
FairSpec ==
    /\ Spec
    /\ WF_vars(~crashed /\ ForceStopAll)
    /\ \A t \in Timers :
          /\ WF_vars(~crashed /\ Worker(t))
          /\ WF_vars(~crashed /\ Launch(t))
          /\ WF_vars(~crashed /\ (UserFree(t) \/ Reap(t)))
          /\ WF_vars(~crashed /\ handle[t] = "async" /\ (Start(t) \/ Drop(t)))

-----------------------------------------------------------------------------
(* Properties                                                              *)

\* Every variable keeps its type, and a worker that holds the manager's lock
\* is inside the locked part of unregist() (Timer.cpp:83-91).
TypeOK ==
    /\ life \in [Timers -> {"none", "created", "started", "dying", "freed"}]
    /\ handle \in [Timers -> {"none", "user", "async"}]
    /\ listed \subseteq Timers
    /\ self \subseteq Timers
    /\ running \in [Timers -> BOOLEAN]
    /\ starting \subseteq Timers
    /\ wpc \in [Timers -> WorkerPCs]
    /\ ready \subseteq Timers
    /\ lock \in {Manager, Free} \cup {t \in Timers : wpc[t] \in {"erase", "unlock"}}
    /\ reap \subseteq Timers
    /\ mpc \in Timers \cup {"idle", "lock", "next", "clear", "done"}
    /\ todo \subseteq Timers
    /\ late \in [Timers -> Nat]
    /\ crashed \in BOOLEAN

\* No timer is freed while its worker thread may still use it, whoever runs
\* the destructor: the user, another timer's unregist() or force_stop_all
\* (Timer.cpp:83-118).
NoUseAfterFree ==
    \A t \in Timers : life[t] = "freed" => Gone(t) /\ t \notin starting

\* After stop(), until the next start(), the function is called at most once more
\* (Timer.cpp:139-141).
AtMostOneLateCall == \A t \in Timers : late[t] <= 1

\* A timer is destroyed when, and only when, nobody refers to it: no reference
\* is dangling and no destructor runs twice (Timer.cpp:83-118, 170-178).
OwnedOrDying ==
    \A t \in Timers :
        (Held(t) \/ t \in listed \cup self) <=> life[t] \in {"created", "started"}

\* The manager's lock is always released, although destructors run under it
\* and force_stop_all waits for workers under it (Timer.cpp:83-105).  Only a
\* start() between the stop() and the wait of force_stop_all may prevent it.
LockReleased ==
    lock # Free ~> \/ lock = Free
                   \/ crashed
                   \/ \E t \in Timers : mpc = t /\ running[t]

\* The future of a timer that is stopped becomes ready, unless it is started
\* again (Timer.cpp:128-157).
StoppedTimerIsReady ==
    \A t \in Timers :
        (wpc[t] # "none" /\ ~running[t]) ~> (t \in ready \/ running[t] \/ crashed)

-----------------------------------------------------------------------------
(* What the comments say and the code does not do                          *)

\* Timer.hpp:96-99 "Check if the timer is running": not after the function has
\* returned false and the timer's future is ready.
StatusTellsRunning == \A t \in Timers : t \in ready => ~running[t]

\* Timer.hpp:92 "Stop the timer and stop executing the given function", and start
\* it again: if the worker has not seen the stop, start() revives it and waits for
\* it (Timer.cpp:123-128, Thread.cpp:202).
StartReturns == \A t \in Timers : t \in starting ~> (t \notin starting \/ crashed)

\* Timer.hpp:78 "A future that can be used to wait for the timer to
\* finish": once it is ready the timer's thread does finish.
FinishedTimerExits == \A t \in Timers : t \in ready ~> (wpc[t] = "exit" \/ crashed)

\* Timer.hpp:43 "The task can be stopped by calling stop(), and the timer
\* started by start() will be stopped": and not the process.
NoTerminate == ~crashed
=============================================================================
