------------------------------ MODULE Runnable ------------------------------
(***************************************************************************)
(* common::threading::Runnable (Runnable.hpp:45-155): a loop that calls    *)
(* __work() on a Thread of its own until it is stopped.  One user thread   *)
(* calls run(), set_name() and the destructor, any thread calls stop().    *)
(*                                                                         *)
(* Each run() makes a new Thread, numbered in order, and the shared_ptr    *)
(* that is replaced joins the previous one.  The name stands for the       *)
(* priority too, which is treated alike; so does ActiveRunnable with both. *)
(***************************************************************************)
EXTENDS Naturals

CONSTANTS
    MaxRuns,      \* bound on the calls of run() that make a thread
    Names,        \* the names a user may give
    Throws,       \* __work() may throw
    OtherSetter,  \* a thread that is not the user's calls set_name()
    WaitsFuture   \* the user destroys the object only when the future is ready

VARIABLES
    running,   \* _running
    name,      \* _name
    handle,    \* the Thread in _t, 0 if it is null
    runs,      \* the number of Threads made
    upc,       \* where the user is: idle, in run() or in the destructor
    spc,       \* where the other thread is in set_name()
    tpc,       \* tpc[i]: where the thread of Thread i is
    given,     \* given[i]: the name of Thread i
    ready,     \* the runs whose future is ready
    fault      \* what went wrong, if anything

vars == <<running, name, handle, runs, upc, spc, tpc, given, ready, fault>>

Threads == 1 .. MaxRuns

Init ==
    /\ running = FALSE
    /\ name \in Names
    /\ handle = 0
    /\ runs = 0
    /\ upc = "idle"
    /\ spc = "idle"
    /\ tpc = [i \in Threads |-> "none"]
    /\ given = [i \in Threads |-> name]
    /\ ready = {}
    /\ fault = "none"

UGoto(from, to) == upc = from /\ upc' = to
TGoto(i, from, to) == tpc[i] = from /\ tpc' = [tpc EXCEPT ![i] = to]

\* The deleter of Thread: wait for its thread, if it has been started.
Joined == handle # 0 => tpc[handle] \in {"none", "exit"}

-----------------------------------------------------------------------------
(* The user                                                                *)

\* if(_running.load()) throw AlreadyRunningException()
RunCheck ==
    /\ UGoto("idle", "store")
    /\ ~running /\ runs < MaxRuns
    /\ UNCHANGED <<running, name, handle, runs, spc, tpc, given, ready, fault>>

\* _running.store(true): a previous thread that has not looked since stop() goes on.
RunStore ==
    /\ UGoto("store", "create")
    /\ running' = TRUE
    /\ UNCHANGED <<name, handle, runs, spc, tpc, given, ready, fault>>

\* Mutant of RunCreate: the previous Thread is not waited for.
RunCreateDetaches ==
    /\ UGoto("create", "configure")
    /\ runs' = runs + 1
    /\ handle' = runs'
    /\ UNCHANGED <<running, name, spc, tpc, given, ready, fault>>

\* _t = Thread::create()
RunCreate ==
    /\ UGoto("create", "configure")
    /\ Joined
    /\ runs' = runs + 1
    /\ handle' = runs'
    /\ UNCHANGED <<running, name, spc, tpc, given, ready, fault>>

\* _t->set_priority(_priority) and _t->set_name(_name)
RunConfigure ==
    /\ UGoto("configure", "start")
    /\ given' = [given EXCEPT ![handle] = name]
    /\ UNCHANGED <<running, name, handle, runs, spc, tpc, ready, fault>>

\* _t->start(...)
RunStart ==
    /\ UGoto("start", "idle")
    /\ tpc' = [tpc EXCEPT ![handle] = "check"]
    /\ UNCHANGED <<running, name, handle, runs, spc, given, ready, fault>>

\* if(_running.load()) _t->set_name(name)
PassOn(n) ==
    IF ~running THEN UNCHANGED <<given, fault>>
    ELSE IF handle = 0 THEN fault' = "null _t" /\ UNCHANGED given
    ELSE given' = [given EXCEPT ![handle] = n] /\ UNCHANGED fault

\* set_name(), and set_priority()
SetName(n) ==
    /\ upc = "idle"
    /\ name' = n
    /\ PassOn(n)
    /\ UNCHANGED <<running, handle, runs, upc, spc, tpc, ready>>

\* Another thread calls it, in two steps.
OtherSets(n) ==
    /\ OtherSetter
    /\ \/ /\ spc = "idle" /\ spc' = "pass on"
          /\ name' = n
          /\ UNCHANGED <<given, fault>>
       \/ /\ spc = "pass on" /\ spc' = "idle"
          /\ PassOn(name)
          /\ UNCHANGED name
    /\ UNCHANGED <<running, handle, runs, upc, tpc, ready>>

Stop ==
    /\ running' = FALSE
    /\ UNCHANGED <<name, handle, runs, upc, spc, tpc, given, ready, fault>>

\* The derived class is destroyed first: __work() is pure virtual from then on.
Destroy ==
    /\ UGoto("idle", "destroy")
    /\ WaitsFuture => handle \in ready \cup {0}
    /\ UNCHANGED <<running, name, handle, runs, spc, tpc, given, ready, fault>>

\* ~Runnable() destroys _t.
DestroyThread ==
    /\ UGoto("destroy", "gone")
    /\ Joined
    /\ UNCHANGED <<running, name, handle, runs, spc, tpc, given, ready, fault>>

User ==
    \/ RunCheck \/ RunStore \/ RunCreate \/ RunConfigure \/ RunStart
    \/ \E n \in Names : SetName(n)
    \/ Destroy \/ DestroyThread

-----------------------------------------------------------------------------
(* The thread of Thread i                                                  *)

\* while(_running.load()); behind the loop the future becomes ready.
Check(i) ==
    /\ TGoto(i, "check", IF running THEN "work" ELSE "exit")
    /\ ready' = IF running THEN ready ELSE ready \cup {i}
    /\ UNCHANGED <<running, name, handle, runs, upc, spc, given, fault>>

\* __work() returns, or throws: nothing catches that.
Work(i) ==
    /\ TGoto(i, "work", "check")
    /\ \/ fault' = IF upc \in {"destroy", "gone"} THEN "pure virtual call" ELSE fault
       \/ Throws /\ fault' = "terminate"
    /\ UNCHANGED <<running, name, handle, runs, upc, spc, given, ready>>

Thread(i) == Check(i) \/ Work(i)

-----------------------------------------------------------------------------

Next ==
    /\ fault = "none"
    /\ \/ User \/ Stop
       \/ \E n \in Names : OtherSets(n)
       \/ \E i \in Threads : Thread(i)

Spec == Init /\ [][Next]_vars

\* The threads go on, and so does a run() that has begun; __work() returns.
FairSpec ==
    /\ Spec
    /\ \A i \in Threads : WF_vars(fault = "none" /\ Thread(i))
    /\ WF_vars(fault = "none" /\ (RunStore \/ RunCreate \/ RunConfigure \/ RunStart))

-----------------------------------------------------------------------------
(* Properties                                                              *)

TypeOK ==
    /\ running \in BOOLEAN
    /\ name \in Names
    /\ {handle, runs} \subseteq 0 .. MaxRuns
    /\ upc \in {"idle", "store", "create", "configure", "start", "destroy", "gone"}
    /\ spc \in {"idle", "pass on"}
    /\ tpc \in [Threads -> {"none", "check", "work", "exit"}]
    /\ given \in [Threads -> Names]
    /\ ready \subseteq Threads

\* A thread that works is the one in _t, through stop() and a second run() that
\* overtakes it: no two loops call __work() at a time, its future is not ready,
\* it has the name of the object until it is stopped, and the object is there
\* (Runnable.hpp:67-143).
WorkerIsHandled ==
    \A i \in Threads : tpc[i] \in {"check", "work"} =>
        /\ i = handle /\ i \notin ready
        /\ upc # "gone"
        /\ upc = "idle" /\ running => given[i] = name

-----------------------------------------------------------------------------
(* What the comments say and the code does not do                          *)

\* Runnable.hpp:151 "If an exception is thrown, run() will catch it and set the
\* future returned by run() to the exception."
ExceptionIsCaught == fault # "terminate"

\* Runnable.hpp:123 "Sets the name of the thread", at any time: while run()
\* is between the store of _running and that of _t there is no thread.
NoNullThread == fault # "null _t"

\* Runnable.hpp:83-84 "will stop after the current iteration of work()
\* completes": a run() that comes before the thread has seen the stop revives it,
\* and then waits for it.
RunReturns == upc = "store" ~> upc = "idle"

\* stop() and the destruction of the object, without a wait for the future
NoWorkWithoutObject == fault # "pure virtual call"
=============================================================================
