---------------------------- MODULE ThreadDetail ----------------------------
(***************************************************************************)
(* common::threading::Thread (Thread.cpp): an object that is started,      *)
(* joined or detached by one user thread, and started again.  Each start() *)
(* makes a std::thread, numbered here in order, which works on the members *)
(* of the object: _started, _thread and _promise.                          *)
(*                                                                         *)
(* start() constructs the std::thread before it assigns it to _thread, so  *)
(* the new thread may find the previous value there.  A priority is the    *)
(* default or another one; setting it never fails.  A name is treated as a *)
(* priority is, and left out.  Thread::async() makes a thread that has no  *)
(* object.                                                                 *)
(***************************************************************************)
EXTENDS Naturals

CONSTANT MaxStarts    \* bound on the calls of start() that make a thread

VARIABLES
    upc,       \* where the user is: in start(), in the deleter, or idle
    starts,    \* the number of std::threads made
    thread,    \* the std::thread in _thread, 0 if it is null
    joinable,  \* the std::threads that are joinable
    promise,   \* the start whose promise is in _promise, 0 if it is null
    started,   \* _started
    tpc,       \* tpc[i]: where std::thread i is
    ready,     \* the starts whose future is ready
    alive,     \* the object has not been deleted
    detached,  \* detach() has been called (history)
    worked,    \* the starts whose function has returned (history)
    priority,  \* _priority
    applied,   \* applied[i]: the priority the system has for std::thread i
    async,     \* where the thread of async() is
    fault      \* what went wrong, if anything

historyVars == <<detached, worked>>
otherVars == <<priority, applied, async>>
vars == <<upc, starts, thread, joinable, promise, started, tpc, ready, alive,
          historyVars, otherVars, fault>>

Threads == 1 .. MaxStarts
Priorities == {"default", "high"}
ThreadPCs == {"none", "flag", "priority", "name", "init", "work", "clear",
              "promise", "exit"}

Init ==
    /\ upc = "idle"
    /\ starts = 0
    /\ thread = 0
    /\ joinable = {}
    /\ promise = 0
    /\ started = FALSE
    /\ tpc = [i \in Threads |-> "none"]
    /\ ready = {}
    /\ alive = TRUE
    /\ detached = FALSE
    /\ worked = {}
    /\ priority = "default"
    /\ applied = [i \in Threads |-> "default"]
    /\ async = "none"
    /\ fault = "none"

UGoto(from, to) == upc = from /\ upc' = to

-----------------------------------------------------------------------------
(* The user                                                                *)

\* if(_started.load()) throw AlreadyRunningException()
StartCheck ==
    /\ starts < MaxStarts
    /\ ~started
    /\ alive
    /\ UGoto("idle", "join")
    /\ UNCHANGED <<starts, thread, joinable, promise, started, tpc, ready, alive, historyVars, fault, otherVars>>

\* Wait for the std::thread in _thread, if it is joinable.
JoinThread ==
    /\ thread \in joinable => tpc[thread] = "exit"
    /\ joinable' = joinable \ {thread}

\* Mutant of StartJoin: the previous thread is detached.
StartJoinDetaches ==
    /\ UGoto("join", "create")
    /\ joinable' = joinable \ {thread}
    /\ UNCHANGED <<starts, thread, promise, started, tpc, ready, alive, historyVars, fault, otherVars>>

\* Mutant of StartJoin: the previous thread is neither joined nor detached.
StartJoinSkipped ==
    /\ UGoto("join", "create")
    /\ UNCHANGED <<starts, thread, joinable, promise, started, tpc, ready, alive, historyVars, fault, otherVars>>

\* join()
StartJoin ==
    /\ UGoto("join", "create")
    /\ JoinThread
    /\ UNCHANGED <<starts, thread, promise, started, tpc, ready, alive, historyVars, fault, otherVars>>

\* A new promise, and std::make_shared<std::thread>: the thread runs ...
StartCreate ==
    /\ UGoto("create", "assign")
    /\ starts' = starts + 1
    /\ promise' = starts'
    /\ joinable' = joinable \cup {starts'}
    /\ tpc' = [tpc EXCEPT ![starts'] = "flag"]
    /\ UNCHANGED <<thread, started, ready, alive, historyVars, fault, otherVars>>

\* ... before it is assigned to _thread.
StartAssign ==
    /\ UGoto("assign", "wait")
    /\ thread' = starts
    /\ UNCHANGED <<starts, joinable, promise, started, tpc, ready, alive, historyVars, fault, otherVars>>

Initialised(i) == tpc[i] \in {"work", "clear", "promise", "exit"}

\* Mutant of StartReturn: start() does not wait for initFuture.
StartReturnEarly ==
    /\ UGoto("wait", "idle")
    /\ UNCHANGED <<starts, thread, joinable, promise, started, tpc, ready, alive, historyVars, fault, otherVars>>

\* initFuture.wait()
StartReturn ==
    /\ UGoto("wait", "idle")
    /\ Initialised(starts)
    /\ UNCHANGED <<starts, thread, joinable, promise, started, tpc, ready, alive, historyVars, fault, otherVars>>

\* join(), called by the user
Join ==
    /\ upc = "idle" /\ alive
    /\ thread \in joinable
    /\ JoinThread
    /\ UNCHANGED <<upc, starts, thread, promise, started, tpc, ready, alive, historyVars, fault, otherVars>>

\* detach(); it throws if there is nothing to detach.
Detach ==
    /\ upc = "idle" /\ alive
    /\ thread \in joinable
    /\ joinable' = joinable \ {thread}
    /\ detached' = TRUE
    /\ UNCHANGED <<upc, starts, thread, promise, started, tpc, ready, alive, worked, fault, otherVars>>

\* Mutant of Destroy: the deleter does not join.
DestroyUnjoined ==
    /\ upc = "idle" /\ alive
    /\ alive' = FALSE
    /\ UNCHANGED <<upc, starts, thread, joinable, promise, started, tpc, ready, historyVars, fault, otherVars>>

\* The last reference is dropped: the deleter joins and deletes the object.
Destroy ==
    /\ upc = "idle" /\ alive
    /\ JoinThread
    /\ alive' = FALSE
    /\ UNCHANGED <<upc, starts, thread, promise, started, tpc, ready, historyVars, fault, otherVars>>

\* What set_priority(p) does to thread i while _started is set: the default is
\* not told to the system.
Applied(i, p) ==
    applied' = [applied EXCEPT ![i] = IF p = "default" THEN @ ELSE p]

\* set_priority(), called by the user; it throws BadHandlingException and sets
\* nothing if a detached thread runs.
SetPriority(p) ==
    /\ upc = "idle" /\ alive
    /\ started => thread \in joinable
    /\ priority' = p
    /\ IF started THEN Applied(thread, p) ELSE applied' = applied
    /\ UNCHANGED <<upc, starts, thread, joinable, promise, started, tpc, ready, alive, historyVars, async, fault>>

\* Thread::async(): a detached thread, with a promise of its own
Async ==
    /\ async = "none"
    /\ async' = "work"
    /\ UNCHANGED <<upc, starts, thread, joinable, promise, started, tpc, ready, alive, historyVars, priority, applied, fault>>

AsyncThread ==
    /\ \/ async = "work" /\ async' = "promise"
       \/ async = "promise" /\ async' = "ready"
    /\ UNCHANGED <<upc, starts, thread, joinable, promise, started, tpc, ready, alive, historyVars, priority, applied, fault>>

User ==
    \/ StartCheck \/ StartJoin \/ StartCreate \/ StartAssign \/ StartReturn
    \/ Join \/ Detach \/ Destroy
    \/ \E p \in Priorities : SetPriority(p)
    \/ Async

-----------------------------------------------------------------------------
(* std::thread i.  A step that uses the object after its deletion is a     *)
(* fault, whatever else it does.                                           *)

TGoto(i, from, to) == tpc[i] = from /\ tpc' = [tpc EXCEPT ![i] = to]
Uses(otherwise) == fault' = IF ~alive THEN "freed object" ELSE otherwise

\* _started.store(true), and _tid
SetFlag(i) ==
    /\ TGoto(i, "flag", "priority")
    /\ started' = TRUE
    /\ Uses(fault)
    /\ UNCHANGED <<upc, starts, thread, joinable, promise, ready, alive, historyVars, otherVars>>

\* set_priority(_priority) and set_name(_name) look whether _thread is
\* joinable and throw if it is not; nothing catches the exception.
Apply(i, from, to) ==
    /\ TGoto(i, from, to)
    /\ Uses(IF thread = 0 THEN "null thread"
            ELSE IF thread \notin joinable THEN "terminate" ELSE fault)
    /\ IF from = "priority" THEN Applied(i, priority) ELSE applied' = applied
    /\ UNCHANGED <<upc, starts, thread, joinable, promise, started, ready, alive, historyVars, priority, async>>

\* ip->set_value()
TellInit(i) ==
    /\ TGoto(i, "init", "work")
    /\ UNCHANGED <<upc, starts, thread, joinable, promise, started, ready, alive, historyVars, fault, otherVars>>

\* work() returns.
Work(i) ==
    /\ TGoto(i, "work", "clear")
    /\ worked' = worked \cup {i}
    /\ UNCHANGED <<upc, starts, thread, joinable, promise, started, ready, alive, detached, fault, otherVars>>

\* _started.store(false)
ClearFlag(i) ==
    /\ TGoto(i, "clear", "promise")
    /\ started' = FALSE
    /\ Uses(fault)
    /\ UNCHANGED <<upc, starts, thread, joinable, promise, ready, alive, historyVars, otherVars>>

\* Mutant of Fulfil: the promise is forgotten.
FulfilNot(i) ==
    /\ TGoto(i, "promise", "exit")
    /\ UNCHANGED <<upc, starts, thread, joinable, promise, started, ready, alive, historyVars, fault, otherVars>>

\* _promise->set_value(), on whatever promise is there now
Fulfil(i) ==
    /\ TGoto(i, "promise", "exit")
    /\ ready' = ready \cup {promise}
    /\ Uses(IF promise \in ready THEN "terminate" ELSE fault)
    /\ UNCHANGED <<upc, starts, thread, joinable, promise, started, alive, historyVars, otherVars>>

Thread(i) ==
    \/ SetFlag(i) \/ Apply(i, "priority", "name") \/ Apply(i, "name", "init")
    \/ TellInit(i) \/ Work(i) \/ ClearFlag(i) \/ Fulfil(i)

-----------------------------------------------------------------------------

Running == fault = "none"

Next == Running /\ (User \/ AsyncThread \/ \E i \in Threads : Thread(i))

Spec == Init /\ [][Next]_vars

\* Threads run, functions return, and a start() that has begun goes on.
Fairness ==
    /\ \A i \in Threads : WF_vars(Running /\ Thread(i))
    /\ WF_vars(Running /\ AsyncThread)
    /\ WF_vars(Running /\ (StartJoin \/ StartCreate \/ StartAssign \/ StartReturn))

FairSpec == Spec /\ Fairness

-----------------------------------------------------------------------------
(* Properties                                                              *)

\* Every variable keeps its type, and at most the thread in _thread and the one
\* about to be assigned to it are joinable: none is overwritten while it is
\* (std::terminate, Thread.cpp:72-78).
TypeOK ==
    /\ upc \in {"idle", "join", "create", "assign", "wait"}
    /\ {starts, thread, promise} \subseteq 0 .. MaxStarts
    /\ joinable \subseteq {thread} \cup (IF upc = "assign" THEN {starts} ELSE {})
    /\ started \in BOOLEAN
    /\ tpc \in [Threads -> ThreadPCs]
    /\ ready \subseteq Threads
    /\ alive \in BOOLEAN
    /\ worked \subseteq Threads
    /\ priority \in Priorities
    /\ applied \in [Threads -> Priorities]
    /\ async \in {"none", "work", "promise", "ready"}
    /\ detached \in BOOLEAN

\* Without detach(), at most one thread runs on the object, and none once the
\* object is deleted.  When start() has returned, the thread that runs is the one
\* in _thread and has the object's priority, be it set before or since
\* (Thread.cpp:64-103, 126-161, 199-208).
Active == {i \in Threads : tpc[i] \notin {"none", "exit"}}
OneThreadOnObject ==
    /\ ~detached => (\A i, j \in Active : i = j) /\ (~alive => Active = {})
    /\ upc = "idle" /\ alive /\ started =>
          /\ Initialised(thread)
          /\ priority = "high" => applied[thread] = "high"

\* Without detach(), the future of each start becomes ready, and _started is
\* then clear until the next one; so does that of async() (Thread.cpp:93-99,
\* 210-221).
FutureBecomesReady ==
    /\ \A i \in Threads : tpc[i] = "flag" ~> (i \in ready \/ detached \/ ~Running)
    /\ async = "work" ~> (async = "ready" \/ ~Running)

-----------------------------------------------------------------------------
(* What the comments say and the code does not do                          *)

\* Thread.hpp:128-129 "The thread's priority and name are applied during
\* initialization": without looking at a _thread that is not this thread.
InitSeesItsThread == fault \notin {"null thread", "terminate"}

\* Thread.hpp:133 "A future object to synchronize with thread completion".
FutureMeansCompletion == ready \subseteq worked

\* Thread.hpp:169 "True if priority was successfully set": the default is never
\* set on a thread that runs (Thread.cpp:137, 148).
PriorityIsApplied ==
    upc = "idle" /\ alive /\ started => applied[thread] = priority

\* Thread.hpp:149 "Allows the thread to run independently": of the object.
DetachedRunsOn == fault # "freed object"
=============================================================================
