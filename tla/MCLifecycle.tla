---------------------------- MODULE MCLifecycle ----------------------------
(* Threads, the application, and the resources behind a lazy singleton: a    *)
(* behaviour is about one of them, and the others stay as they were made.    *)
EXTENDS Naturals

CONSTANTS
    MaxStarts,
    Systems, Signals, OtherThreads, MaxRuns,
    Callers, Platforms, Warm, MaxObjects, MaxFailures, Resources, Auditors

ASSUME MaxStartsAssumption == MaxStarts \in Nat

\* The manager is asked by the resources and the auditors, from one of two builds.
ASSUME ResourceAssumption ==
    /\ Platforms \subseteq {"linux", "windows"}
    /\ Callers = Resources \cup Auditors
    /\ MaxObjects \in Nat \ {0}
    /\ MaxFailures \in Nat

VARIABLES
    subject,
    upc, starts, thread, joinable, promise, started, tpc, ready, alive, detached, worked,
    priority, applied, async, fault,
    system, strict, single, main, runs, app, shutdown, future, blocked, pending, event,
    handler, tracked, process,
    platform, made, instance, entry, once, failures, gpc, handle, rpc, registered, terminated

threadVars == <<upc, starts, thread, joinable, promise, started, tpc, ready, alive, detached,
                worked, priority, applied, async, fault>>
applicationVars == <<system, strict, single, main, runs, app, shutdown, future, blocked,
                     pending, event, handler, tracked, process>>
resourceVars == <<platform, made, instance, entry, once, failures, gpc, handle, rpc,
                  registered, terminated>>

Thread == INSTANCE ThreadDetail
Application == INSTANCE Application
Resource == INSTANCE Resource

Init ==
    /\ Thread!Init /\ Application!Init /\ Resource!ResourceInit
    /\ subject \in {"thread", "application", "resource"}
    /\ subject # "application" => system = "linux" /\ ~strict
    /\ subject # "resource" => platform = CHOOSE p \in Platforms : TRUE

Next ==
    /\ UNCHANGED subject
    /\ \/ /\ subject = "thread" /\ Thread!Next
          /\ UNCHANGED <<applicationVars, resourceVars>>
       \/ /\ subject = "application" /\ Application!Next
          /\ UNCHANGED <<threadVars, resourceVars>>
       \/ /\ subject = "resource" /\ Resource!ResourceNext
          /\ UNCHANGED <<threadVars, applicationVars>>

Spec ==
    /\ Init /\ [][Next]_<<subject, threadVars, applicationVars, resourceVars>>
    /\ Thread!Fairness /\ Application!Fairness

-----------------------------------------------------------------------------

\* Without detach(), one thread at a time works on a Thread, with its priority,
\* and none once it is deleted (Thread.cpp:64-161).
OneThreadOnObject == Thread!OneThreadOnObject

\* The futures of start() and async() become ready (Thread.cpp:93-99, 210-221).
FutureBecomesReady == Thread!FutureBecomesReady

\* A signal that arrives during run() neither kills the process nor is lost: a
\* TERM or an INT shuts the application down and ends run(), whenever it arrives
\* (Application.cpp:158-198).
SignalShutsDown == Application!NoAbruptEnd /\ Application!SignalEndsRun

\* An audit throws if and only if a resource is held (Resource.cpp:43-50).
AuditIsExact == Resource!AuditIsExact
=============================================================================
