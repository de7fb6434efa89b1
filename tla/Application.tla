---------------------------- MODULE Application ----------------------------
(***************************************************************************)
(* common::lifecycle::Application (Application.cpp, Application.h):  run() *)
(* starts a thread that calls bootup(), waits for a signal that asks it to *)
(* end, and calls shutdown(); run() waits for that thread.                 *)
(*                                                                         *)
(* On Linux the signals are blocked, stay pending, and are taken one by    *)
(* one with sigwait(); on Windows a console handler sets an event.  What   *)
(* signals do by default, and that a console that is closed ends its       *)
(* process, is the operating system's part.                                *)
(***************************************************************************)
EXTENDS Naturals

CONSTANTS
    Systems,       \* the builds considered, among "linux" and "windows"
    Signals,       \* what may arrive, among "TERM", "INT", "HUP", "CLOSE"
    OtherThreads,  \* some thread older than run() does not block the signals
    MaxRuns        \* bound on the calls of run()

VARIABLES
    system,     \* the build
    strict,     \* STRICT_MODE_ENABLED
    single,     \* _isSingleInstance
    main,       \* where the thread that calls run() is
    runs,       \* the number of calls of run()
    app,        \* where the application's thread is
    shutdown,   \* _shutdown
    future,     \* what bootup() or shutdown() returned: "none", "pending", "ready"
    blocked,    \* the signals are blocked (Linux)
    pending,    \* the blocked signals that have arrived (Linux)
    event,      \* g_eventHandler: "null", "clear", "set" or "closed" (Windows)
    handler,    \* ConsoleCtrlHandler is installed (Windows)
    tracked,    \* a resource of the program is still registered
    process     \* "runs", or how it ended

mainVars == <<system, strict, single, main, runs, tracked>>
appVars == <<app, shutdown, future>>
osVars == <<blocked, pending, event, handler>>
vars == <<mainVars, appVars, osVars, process>>

Init ==
    /\ system \in Systems
    /\ strict \in BOOLEAN
    /\ single = FALSE
    /\ main = "none"
    /\ runs = 0
    /\ app = "none"
    /\ shutdown = FALSE
    /\ future = "none"
    /\ blocked = FALSE
    /\ pending = {}
    /\ event = "null"
    /\ handler = FALSE
    /\ tracked = FALSE
    /\ process = "runs"

MGoto(from, to) == main = from /\ main' = to
AGoto(from, to) == app = from /\ app' = to

-----------------------------------------------------------------------------
(* The thread that has the application                                     *)

\* The InstanceGuard of the object: a second one terminates the process.
Construct ==
    /\ MGoto("none", "object")
    /\ single' = TRUE
    /\ shutdown' = FALSE
    /\ runs' = 0
    /\ UNCHANGED <<system, strict, tracked, app, future, osVars, process>>

ConstructSecond ==
    /\ single
    /\ process' = "terminated"
    /\ UNCHANGED <<mainVars, appVars, osVars>>

\* The program keeps or releases resources of its own.
Track ==
    /\ strict /\ main = "object"
    /\ tracked' = ~tracked
    /\ UNCHANGED <<system, strict, single, main, runs, appVars, osVars, process>>

Run ==
    /\ runs < MaxRuns
    /\ MGoto("object", IF system = "linux" THEN "block" ELSE "create")
    /\ runs' = runs + 1
    /\ UNCHANGED <<system, strict, single, tracked, appVars, osVars, process>>

\* Mutant of Block: the signals are not blocked.
BlockNot ==
    /\ MGoto("block", "start")
    /\ blocked' = FALSE
    /\ UNCHANGED <<system, strict, single, runs, tracked, appVars, pending, event, handler, process>>

\* pthread_sigmask(SIG_BLOCK, &set, nullptr); the thread inherits the mask.
Block ==
    /\ MGoto("block", "start")
    /\ blocked' = TRUE
    /\ UNCHANGED <<system, strict, single, runs, tracked, appVars, pending, event, handler, process>>

\* CreateEvent: run() returns -1 if it fails.
CreateEvent ==
    /\ \/ MGoto("create", "install") /\ event' = "clear"
       \/ MGoto("create", "object") /\ event' = "null"
    /\ UNCHANGED <<system, strict, single, runs, tracked, appVars, blocked, pending, handler, process>>

\* SetConsoleCtrlHandler; CloseHandle and -1 if it fails.
InstallHandler ==
    /\ \/ MGoto("install", "start") /\ handler' = TRUE /\ event' = event
       \/ MGoto("install", "object") /\ handler' = handler /\ event' = "closed"
    /\ UNCHANGED <<system, strict, single, runs, tracked, appVars, blocked, pending, process>>

\* _t->start(...)
StartThread ==
    /\ MGoto("start", "wait")
    /\ app' = "bootup"
    /\ UNCHANGED <<system, strict, single, runs, tracked, shutdown, future, osVars, process>>

\* .wait() on the future of the thread
Wait ==
    /\ MGoto("wait", IF system = "linux" THEN "object" ELSE "remove")
    /\ app = "done"
    /\ app' = "none"
    /\ UNCHANGED <<system, strict, single, runs, tracked, shutdown, future, osVars, process>>

RemoveHandler ==
    /\ MGoto("remove", "close")
    /\ handler' = FALSE
    /\ UNCHANGED <<system, strict, single, runs, tracked, appVars, blocked, pending, event, process>>

\* CloseHandle(g_eventHandler); g_eventHandler = nullptr
CloseEvent ==
    /\ MGoto("close", "object")
    /\ event' = "null"
    /\ UNCHANGED <<system, strict, single, runs, tracked, appVars, blocked, pending, handler, process>>

\* ~Application() is noexcept: an audit that throws terminates the process.
\* The guard, a member, is destroyed after that.
Destruct ==
    /\ MGoto("object", "none")
    /\ IF strict /\ tracked THEN process' = "terminated" /\ single' = single
                            ELSE process' = process /\ single' = FALSE
    /\ UNCHANGED <<system, strict, runs, tracked, appVars, osVars>>

MainInRun ==
    \/ Block \/ CreateEvent \/ InstallHandler \/ StartThread \/ Wait
    \/ RemoveHandler \/ CloseEvent

-----------------------------------------------------------------------------
(* The application's thread                                                *)

\* bootup() or shutdown() returns no future, or one that is not ready yet.
CallUser(from, to) ==
    /\ AGoto(from, to)
    /\ future' \in {"none", "pending"}
    /\ UNCHANGED <<shutdown, mainVars, osVars, process>>

FutureReady ==
    /\ future = "pending"
    /\ future' = "ready"
    /\ UNCHANGED <<app, shutdown, mainVars, osVars, process>>

\* if(future) future->wait()
WaitUser(from, to) ==
    /\ AGoto(from, to)
    /\ future # "pending"
    /\ UNCHANGED <<shutdown, future, mainVars, osVars, process>>

\* while (!_shutdown.load())
Loop ==
    /\ AGoto("loop", IF shutdown THEN "shutdown" ELSE "wait")
    /\ UNCHANGED <<shutdown, future, mainVars, osVars, process>>

\* Mutant of Handle: SIGINT is ignored like SIGHUP.
HandleTerm(signal) == shutdown' = (shutdown \/ signal = "TERM")

\* signal_handler(signal)
Handle(signal) == shutdown' = (shutdown \/ signal \in {"TERM", "INT"})

\* sigwait(&set, &signal)
SigWait ==
    /\ system = "linux"
    /\ AGoto("wait", "loop")
    /\ \E signal \in pending : Handle(signal) /\ pending' = pending \ {signal}
    /\ UNCHANGED <<future, mainVars, blocked, event, handler, process>>

\* WaitForSingleObject(g_eventHandler, 1000); the event stays set.
EventWait ==
    /\ system = "windows"
    /\ AGoto("wait", "loop")
    /\ event \in {"clear", "set"}
    /\ IF event = "set" THEN Handle("TERM") ELSE shutdown' = shutdown
    /\ UNCHANGED <<future, mainVars, osVars, process>>

AppThread ==
    \/ CallUser("bootup", "booting") \/ WaitUser("booting", "loop")
    \/ Loop \/ SigWait \/ EventWait
    \/ CallUser("shutdown", "ending") \/ WaitUser("ending", "done")

-----------------------------------------------------------------------------
(* The operating system                                                    *)

\* A signal that some thread does not block does what it does by default.
Signal(s) ==
    /\ system = "linux" /\ s # "CLOSE"
    /\ IF blocked /\ ~OtherThreads
          THEN pending' = pending \cup {s} /\ process' = process
          ELSE pending' = pending /\ process' = "killed"
    /\ UNCHANGED <<mainVars, appVars, blocked, event, handler>>

\* ConsoleCtrlHandler, on a thread of the system: SetEvent and TRUE.  CLOSE
\* stands for a console, session or system that ends: the process ends with it.
Control(s) ==
    /\ system = "windows" /\ s \in {"INT", "CLOSE"}
    /\ IF handler THEN event' = IF event = "clear" THEN "set" ELSE event
                  ELSE event' = event
    /\ process' = IF handler /\ s # "CLOSE" THEN process ELSE "killed"
    /\ UNCHANGED <<mainVars, appVars, blocked, pending, handler>>

-----------------------------------------------------------------------------

Running == process = "runs"

Next ==
    /\ Running
    /\ \/ Construct \/ ConstructSecond \/ Track \/ Run \/ MainInRun \/ Destruct
       \/ AppThread \/ FutureReady
       \/ \E s \in Signals : Signal(s) \/ Control(s)

Spec == Init /\ [][Next]_vars

\* Threads run, and the user's futures become ready.
Fairness ==
    /\ WF_vars(Running /\ MainInRun)
    /\ WF_vars(Running /\ AppThread)
    /\ WF_vars(Running /\ FutureReady)

FairSpec == Spec /\ Fairness

-----------------------------------------------------------------------------
(* Properties                                                              *)

TypeOK ==
    /\ system \in Systems
    /\ {strict, single, shutdown, blocked, handler, tracked} \subseteq BOOLEAN
    /\ main \in {"none", "object", "block", "create", "install", "start",
                 "wait", "remove", "close"}
    /\ runs \in 0 .. MaxRuns
    /\ app \in {"none", "bootup", "booting", "loop", "wait", "shutdown",
                "ending", "done"}
    /\ future \in {"none", "pending", "ready"}
    /\ pending \subseteq Signals
    /\ event \in {"null", "clear", "set", "closed"}
    /\ process \in {"runs", "terminated", "killed"}

\* Once the signals are blocked, or the console handler is installed, nothing
\* that arrives before run() returns ends the process without shutdown(); and
\* shutdown() is called only when the future of bootup() is ready and a TERM or
\* an INT has been taken (Application.cpp:158-197).
InRun == main \in {"start", "wait", "remove"}
NoAbruptEnd ==
    /\ [][InRun => process' # "killed"]_vars
    /\ [][app' = "ending" /\ app # "ending" => shutdown /\ app = "shutdown"]_vars

\* A TERM or an INT that arrives while run() is on its way, also before the
\* thread waits for it and behind a HUP, makes run() return, unless HUPs come
\* without end: which pending signal sigwait() takes is not specified
\* (Application.cpp:166-198).
Asked == InRun /\ (pending \cap {"TERM", "INT"} # {} \/ event = "set")
SignalEndsRun ==
    <>[]("HUP" \notin pending) => (Asked ~> (main = "object" \/ ~Running))

-----------------------------------------------------------------------------
(* What one would expect and the code does not do                          *)

\* Each run() waits for a signal of its own: _shutdown is never cleared.
RunWaitsForSignal ==
    [][app = "loop" /\ app' = "shutdown" => runs = 1]_vars
=============================================================================
