------------------------------ MODULE IOContext ------------------------------
(***************************************************************************)
(* common::asio::IOContext (IOContext.hpp): the io_context and the pool of *)
(* workers that call io_context::run().  The pool is TaskPool, which the   *)
(* model of TaskExecutor implements; io_context is modelled from its use.  *)
(*                                                                         *)
(* A task of the pool is <<r, i>>: the i-th task loaded by the r-th call   *)
(* of run().  It runs handlers until the context is stopped or out of      *)
(* work.  A handler that throws ends the task it runs on.                  *)
(***************************************************************************)
EXTENDS Naturals, FiniteSets

CONSTANTS
    ExecutorCount,  \* _executorCount
    Handlers,       \* the handlers, each posted once
    Throwing,       \* those that throw
    Callers,        \* the threads that call run() and stop()
    PendingOps,     \* whether an operation, an accept, say, is always pending
    MaxRuns,        \* bound on the calls of run() that load tasks
    StopsOnce       \* whether at most one thread calls stop() at a time

ASSUME CountAssumption == ExecutorCount \in Nat \ {0} /\ MaxRuns \in Nat
ASSUME HandlersAssumption == Throwing \subseteq Handlers /\ {StopsOnce, PendingOps} \subseteq BOOLEAN

Loops == (1 .. MaxRuns) \X (1 .. ExecutorCount)

VARIABLES
    running,     \* _running
    guard,       \* _workGuard owns work
    stopped,     \* the io_context is stopped
    posted,      \* the handlers that wait in the io_context
    executed,    \* the handlers that have returned or thrown (history)
    executing,   \* executing[l]: the handler task l is in, as a set
    cpc,         \* cpc[c]: where caller c is
    runs,        \* the number of calls of run() that load tasks
    loading,     \* loading[c]: the call of run() caller c is in
    loaded,      \* loaded[c]: the tasks it has loaded
    status, accepting, quiet   \* the pool

callVars == <<cpc, runs, loading, loaded>>
contextVars == <<running, guard, stopped, posted, executed, executing>>
vars == <<contextVars, callVars, status, accepting, quiet>>

Pool == INSTANCE TaskPool WITH Tasks <- Loops
poolVars == <<status, accepting, quiet>>

CallerPCs == {"idle", "store", "load", "guard", "stop", "close", "join",
              "restart", "clear"}

Init ==
    /\ running = FALSE
    /\ guard = TRUE
    /\ stopped = FALSE
    /\ posted = {}
    /\ executed = {}
    /\ executing = [l \in Loops |-> {}]
    /\ cpc = [c \in Callers |-> "idle"]
    /\ runs = 0
    /\ loading = [c \in Callers |-> 0]
    /\ loaded = [c \in Callers |-> 0]
    /\ Pool!PoolInit

CGoto(c, from, to) == cpc[c] = from /\ cpc' = [cpc EXCEPT ![c] = to]
Executing == UNION {executing[l] : l \in Loops}

-----------------------------------------------------------------------------
(* run()                                                                   *)

\* if(_running.load()) return
RunCheck(c) ==
    /\ ~running
    /\ runs < MaxRuns
    /\ CGoto(c, "idle", "store")
    /\ runs' = runs + 1
    /\ loading' = [loading EXCEPT ![c] = runs']
    /\ loaded' = [loaded EXCEPT ![c] = 0]
    /\ UNCHANGED <<contextVars, poolVars>>

\* _running.store(true)
RunStore(c) ==
    /\ CGoto(c, "store", "load")
    /\ running' = TRUE
    /\ UNCHANGED <<guard, stopped, posted, executed, executing, runs, loading, loaded, poolVars>>

\* Mutant of RunLoad: the last load is left out.
RunLoadShort(c) ==
    LET i == loaded[c] + 1
    IN  /\ CGoto(c, "load", IF i + 1 >= ExecutorCount THEN "idle" ELSE "load")
        /\ loaded' = [loaded EXCEPT ![c] = i]
        /\ IF i < ExecutorCount THEN Pool!Submit(<<loading[c], i>>) ELSE UNCHANGED poolVars
        /\ UNCHANGED <<contextVars, runs, loading>>

\* Mutant of RunLoad: i <= _executorCount.
RunLoadPast(c) ==
    LET i == loaded[c] + 1
    IN  /\ CGoto(c, "load", IF i > ExecutorCount THEN "idle" ELSE "load")
        /\ loaded' = [loaded EXCEPT ![c] = i]
        /\ IF i <= ExecutorCount THEN Pool!Submit(<<loading[c], i>>) ELSE UNCHANGED poolVars
        /\ UNCHANGED <<contextVars, runs, loading>>

\* _executor->load, _executorCount times
RunLoad(c) ==
    LET i == loaded[c] + 1
    IN  /\ CGoto(c, "load", IF i = ExecutorCount THEN "idle" ELSE "load")
        /\ loaded' = [loaded EXCEPT ![c] = i]
        /\ Pool!Submit(<<loading[c], i>>)
        /\ UNCHANGED <<contextVars, runs, loading>>

-----------------------------------------------------------------------------
(* stop()                                                                  *)

\* if(!_running.load()) return
StopCheck(c) ==
    /\ running
    /\ StopsOnce => \A d \in Callers : cpc[d] \in {"idle", "store", "load"}
    /\ CGoto(c, "idle", "guard")
    /\ UNCHANGED <<contextVars, runs, loading, loaded, poolVars>>

\* _workGuard.reset()
StopGuard(c) ==
    /\ CGoto(c, "guard", "stop")
    /\ guard' = FALSE
    /\ UNCHANGED <<running, stopped, posted, executed, executing, runs, loading, loaded, poolVars>>

\* Mutant of StopContext: the context is left running.
StopContextNot(c) ==
    /\ CGoto(c, "stop", "close")
    /\ UNCHANGED <<contextVars, runs, loading, loaded, poolVars>>

\* _context.stop()
StopContext(c) ==
    /\ CGoto(c, "stop", "close")
    /\ stopped' = TRUE
    /\ UNCHANGED <<running, guard, posted, executed, executing, runs, loading, loaded, poolVars>>

\* _executor->stop() returns at once if the executor is not running ...
StopExecutor(c) ==
    /\ IF accepting
          THEN CGoto(c, "close", "join") /\ Pool!Close
          ELSE CGoto(c, "close", "restart") /\ UNCHANGED poolVars
    /\ UNCHANGED <<contextVars, runs, loading, loaded>>

\* Mutant of StopJoin: the executor is not waited for.
StopJoinNot(c) ==
    /\ CGoto(c, "join", "restart")
    /\ UNCHANGED <<contextVars, runs, loading, loaded, poolVars>>

\* ... and otherwise waits for its workers.
StopJoin(c) ==
    /\ CGoto(c, "join", "restart")
    /\ Pool!Quiesce
    /\ UNCHANGED <<contextVars, runs, loading, loaded>>

\* _context.restart()
StopRestart(c) ==
    /\ CGoto(c, "restart", "clear")
    /\ stopped' = FALSE
    /\ UNCHANGED <<running, guard, posted, executed, executing, runs, loading, loaded, poolVars>>

\* _running.store(false)
StopClear(c) ==
    /\ CGoto(c, "clear", "idle")
    /\ running' = FALSE
    /\ UNCHANGED <<guard, stopped, posted, executed, executing, runs, loading, loaded, poolVars>>

Caller(c) ==
    \/ RunStore(c) \/ RunLoad(c)
    \/ StopGuard(c) \/ StopContext(c) \/ StopExecutor(c) \/ StopJoin(c)
    \/ StopRestart(c) \/ StopClear(c)

-----------------------------------------------------------------------------
(* post() and io_context::run()                                            *)

PostHandler(h) ==
    /\ h \notin posted \cup executed \cup Executing
    /\ posted' = posted \cup {h}
    /\ UNCHANGED <<running, guard, stopped, executed, executing, callVars, poolVars>>

\* A free worker of the pool takes the task and enters io_context::run().
Enter(l) ==
    /\ Cardinality({k \in Loops : status[k] = "running"}) < ExecutorCount
    /\ Pool!Start(l)
    /\ UNCHANGED <<contextVars, callVars>>

\* A task begins a handler.
Dispatch(l) ==
    /\ status[l] = "running" /\ executing[l] = {}
    /\ ~stopped
    /\ \E h \in posted :
          /\ executing' = [executing EXCEPT ![l] = {h}]
          /\ posted' = posted \ {h}
    /\ UNCHANGED <<running, guard, stopped, executed, callVars, poolVars>>

\* The handler returns.  If it throws, so does io_context::run(): the exception
\* ends in the packaged_task of load().
HandlerDone(l) ==
    /\ executing[l] # {}
    /\ executed' = executed \cup executing[l]
    /\ executing' = [executing EXCEPT ![l] = {}]
    /\ IF executing[l] \subseteq Throwing
          THEN Pool!Finish(l)
          ELSE UNCHANGED poolVars
    /\ UNCHANGED <<running, guard, stopped, posted, callVars>>

\* io_context::run() returns when the context is stopped, or stops it because
\* there is no work left.
Return(l) ==
    /\ status[l] = "running" /\ executing[l] = {}
    /\ stopped \/ (~guard /\ ~PendingOps /\ posted = {} /\ Executing = {})
    /\ stopped' = TRUE
    /\ Pool!Finish(l)
    /\ UNCHANGED <<running, guard, posted, executed, executing, callVars>>

Loop(l) == Dispatch(l) \/ HandlerDone(l) \/ Return(l)

-----------------------------------------------------------------------------

Next ==
    \/ \E c \in Callers : RunCheck(c) \/ StopCheck(c) \/ Caller(c)
    \/ \E h \in Handlers : PostHandler(h)
    \/ \E l \in Loops : Enter(l) \/ Loop(l)

Spec == Init /\ [][Next]_vars

\* Calls that have begun, workers and handlers go on; the pool starts a task it
\* has accepted while it is not stopped, and its stop() returns once no task
\* runs.  Nobody has to call run(), stop() or post().
FairSpec ==
    /\ Spec
    /\ \A c \in Callers : WF_vars(Caller(c))
    /\ \A l \in Loops : WF_vars(accepting /\ Enter(l)) /\ WF_vars(Loop(l))

-----------------------------------------------------------------------------
(* Properties                                                              *)

\* Every variable keeps its type; a handler runs on one task of the pool, which
\* runs (IOContext.hpp:89-123).
TypeOK ==
    /\ {running, guard, stopped} \subseteq BOOLEAN
    /\ posted \subseteq Handlers /\ executed \subseteq Handlers
    /\ executing \in [Loops -> SUBSET Handlers]
    /\ \A l \in Loops : executing[l] # {} => status[l] = "running"
    /\ cpc \in [Callers -> CallerPCs]
    /\ runs \in 0 .. MaxRuns
    /\ loading \in [Callers -> 0 .. MaxRuns]
    /\ loaded \in [Callers -> 0 .. ExecutorCount]
    /\ Pool!PoolTypeOK

\* When stop() goes on after the executor's, no worker of the pool is left, so
\* no handler is running (IOContext.hpp:114-123).
StopJoins ==
    (\E c \in Callers : cpc[c] \in {"restart", "clear"}) =>
        Executing = {} /\ \A l \in Loops : status[l] # "running"

\* stop() returns, if no second thread is in stop() (IOContext.hpp:114-123) and
\* the executor's stop() does.
StopReturns == \A c \in Callers : cpc[c] = "guard" ~> cpc[c] = "idle"

\* IOContext.hpp:129 "Guarantees the handler runs on one of the io_context
\* threads": a posted handler is run, unless stop() is called.  Only if no
\* more handlers throw than there are workers.
PostedRuns ==
    \A h \in Handlers :
        (h \in posted /\ running) ~> (h \in executed \/ ~running \/ ~guard)

-----------------------------------------------------------------------------
(* What the comments say and the code does not do                          *)

\* IOContext.hpp:82 "Starts the event loop by running io_context on the internal
\* thread pool": each run() does, unless stop() is called.
RunStartsLoop ==
    \A r \in 1 .. MaxRuns :
        (\E c \in Callers : cpc[c] = "load" /\ loading[c] = r) ~>
            \/ \E i \in 1 .. ExecutorCount : status[<<r, i>>] \in {"running", "done"}
            \/ \E c \in Callers : cpc[c] \notin {"idle", "store", "load"}
=============================================================================
