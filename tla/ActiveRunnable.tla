--------------------------- MODULE ActiveRunnable ---------------------------
(***************************************************************************)
(* common::threading::ActiveRunnable (Runnable.hpp:206-410): one thread    *)
(* that waits for notify() and runs __work() on the data, in order.        *)
(*                                                                         *)
(* notify() and stop() hold _notifyLock from their first to their last     *)
(* effect, notify_one included, and so does the worker from line 252 to    *)
(* line 258, except while it waits.  Each of these is one step.  The       *)
(* condition at line 250 is read without the lock and is a step of its     *)
(* own.  The wait at line 253 has no predicate.                            *)
(***************************************************************************)
EXTENDS Naturals, Sequences, SequencesExt

CONSTANTS
    Items,     \* the notifications, each sent once
    MaxRuns    \* bound on the calls of run()

VARIABLES
    running,   \* _running
    tasks,     \* _tasks
    pc,        \* where the worker thread is in its loop
    rpc,       \* where the thread that calls run() is
    runs,      \* the number of calls of run() that have begun
    current,   \* the local variable task of the worker, as a sequence
    notified,  \* every notification, in the order of notify() (history)
    executed,  \* every item whose promise is set, in order (history)
    unusual    \* what has happened that the wait is not made for (history)

runVars == <<rpc, runs>>
vars == <<running, tasks, pc, runVars, current, notified, executed, unusual>>

WorkerPCs == {"none", "check", "lock", "waiting", "woken", "work", "exit",
              "undefined"}
RunPCs == {"idle", "store", "join"}

Init ==
    /\ running = FALSE
    /\ tasks = <<>>
    /\ pc = "none"
    /\ rpc = "idle"
    /\ runs = 0
    /\ current = <<>>
    /\ notified = <<>>
    /\ executed = <<>>
    /\ unusual = {}

Goto(from, to) == pc = from /\ pc' = to

\* _cv.notify_one: the worker is the only thread that waits.
Notify == pc' = IF pc = "waiting" THEN "woken" ELSE pc

-----------------------------------------------------------------------------
(* run()                                                                   *)

\* if(_running.load()) throw AlreadyRunningException().  A stopped worker may
\* not have left yet.
RunCheck ==
    /\ rpc = "idle"
    /\ runs < MaxRuns
    /\ runs' = runs + 1
    /\ rpc' = IF running THEN "idle" ELSE "store"
    /\ unusual' = IF running \/ pc \in {"none", "exit"} THEN unusual
                  ELSE unusual \cup {"restart"}
    /\ UNCHANGED <<running, tasks, pc, current, notified, executed>>

\* _running.store(true)
RunStore ==
    /\ rpc = "store"
    /\ rpc' = "join"
    /\ running' = TRUE
    /\ UNCHANGED <<tasks, pc, runs, current, notified, executed, unusual>>

\* _t = Thread::create() destroys the previous Thread, whose deleter joins its
\* worker; then the new worker is started.
RunStart ==
    /\ rpc = "join"
    /\ pc \in {"none", "exit"}
    /\ rpc' = "idle"
    /\ pc' = "check"
    /\ UNCHANGED <<running, tasks, runs, current, notified, executed, unusual>>

-----------------------------------------------------------------------------
(* The worker                                                              *)

\* Mutant of CheckRunning: the flag is not looked at.
CheckRunningNever ==
    /\ Goto("check", "lock")
    /\ UNCHANGED <<running, tasks, runVars, current, notified, executed, unusual>>

\* while(_running.load()), without the lock
CheckRunning ==
    /\ Goto("check", IF running THEN "lock" ELSE "exit")
    /\ UNCHANGED <<running, tasks, runVars, current, notified, executed, unusual>>

\* Mutant of Take: the newest task first.
TakeBack ==
    /\ tasks # <<>>
    /\ pc' = "work"
    /\ current' = <<Last(tasks)>>
    /\ tasks' = Front(tasks)
    /\ UNCHANGED <<running, runVars, notified, executed, unusual>>

\* Take _tasks[0] out of the vector and release the lock.
Take ==
    /\ tasks # <<>>
    /\ pc' = "work"
    /\ current' = <<Head(tasks)>>
    /\ tasks' = Tail(tasks)
    /\ UNCHANGED <<running, runVars, notified, executed, unusual>>

\* With the lock: if(!_running.load()) break, otherwise take a task.
\* _tasks[0] of an empty vector is undefined.
LeaveOrTake ==
    \/ ~running /\ pc' = "exit" /\ UNCHANGED <<tasks, current>>
                /\ UNCHANGED <<running, runVars, notified, executed, unusual>>
    \/ running /\ Take
    \/ running /\ tasks = <<>> /\ pc' = "undefined"
               /\ UNCHANGED <<running, tasks, runVars, current, notified, executed, unusual>>

\* if(_tasks.empty()) _cv.wait(lock)
Lock ==
    /\ pc = "lock"
    /\ IF tasks = <<>>
          THEN /\ pc' = "waiting"
               /\ UNCHANGED <<running, tasks, runVars, current, notified, executed, unusual>>
          ELSE LeaveOrTake

\* _cv.wait returns, with the lock.
Woken == pc = "woken" /\ LeaveOrTake

Spurious ==
    /\ Goto("waiting", "woken")
    /\ unusual' = unusual \cup {"spurious wakeup"}
    /\ UNCHANGED <<running, tasks, runVars, current, notified, executed>>

\* Mutant of Work: the task outlives its iteration.
WorkKeeps ==
    /\ Goto("work", "check")
    /\ executed' = executed \o current
    /\ UNCHANGED <<running, tasks, current, runVars, notified, unusual>>

\* __work() returns and the promise of the task is set.
Work ==
    /\ Goto("work", "check")
    /\ executed' = executed \o current
    /\ current' = <<>>
    /\ UNCHANGED <<running, tasks, runVars, notified, unusual>>

Worker == CheckRunning \/ Lock \/ Woken \/ Work

-----------------------------------------------------------------------------
(* The callers                                                             *)

\* Mutant of NotifyItem: without notify_one.
NotifyItemSilent(i) ==
    /\ i \notin ToSet(notified)
    /\ tasks' = Append(tasks, i)
    /\ notified' = Append(notified, i)
    /\ UNCHANGED <<running, pc, runVars, current, executed, unusual>>

\* notify(): push_back and notify_one under the lock, running or not.
NotifyItem(i) ==
    /\ i \notin ToSet(notified)
    /\ tasks' = Append(tasks, i)
    /\ notified' = Append(notified, i)
    /\ Notify
    /\ UNCHANGED <<running, runVars, current, executed, unusual>>

\* Mutant of Stop: the worker is woken up before the flag is cleared.
StopLate ==
    \/ /\ pc = "waiting"
       /\ pc' = "woken"
       /\ UNCHANGED running
       /\ UNCHANGED <<tasks, runVars, current, notified, executed, unusual>>
    \/ /\ running' = FALSE
       /\ UNCHANGED <<pc, tasks, runVars, current, notified, executed, unusual>>

\* stop(): clear the flag and notify_one under the lock.
Stop ==
    /\ running' = FALSE
    /\ Notify
    /\ UNCHANGED <<tasks, runVars, current, notified, executed, unusual>>

Next ==
    \/ RunCheck \/ RunStore \/ RunStart
    \/ Worker \/ Spurious
    \/ \E i \in Items : NotifyItem(i)
    \/ Stop

Spec == Init /\ [][Next]_vars

\* The worker and a run() that has begun keep taking steps; __work() returns.
\* Nobody has to call run(), notify() or stop().
Fairness == WF_vars(Worker) /\ WF_vars(RunStore \/ RunStart)

FairSpec == Spec /\ Fairness

-----------------------------------------------------------------------------
(* Properties                                                              *)

\* Every variable keeps its type; the worker holds a task only in __work()
\* (Runnable.hpp:246-284).
TypeOK ==
    /\ running \in BOOLEAN
    /\ pc \in WorkerPCs
    /\ rpc \in RunPCs
    /\ runs \in 0 .. MaxRuns
    /\ tasks \in Seq(Items)
    /\ current \in Seq(Items)
    /\ Len(current) = IF pc = "work" THEN 1 ELSE 0
    /\ notified \in Seq(Items)
    /\ executed \in Seq(Items)
    /\ unusual \subseteq {"restart", "spurious wakeup"}

\* Items are executed in the order of their notify(), once each, and none is
\* lost, through stop() and a second run() (Runnable.hpp:256-303).
ExecutedInOrder == notified = executed \o current \o tasks

\* The worker takes _tasks[0] of an empty vector only after a spurious wakeup,
\* or if run() was called again before the worker had left, although the wait
\* has no predicate (Runnable.hpp:253-256).
NoEmptyTake == pc = "undefined" => unusual # {}

\* An item is executed unless the runnable is not running: no notify() falls
\* between the test of _tasks and the wait (Runnable.hpp:252-253, 293-303).
NotifiedRuns ==
    \A i \in Items :
        i \in ToSet(tasks) ~> (i \in ToSet(executed) \/ ~running \/ pc = "undefined")

\* A worker that is busy, or waits while the runnable is running, leaves when
\* it is stopped before its next check: only a stop() between the check at
\* line 250 and the lock at line 252 can leave it waiting (Runnable.hpp:250-254).
StoppedBusyWorkerExits ==
    (~running /\ pc \in {"check", "woken", "work"}) ~> (pc = "exit" \/ running)

-----------------------------------------------------------------------------
(* What the comments say and the code does not do                          *)

\* Runnable.hpp:345-346 "The thread will not stop immediately but will stop
\* after the current iteration of __work() completes".
StoppedWorkerExits ==
    (~running /\ pc # "none") ~> (pc = "exit" \/ running)

\* Runnable.hpp:197 "The thread waits for notify() calls and executes __work()
\* with the provided data": never without data, after a spurious wakeup or
\* when run() follows stop() before the worker has left.
WorksOnlyOnData == pc # "undefined"
=============================================================================
