---------------------------- MODULE TaskExecutor ----------------------------
(***************************************************************************)
(* The work-stealing thread pool of common::threading::TaskExecutor        *)
(* (TaskExecutor.hpp) with its queues (container/WorkQueue.hpp).           *)
(*                                                                         *)
(* Every worker has a queue of its own, a deque under a mutex with a       *)
(* condition variable only its owner waits on. load() draws a ticket from  *)
(* an atomic counter, pushes on the ticket's queue and notifies; a worker  *)
(* runs the front of its own queue, tries to steal from the back of the    *)
(* others when its own is empty, and blocks on its own queue. stop()       *)
(* clears _running, then notifies and waits for one worker after another.  *)
(*                                                                         *)
(* A step is one access to shared state.  A critical section is one step,  *)
(* with one exception: a worker that found its queue empty and _running    *)
(* set still holds the queue's mutex until it blocks (pc "block"), and     *)
(* neither the store of _running nor finalize() takes that mutex.          *)
(***************************************************************************)
EXTENDS Naturals, Sequences, SequencesExt, FiniteSets

CONSTANTS
    N,             \* workers, and queues: next_pwr_of_2(threadCount)
    Tasks,         \* the tasks that may be loaded, each by a thread of its own
    Stoppers,      \* the threads that may call stop()
    IndexModulus,  \* 2^32, the range of the uint32_t _index
    NoTask         \* the null std::function

Workers == 0 .. N-1
NoQueue == N

\* The queue count is a power of two, so _index & (size - 1) is _index % N,
\* and N divides the range of the counter.
ASSUME NAssumption == N \in Nat \ {0}
ASSUME IndexAssumption == IndexModulus \in Nat \ {0} /\ IndexModulus % N = 0
ASSUME NoTaskAssumption == NoTask \notin Tasks

VARIABLES
    running,  \* _running
    index,    \* _index
    queue,    \* queue[q]: the deque _tasks of _queues[q]
    pc,       \* pc[w]: where worker w is in its loop
    held,     \* held[w]: the local variable task of worker w
    probe,    \* probe[w]: the local i of the stealing loop
    stage,    \* stage[t]: how far the load() of task t has got
    slot,     \* slot[t]: the queueIndex load() computed for t
    spc,      \* spc[s]: where stopper s is in stop()
    scan,     \* scan[s]: the local i of stop()
    done      \* the tasks that have been executed (history variable)

workerVars == <<pc, held, probe>>
loadVars == <<index, stage, slot>>
stopVars == <<spc, scan>>
vars == <<running, queue, done, workerVars, loadVars, stopVars>>

WorkerPCs == {"check", "pop", "block", "waiting", "run", "empty",
              "steal", "try", "runStolen", "exit"}
Stages == {"new", "ticket", "pushed", "returned"}
StopperPCs == {"idle", "clear", "size", "finalize", "wait", "refused",
               "returned", "undefined"}

Init ==
    /\ running = TRUE
    /\ index = 0
    /\ queue = [q \in Workers |-> <<>>]
    /\ pc = [w \in Workers |-> "check"]
    /\ held = [w \in Workers |-> NoTask]
    /\ probe = [w \in Workers |-> 0]
    /\ stage = [t \in Tasks |-> "new"]
    /\ slot = [t \in Tasks |-> NoQueue]
    /\ spc = [s \in Stoppers |-> "idle"]
    /\ scan = [s \in Stoppers |-> 0]
    /\ done = {}

Goto(w, from, to) == pc[w] = from /\ pc' = [pc EXCEPT ![w] = to]

\* _queues[q]._lock is held across steps only by an owner about to block.
Locked(q) == pc[q] = "block"

-----------------------------------------------------------------------------
(* WorkQueue::pop by worker w on its own queue                             *)

\* Mutant of PopTask: the front is copied and stays in the deque.
PopTaskKeeps(w) ==
    /\ Goto(w, "pop", "run")
    /\ queue[w] # <<>>
    /\ held' = [held EXCEPT ![w] = Head(queue[w])]
    /\ UNCHANGED <<running, queue, done, probe, loadVars, stopVars>>

\* The predicate of _cv.wait holds because there is a task: take the front.
PopTask(w) ==
    /\ Goto(w, "pop", "run")
    /\ queue[w] # <<>>
    /\ held' = [held EXCEPT ![w] = Head(queue[w])]
    /\ queue' = [queue EXCEPT ![w] = Tail(queue[w])]
    /\ UNCHANGED <<running, done, probe, loadVars, stopVars>>

\* ... or because the executor stops: return nullptr.
PopNothing(w) ==
    /\ Goto(w, "pop", "empty")
    /\ queue[w] = <<>>
    /\ ~running
    /\ UNCHANGED <<running, queue, done, held, probe, loadVars, stopVars>>

\* Mutant of PopWait: block without having looked at the queue.
PopWaitUnchecked(w) ==
    /\ Goto(w, "pop", "block")
    /\ running
    /\ UNCHANGED <<running, queue, done, held, probe, loadVars, stopVars>>

\* The predicate is false.  _lock is held until Block releases it.
PopWait(w) ==
    /\ Goto(w, "pop", "block")
    /\ queue[w] = <<>>
    /\ running
    /\ UNCHANGED <<running, queue, done, held, probe, loadVars, stopVars>>

\* Release _lock and start to wait, atomically.
Block(w) ==
    /\ Goto(w, "block", "waiting")
    /\ UNCHANGED <<running, queue, done, held, probe, loadVars, stopVars>>

\* A spurious wakeup: the predicate is evaluated again.
Spurious(w) ==
    /\ Goto(w, "waiting", "pop")
    /\ UNCHANGED <<running, queue, done, held, probe, loadVars, stopVars>>

\* notify_one and notify_all on queue q: only its owner waits there.
Notified(q) == [pc EXCEPT ![q] = IF @ = "waiting" THEN "pop" ELSE @]

-----------------------------------------------------------------------------
(* The loop of worker w                                                    *)

\* Mutant of CheckRunning: the loop condition is never false.
CheckRunningNever(w) ==
    /\ Goto(w, "check", "pop")
    /\ UNCHANGED <<running, queue, done, held, probe, loadVars, stopVars>>

\* while(_running.load())
CheckRunning(w) ==
    /\ Goto(w, "check", IF running THEN "pop" ELSE "exit")
    /\ UNCHANGED <<running, queue, done, held, probe, loadVars, stopVars>>

\* task() returns, after a pop or after a steal.
Execute(w, from, to) ==
    /\ Goto(w, from, to)
    /\ done' = done \cup {held[w]}
    /\ held' = [held EXCEPT ![w] = NoTask]
    /\ UNCHANGED <<running, queue, probe, loadVars, stopVars>>

FinishTask(w) == Execute(w, "run", "empty") \/ Execute(w, "runStolen", "check")

\* if (_queues[index]->empty()) enter the stealing loop with i = 1
CheckEmpty(w) ==
    /\ Goto(w, "empty", IF queue[w] = <<>> THEN "steal" ELSE "check")
    /\ probe' = [probe EXCEPT ![w] = 1]
    /\ UNCHANGED <<running, queue, done, held, loadVars, stopVars>>

\* Mutant of StealLoop: i <= size.
StealLoopPastEnd(w) ==
    /\ Goto(w, "steal", IF probe[w] <= N /\ running THEN "try" ELSE "check")
    /\ UNCHANGED <<running, queue, done, held, probe, loadVars, stopVars>>

\* i < size, and if (!_running.load()) break
StealLoop(w) ==
    /\ Goto(w, "steal", IF probe[w] < N /\ running THEN "try" ELSE "check")
    /\ UNCHANGED <<running, queue, done, held, probe, loadVars, stopVars>>

Target(w) == (w + probe[w]) % N

\* Mutant of StealTask: the back is copied and stays in the deque.
StealTaskKeeps(w) ==
    /\ Goto(w, "try", "runStolen")
    /\ ~Locked(Target(w))
    /\ queue[Target(w)] # <<>>
    /\ held' = [held EXCEPT ![w] = Last(queue[Target(w)])]
    /\ UNCHANGED <<running, queue, done, probe, loadVars, stopVars>>

\* try_steal takes the back of the target queue and the worker runs it.
StealTask(w) ==
    /\ Goto(w, "try", "runStolen")
    /\ ~Locked(Target(w))
    /\ queue[Target(w)] # <<>>
    /\ held' = [held EXCEPT ![w] = Last(queue[Target(w)])]
    /\ queue' = [queue EXCEPT ![Target(w)] = Front(@)]
    /\ UNCHANGED <<running, done, probe, loadVars, stopVars>>

\* try_steal returns nullptr: the queue is empty, or somebody holds its lock
\* (a pop, push, empty or steal of one step may be in progress at any time).
StealNothing(w) ==
    /\ Goto(w, "try", "steal")
    /\ probe' = [probe EXCEPT ![w] = @ + 1]
    /\ UNCHANGED <<running, queue, done, held, loadVars, stopVars>>

Worker(w) ==
    \/ CheckRunning(w)
    \/ PopTask(w) \/ PopNothing(w) \/ PopWait(w) \/ Block(w)
    \/ FinishTask(w) \/ CheckEmpty(w)
    \/ StealLoop(w) \/ StealTask(w) \/ StealNothing(w)

-----------------------------------------------------------------------------
(* load() of task t, by a thread of its own                                *)

Stage(t, from, to) == stage[t] = from /\ stage' = [stage EXCEPT ![t] = to]

\* Mutant of DrawTicket: a load and a store, whose increment may get lost.
DrawTicketRacy(t) ==
    /\ Stage(t, "new", "ticket")
    /\ slot' = [slot EXCEPT ![t] = index % N]
    /\ index' \in {index, (index + 1) % IndexModulus}
    /\ UNCHANGED <<running, queue, done, workerVars, stopVars>>

\* _index.fetch_add(1) & (_queues.size() - 1)
DrawTicket(t) ==
    /\ Stage(t, "new", "ticket")
    /\ slot' = [slot EXCEPT ![t] = index % N]
    /\ index' = (index + 1) % IndexModulus
    /\ UNCHANGED <<running, queue, done, workerVars, stopVars>>

\* Mutant of Push: the back of the deque is assigned to.
PushOverBack(t) ==
    /\ Stage(t, "ticket", "pushed")
    /\ ~Locked(slot[t])
    /\ queue' = [queue EXCEPT ![slot[t]] = IF @ = <<>> THEN <<t>> ELSE Append(Front(@), t)]
    /\ UNCHANGED <<running, done, index, slot, workerVars, stopVars>>

\* WorkQueue::push appends the task under the lock ...
Push(t) ==
    /\ Stage(t, "ticket", "pushed")
    /\ ~Locked(slot[t])
    /\ queue' = [queue EXCEPT ![slot[t]] = Append(@, t)]
    /\ UNCHANGED <<running, done, index, slot, workerVars, stopVars>>

\* Mutant of NotifyPush: the notification is forgotten.
NotifyPushForgotten(t) ==
    /\ Stage(t, "pushed", "returned")
    /\ UNCHANGED <<running, queue, done, index, slot, workerVars, stopVars>>

\* ... and notifies after releasing it.
NotifyPush(t) ==
    /\ Stage(t, "pushed", "returned")
    /\ pc' = Notified(slot[t])
    /\ UNCHANGED <<running, queue, done, index, slot, held, probe, stopVars>>

-----------------------------------------------------------------------------
(* stop() by thread s                                                      *)

SGoto(s, from, to) == spc[s] = from /\ spc' = [spc EXCEPT ![s] = to]

\* _workers.clear() has been executed by some stopper.
WorkersCleared == \E s \in Stoppers : spc[s] = "returned"

\* if(!_running.load()) return
StopEnter(s) ==
    /\ SGoto(s, "idle", IF running THEN "clear" ELSE "refused")
    /\ UNCHANGED <<running, queue, done, scan, workerVars, loadVars>>

\* _running.store(false)
StopClear(s) ==
    /\ SGoto(s, "clear", "size")
    /\ running' = FALSE
    /\ UNCHANGED <<queue, done, scan, workerVars, loadVars>>

\* threadCount = _workers.size()
StopSize(s) ==
    /\ SGoto(s, "size", IF WorkersCleared THEN "returned" ELSE "finalize")
    /\ UNCHANGED <<running, queue, done, scan, workerVars, loadVars>>

\* _queues[i]->finalize(), without the queue's lock
StopFinalize(s) ==
    /\ SGoto(s, "finalize", "wait")
    /\ pc' = Notified(scan[s])
    /\ UNCHANGED <<running, queue, done, held, probe, scan, loadVars>>

\* Mutant of StopWait: the loop ends one worker early.
StopWaitShort(s) ==
    /\ spc[s] = "wait"
    /\ pc[scan[s]] = "exit"
    /\ scan' = [scan EXCEPT ![s] = @ + 1]
    /\ SGoto(s, "wait", IF scan[s] + 2 >= N THEN "returned" ELSE "finalize")
    /\ UNCHANGED <<running, queue, done, workerVars, loadVars>>

\* wait() on the future of worker i; after the last one _workers.clear().
\* Undefined once another stopper has cleared the vector.
StopWait(s) ==
    /\ spc[s] = "wait"
    /\ IF WorkersCleared
          THEN SGoto(s, "wait", "undefined") /\ scan' = scan
          ELSE /\ pc[scan[s]] = "exit"
               /\ scan' = [scan EXCEPT ![s] = @ + 1]
               /\ SGoto(s, "wait", IF scan[s] + 1 = N THEN "returned"
                                                     ELSE "finalize")
    /\ UNCHANGED <<running, queue, done, workerVars, loadVars>>

Stopper(s) ==
    \/ StopClear(s) \/ StopSize(s) \/ StopFinalize(s) \/ StopWait(s)

Next ==
    \/ \E w \in Workers : Worker(w) \/ Spurious(w)
    \/ \E t \in Tasks : DrawTicket(t) \/ Push(t) \/ NotifyPush(t)
    \/ \E s \in Stoppers : StopEnter(s) \/ Stopper(s)

Spec == Init /\ [][Next]_vars

\* Threads keep running: a worker, a stop() and a load() that have begun take
\* their next step.  Nobody has to call load() or stop(), and no wakeup has to
\* be spurious.  FinishTask is part of Worker: tasks terminate.
FairSpec ==
    /\ Spec
    /\ \A w \in Workers : WF_vars(Worker(w))
    /\ \A t \in Tasks : WF_vars(Push(t)) /\ WF_vars(NotifyPush(t))
    /\ \A s \in Stoppers : WF_vars(Stopper(s))

\* The same without the assumption that every task terminates.
LongTaskSpec ==
    /\ Spec
    /\ \A w \in Workers :
          /\ WF_vars(Worker(w) /\ pc[w] \notin {"run", "runStolen"})
    /\ \A t \in Tasks : WF_vars(Push(t)) /\ WF_vars(NotifyPush(t))
    /\ \A s \in Stoppers : WF_vars(Stopper(s))

-----------------------------------------------------------------------------
(* Properties                                                              *)

Loaded == {"pushed", "returned"}
Queued(t) == \E q \in Workers : \E i \in 1 .. Len(queue[q]) : queue[q][i] = t
Busy(w) == pc[w] \in {"run", "runStolen"}

\* Task t is in queue q and nowhere else.
Resident(q, t) ==
    /\ stage[t] \in Loaded
    /\ slot[t] = q
    /\ t \notin done
    /\ \A w \in Workers : held[w] # t

\* Task t is in the hands of worker w, of no other, and not yet executed.
Exclusive(w, t) ==
    /\ stage[t] \in Loaded
    /\ t \notin done
    /\ \A v \in Workers : held[v] = t => v = w

\* Every variable keeps its type, and a worker has a task in its hands exactly
\* while it executes one (TaskExecutor.hpp:97-118).
TypeOK ==
    /\ running \in BOOLEAN
    /\ index \in 0 .. IndexModulus-1
    /\ queue \in [Workers -> Seq(Tasks)]
    /\ pc \in [Workers -> WorkerPCs]
    /\ held \in [Workers -> Tasks \cup {NoTask}]
    /\ probe \in [Workers -> 0 .. N]
    /\ stage \in [Tasks -> Stages]
    /\ slot \in [Tasks -> 0 .. N]
    /\ spc \in [Stoppers -> StopperPCs]
    /\ scan \in [Stoppers -> 0 .. N]
    /\ done \subseteq Tasks
    /\ \A w \in Workers : Busy(w) <=> held[w] # NoTask

\* The queues, the hands of the workers and the executed tasks share no task:
\* neither pop nor try_steal duplicates one (WorkQueue.hpp:88-133), so no task
\* is executed twice.
NoTaskTwice ==
    /\ \A q \in Workers : \A i \in 1 .. Len(queue[q]) : Resident(q, queue[q][i])
    /\ \A q \in Workers : \A i, j \in 1 .. Len(queue[q]) :
          queue[q][i] = queue[q][j] => i = j
    /\ \A w \in Workers : held[w] # NoTask => Exclusive(w, held[w])
    /\ \A t \in done : stage[t] \in Loaded

\* A pushed task is never dropped: it is in a queue, in the hands of a worker
\* or executed, through pops, steals, failed steals and stop().
NoTaskLost ==
    \A t \in Tasks : stage[t] \in Loaded =>
        t \in done \/ Queued(t) \/ \E w \in Workers : held[w] = t

\* However pushes, pops, steals, runs and stops interleave, each task is executed
\* at most once and none disappears (WorkQueue.hpp:62-133).
EachTaskOnce == NoTaskTwice /\ NoTaskLost

\* No push is slept through (WorkQueue.hpp:62-100): while a worker waits, every
\* task in its queue still has its notify_one to come, whatever pushes, steals
\* and spurious wakeups have happened.
NoPushSleptThrough ==
    \A q \in Workers :
        /\ pc[q] = "block" => queue[q] = <<>>
        /\ pc[q] = "waiting" =>
              \A i \in 1 .. Len(queue[q]) : stage[queue[q][i]] = "pushed"

\* Once a stop() has gone through its loop every worker has left its own
\* (TaskExecutor.hpp:154-166), however many threads called stop().
StopQuiesces == WorkersCleared => \A w \in Workers : pc[w] = "exit"

\* load() spreads the tasks evenly, also when _index wraps around
\* (TaskExecutor.hpp:143).
RoundRobin ==
    \A p, q \in Workers :
        Cardinality({t \in Tasks : slot[t] = p})
            <= Cardinality({t \in Tasks : slot[t] = q}) + 1

\* A task in a queue is executed, unless stop() is called (TaskExecutor.hpp:138).
QueuedTaskRuns ==
    \A t \in Tasks : stage[t] = "pushed" ~> (t \in done \/ ~running)

\* stop() returns if no worker waits for ever: only the wakeup that is missing
\* in StopReturns below can keep it from returning, or a second stop() that
\* clears _workers under it (TaskExecutor.hpp:97-166).
StopReturnsIfWoken ==
    (\A w \in Workers : []<>(pc[w] # "waiting")) =>
        \A s \in Stoppers :
            spc[s] = "clear" ~> spc[s] \in {"returned", "undefined"}

\* The status of a task for the callers of the pool.
InHands(t) == \E w \in Workers : held[w] = t
StatusOf(t) ==
    CASE InHands(t)                                              -> "running"
      [] t \in done /\ ~InHands(t)                               -> "done"
      [] t \notin done /\ ~InHands(t) /\ stage[t] \in Loaded     -> "pending"
      [] t \notin done /\ ~InHands(t) /\ stage[t] \notin Loaded  -> "new"

Pool == INSTANCE TaskPool WITH
            status    <- [t \in Tasks |-> StatusOf(t)],
            accepting <- running,
            quiet     <- WorkersCleared

\* The executor keeps the promise of TaskPool: each task is started at most
\* once, and none starts or runs once stop() has returned.
ImplementsPool == Pool!PoolSpec

-----------------------------------------------------------------------------
(* What the comments say and the code does not do                          *)

\* TaskExecutor.hpp:148 "Stops all worker threads and waits for them to
\* complete": stop() returns.
StopReturns == \A s \in Stoppers : spc[s] = "clear" ~> spc[s] = "returned"

\* TaskExecutor.hpp:148, for every thread that calls stop().
EveryStopWaits ==
    \A s \in Stoppers : spc[s] \in {"refused", "returned"} =>
        \A w \in Workers : pc[w] = "exit"

\* TaskExecutor.hpp:138 "will be executed by an available worker thread".
EveryLoadedTaskRuns == \A t \in Tasks : stage[t] = "ticket" ~> t \in done

\* TaskExecutor.hpp:79 "steals work from other queues when idle": a task does
\* not stay in a queue while another worker has nothing to do.
IdleWorkersSteal ==
    \A q, w \in Workers :
        (queue[q] # <<>> /\ pc[w] = "waiting")
            ~> (queue[q] = <<>> \/ pc[w] # "waiting" \/ ~running)
=============================================================================
