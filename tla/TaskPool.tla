------------------------------ MODULE TaskPool ------------------------------
(***************************************************************************)
(* What common::threading::TaskExecutor promises its callers, without      *)
(* queues, workers, locks or wakeups (TaskExecutor.hpp:128-166):           *)
(*                                                                         *)
(*   - a loaded task is run by some worker, and never more than once;      *)
(*   - once stop() has returned no task is running and none will start.    *)
(*                                                                         *)
(* TaskExecutor.tla is shown to implement this module.                     *)
(***************************************************************************)
CONSTANT Tasks          \* the tasks callers may load

VARIABLES
    status,     \* status[t]: how far the pool got with task t
    accepting,  \* the _running flag: FALSE from the moment stop() clears it
    quiet       \* TRUE once stop() has waited for every worker

poolVars == <<status, accepting, quiet>>

Statuses == {"new", "pending", "running", "done"}

PoolTypeOK ==
    /\ status \in [Tasks -> Statuses]
    /\ accepting \in BOOLEAN
    /\ quiet \in BOOLEAN

PoolInit ==
    /\ status = [t \in Tasks |-> "new"]
    /\ accepting = TRUE
    /\ quiet = FALSE

Advance(t, from, to) ==
    /\ status[t] = from
    /\ status' = [status EXCEPT ![t] = to]

\* load(): accepted at any time, even after stop() -- the code has no check.
Submit(t) ==
    /\ Advance(t, "new", "pending")
    /\ UNCHANGED <<accepting, quiet>>

\* A worker takes the task out of a queue and begins to execute it.
Start(t) ==
    /\ ~quiet
    /\ Advance(t, "pending", "running")
    /\ UNCHANGED <<accepting, quiet>>

\* The task's packaged_task returns and its future becomes ready.
Finish(t) ==
    /\ Advance(t, "running", "done")
    /\ UNCHANGED <<accepting, quiet>>

\* stop() clears _running.
Close ==
    /\ accepting' = FALSE
    /\ UNCHANGED <<status, quiet>>

\* stop() returns after waiting for every worker.
Quiesce ==
    /\ ~accepting
    /\ \A t \in Tasks : status[t] # "running"
    /\ quiet' = TRUE
    /\ UNCHANGED <<status, accepting>>

PoolNext ==
    \/ \E t \in Tasks : Submit(t) \/ Start(t) \/ Finish(t)
    \/ Close
    \/ Quiesce

PoolSpec == PoolInit /\ [][PoolNext]_poolVars
=============================================================================
