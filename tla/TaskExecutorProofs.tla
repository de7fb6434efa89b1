------------------------- MODULE TaskExecutorProofs -------------------------
(***************************************************************************)
(* Safety of TaskExecutor for every number of workers, tasks and stoppers. *)
(*                                                                         *)
(* IInv is the inductive invariant.  TypeOK and the properties of the      *)
(* queues are inductive together; Bookkeeping adds what they need to know  *)
(* about the local counters of the stealing loop and of stop().            *)
(***************************************************************************)
EXTENDS TaskExecutor, SequenceTheorems, FiniteSetTheorems, TLAPS

\* The bounds of the loop counters, and what each position in stop() implies.
Bookkeeping ==
    /\ \A w \in Workers : pc[w] = "try" => probe[w] < N
    /\ \A t \in Tasks : stage[t] # "new" => slot[t] \in Workers
    /\ \A s \in Stoppers :
          /\ spc[s] \in {"size", "finalize", "wait", "returned", "undefined"}
                => ~running
          /\ spc[s] \in {"idle", "clear", "size"} => scan[s] = 0
          /\ spc[s] \in {"finalize", "wait"} => scan[s] < N
          /\ spc[s] \in {"finalize", "wait"} =>
                \A w \in Workers : w < scan[s] => pc[w] = "exit"

IInv ==
    /\ TypeOK
    /\ Bookkeeping
    /\ NoTaskTwice
    /\ NoTaskLost
    /\ NoPushSleptThrough
    /\ StopQuiesces

USE NAssumption, IndexAssumption, NoTaskAssumption

-----------------------------------------------------------------------------

\* The remainder of a division stays below the divisor: the queue a ticket or
\* a stealing worker selects exists.
LEMMA ModBound ==
    ASSUME NEW a \in Nat, NEW b \in Nat \ {0}
    PROVE  a % b \in 0 .. b-1
OBVIOUS

\* Removing the front of a deque (pop) keeps the other tasks in their order.
LEMMA TailElements ==
    ASSUME NEW S, NEW s \in Seq(S), s # <<>>
    PROVE  /\ Head(s) = s[1] /\ Head(s) \in S /\ Len(s) \in Nat \ {0}
           /\ Tail(s) \in Seq(S)
           /\ Len(Tail(s)) = Len(s) - 1
           /\ \A i \in 1 .. Len(s)-1 : Tail(s)[i] = s[i+1]
OBVIOUS

\* Removing the back of a deque (try_steal) keeps the tasks before it.
LEMMA FrontElements ==
    ASSUME NEW S, NEW s \in Seq(S), s # <<>>
    PROVE  /\ Last(s) = s[Len(s)] /\ Last(s) \in S /\ Len(s) \in Nat \ {0}
           /\ Front(s) \in Seq(S)
           /\ Len(Front(s)) = Len(s) - 1
           /\ \A i \in 1 .. Len(s)-1 : Front(s)[i] = s[i]
<1>1. Len(s) \in Nat \ {0}
  OBVIOUS
<1>2. \A i \in 1 .. Len(s) : s[i] \in S
  OBVIOUS
<1>3. Last(s) = s[Len(s)] /\ Last(s) \in S
  BY <1>1, <1>2 DEF Last
<1>4. /\ Front(s) \in Seq(S)
      /\ Len(Front(s)) = Len(s) - 1
      /\ \A i \in 1 .. Len(s)-1 : Front(s)[i] = s[i]
  <2>1. Front(s) = SubSeq(s, 1, Len(s)-1)
    BY DEF Front
  <2>2. Front(s) = [i \in 1 .. Len(s)-1 |-> s[i]]
    BY <1>1, <2>1
  <2>3. QED
    BY <1>1, <1>2, <2>2
<1>5. QED
  BY <1>1, <1>3, <1>4

\* Appending to a deque (push) keeps its tasks and adds one at the back.
LEMMA AppendElements ==
    ASSUME NEW S, NEW s \in Seq(S), NEW e \in S
    PROVE  /\ Append(s, e) \in Seq(S)
           /\ Len(s) \in Nat
           /\ Len(Append(s, e)) = Len(s) + 1
           /\ \A i \in 1 .. Len(s) : Append(s, e)[i] = s[i]
           /\ Append(s, e)[Len(s)+1] = e
OBVIOUS

-----------------------------------------------------------------------------

\* Initially every variable has its type and the invariant holds: no queue has
\* a task and nobody is in stop() (TaskExecutor.hpp:81-121).
LEMMA InitIInv == Init => IInv
<1> SUFFICES ASSUME Init PROVE IInv
  OBVIOUS
<1>1. TypeOK
  BY DEF Init, TypeOK, Workers, NoQueue, WorkerPCs, Stages, StopperPCs, Busy
<1>2. Bookkeeping
  BY DEF Init, Bookkeeping, Workers
<1>3. NoTaskTwice /\ NoTaskLost /\ NoPushSleptThrough /\ StopQuiesces
  BY DEF Init, NoTaskTwice, NoTaskLost, NoPushSleptThrough, StopQuiesces,
         Loaded, WorkersCleared, Workers
<1>4. QED
  BY <1>1, <1>2, <1>3 DEF IInv

-----------------------------------------------------------------------------

\* Every step keeps every variable in its type.  The steps that matter are the
\* ones that compute: the ticket, the probe, the target queue and the scan.
LEMMA TypeStep ==
    ASSUME TypeOK, Bookkeeping, Next
    PROVE  TypeOK'
<1> USE DEF TypeOK, Workers, NoQueue, WorkerPCs, Stages, StopperPCs, Busy,
            workerVars, loadVars, stopVars
<1>1. ASSUME NEW w \in Workers, CheckRunning(w) PROVE TypeOK'
  BY <1>1 DEF CheckRunning, Goto
<1>2. ASSUME NEW w \in Workers, PopTask(w) PROVE TypeOK'
  <2>1. /\ queue[w] \in Seq(Tasks) /\ queue[w] # <<>>
        /\ Head(queue[w]) \in Tasks /\ Tail(queue[w]) \in Seq(Tasks)
    BY <1>2, TailElements DEF PopTask
  <2>2. QED
    BY <1>2, <2>1 DEF PopTask, Goto
<1>3. ASSUME NEW w \in Workers, PopNothing(w) PROVE TypeOK'
  BY <1>3 DEF PopNothing, Goto
<1>4. ASSUME NEW w \in Workers, PopWait(w) PROVE TypeOK'
  BY <1>4 DEF PopWait, Goto
<1>5. ASSUME NEW w \in Workers, Block(w) PROVE TypeOK'
  BY <1>5 DEF Block, Goto
<1>6. ASSUME NEW w \in Workers, FinishTask(w) PROVE TypeOK'
  <2>1. held[w] \in Tasks
    BY <1>6 DEF FinishTask, Execute, Goto
  <2>2. CASE Execute(w, "run", "empty")
    BY <2>1, <2>2 DEF Execute, Goto
  <2>3. CASE Execute(w, "runStolen", "check")
    BY <2>1, <2>3 DEF Execute, Goto
  <2>4. QED
    BY <1>6, <2>2, <2>3 DEF FinishTask
<1>7. ASSUME NEW w \in Workers, CheckEmpty(w) PROVE TypeOK'
  <2>1. 1 \in 0 .. N
    BY SMT
  <2>2. QED
    BY <1>7, <2>1 DEF CheckEmpty, Goto
<1>8. ASSUME NEW w \in Workers, StealLoop(w) PROVE TypeOK'
  BY <1>8 DEF StealLoop, Goto
<1>9. ASSUME NEW w \in Workers, StealTask(w) PROVE TypeOK'
  <2>1. w + probe[w] \in Nat
    BY SMT
  <2>2. Target(w) \in Workers
    BY <2>1, ModBound DEF Target
  <2>3. queue[Target(w)] \in Seq(Tasks) /\ queue[Target(w)] # <<>>
    BY <1>9, <2>2 DEF StealTask
  <2>4. /\ Last(queue[Target(w)]) \in Tasks
        /\ Front(queue[Target(w)]) \in Seq(Tasks)
    BY <2>3, FrontElements
  <2>5. QED
    BY <1>9, <2>2, <2>4 DEF StealTask, Goto
<1>10. ASSUME NEW w \in Workers, StealNothing(w) PROVE TypeOK'
  <2>1. pc[w] = "try" /\ probe[w] < N
    BY <1>10 DEF StealNothing, Goto, Bookkeeping
  <2>2. probe[w] + 1 \in 0 .. N
    BY <2>1
  <2>3. QED
    BY <1>10, <2>2 DEF StealNothing, Goto
<1>11. ASSUME NEW w \in Workers, Spurious(w) PROVE TypeOK'
  BY <1>11 DEF Spurious, Goto
<1>12. ASSUME NEW t \in Tasks, DrawTicket(t) PROVE TypeOK'
  <2>1. index \in Nat /\ index + 1 \in Nat
    BY SMT
  <2>2. index % N \in 0 .. N-1
    BY <2>1, ModBound
  <2>3. (index + 1) % IndexModulus \in 0 .. IndexModulus-1
    BY <2>1, ModBound
  <2>4. index' \in 0..IndexModulus-1
    BY <1>12, <2>3 DEF DrawTicket
  <2>5. slot' = [slot EXCEPT ![t] = index % N]
    BY <1>12 DEF DrawTicket
  <2>6. slot' \in [Tasks -> 0..N]
    BY <2>2, <2>5
  <2>7. stage' = [stage EXCEPT ![t] = "ticket"]
    BY <1>12 DEF DrawTicket, Stage
  <2>8. stage' \in [Tasks -> Stages]
    BY <2>7
  <2>9. UNCHANGED <<running, queue, done, workerVars, stopVars>>
    BY <1>12 DEF DrawTicket
  <2>10. QED
    BY <2>4, <2>6, <2>8, <2>9
<1>13. ASSUME NEW t \in Tasks, Push(t) PROVE TypeOK'
  <2>1. slot[t] \in Workers
    BY <1>13 DEF Push, Stage, Bookkeeping
  <2>2. Append(queue[slot[t]], t) \in Seq(Tasks)
    BY <2>1, AppendElements
  <2>3. QED
    BY <1>13, <2>1, <2>2 DEF Push, Stage
<1>14. ASSUME NEW t \in Tasks, NotifyPush(t) PROVE TypeOK'
  BY <1>14 DEF NotifyPush, Stage, Notified
<1>15. ASSUME NEW s \in Stoppers, StopEnter(s) PROVE TypeOK'
  BY <1>15 DEF StopEnter, SGoto
<1>16. ASSUME NEW s \in Stoppers, StopClear(s) PROVE TypeOK'
  BY <1>16 DEF StopClear, SGoto
<1>17. ASSUME NEW s \in Stoppers, StopSize(s) PROVE TypeOK'
  BY <1>17 DEF StopSize, SGoto
<1>18. ASSUME NEW s \in Stoppers, StopFinalize(s) PROVE TypeOK'
  BY <1>18 DEF StopFinalize, SGoto, Notified
<1>19. ASSUME NEW s \in Stoppers, StopWait(s) PROVE TypeOK'
  <2>1. CASE WorkersCleared
    BY <1>19, <2>1 DEF StopWait, SGoto
  <2>2. CASE ~WorkersCleared
    <3>1. scan[s] + 1 \in 0 .. N
      BY <1>19 DEF StopWait, SGoto, Bookkeeping
    <3>2. scan' = [scan EXCEPT ![s] = scan[s] + 1]
      BY <1>19, <2>2 DEF StopWait
    <3>3. scan' \in [Stoppers -> 0 .. N]
      BY <3>1, <3>2
    <3>4. spc' = [spc EXCEPT ![s] = "returned"]
            \/ spc' = [spc EXCEPT ![s] = "finalize"]
      BY <1>19, <2>2 DEF StopWait, SGoto
    <3>5. spc' \in [Stoppers -> StopperPCs]
      BY <3>4
    <3>6. UNCHANGED <<running, queue, done, workerVars, loadVars>>
      BY <1>19 DEF StopWait
    <3>7. QED
      BY <3>3, <3>5, <3>6
  <2>3. QED
    BY <2>1, <2>2
<1>20. QED
  BY <1>1, <1>2, <1>3, <1>4, <1>5, <1>6, <1>7, <1>8, <1>9, <1>10, <1>11,
     <1>12, <1>13, <1>14, <1>15, <1>16, <1>17, <1>18, <1>19
     DEF Next, Worker, Stopper

-----------------------------------------------------------------------------

\* A worker that has left its loop stays out of it, and _running stays FALSE:
\* nothing restarts an executor (TaskExecutor.hpp:97-118, 154-166).
LEMMA ExitStays ==
    ASSUME TypeOK, Next
    PROVE  /\ \A v \in Workers : pc[v] = "exit" => pc'[v] = "exit"
           /\ ~running => ~running'
<1> DEFINE Stays == /\ \A v \in Workers : pc[v] = "exit" => pc'[v] = "exit"
                    /\ ~running => ~running'
<1>1. ASSUME NEW w \in Workers, Worker(w) \/ Spurious(w) PROVE Stays
  BY <1>1 DEF Worker, CheckRunning, PopTask, PopNothing, PopWait, Block,
              FinishTask, Execute, CheckEmpty, StealLoop, StealTask,
              StealNothing, Spurious, Goto, TypeOK
<1>2. ASSUME NEW t \in Tasks, DrawTicket(t) \/ Push(t) \/ NotifyPush(t)
      PROVE  Stays
  BY <1>2 DEF DrawTicket, Push, NotifyPush, Notified, workerVars, TypeOK
<1>3. ASSUME NEW s \in Stoppers, StopEnter(s) \/ Stopper(s) PROVE Stays
  BY <1>3 DEF StopEnter, Stopper, StopClear, StopSize, StopFinalize, StopWait,
              Notified, workerVars, TypeOK
<1>4. QED
  BY <1>1, <1>2, <1>3 DEF Next

\* The loop counters stay in their bounds, and a stopper that has come to
\* worker i has seen the workers before i leave their loops.
LEMMA BookkeepingStep ==
    ASSUME TypeOK, Bookkeeping, StopQuiesces, Next
    PROVE  Bookkeeping'
<1> DEFINE Probes == \A w \in Workers : pc[w] = "try" => probe[w] < N
           Slots == \A t \in Tasks : stage[t] # "new" => slot[t] \in Workers
           Stop(s) ==
              /\ spc[s] \in {"size", "finalize", "wait", "returned", "undefined"}
                    => ~running
              /\ spc[s] \in {"idle", "clear", "size"} => scan[s] = 0
              /\ spc[s] \in {"finalize", "wait"} => scan[s] < N
              /\ spc[s] \in {"finalize", "wait"} =>
                    \A w \in Workers : w < scan[s] => pc[w] = "exit"
           Stops == \A s \in Stoppers : Stop(s)
<1>1. ASSUME NEW w \in Workers, Worker(w) \/ Spurious(w)
      PROVE  Probes' /\ Slots' /\ Stops'
  <2>1. Probes'
    BY <1>1 DEF Worker, CheckRunning, PopTask, PopNothing, PopWait, Block,
              FinishTask, Execute, CheckEmpty, StealLoop, StealTask,
              StealNothing, Spurious, Goto, TypeOK, Bookkeeping
  <2>2. UNCHANGED <<running, spc, scan, stage, slot>>
    BY <1>1 DEF Worker, CheckRunning, PopTask, PopNothing, PopWait, Block,
              FinishTask, Execute, CheckEmpty, StealLoop, StealTask,
              StealNothing, Spurious, loadVars, stopVars
  <2>3. QED
    BY <2>1, <2>2, ExitStays DEF Bookkeeping
<1>2. ASSUME NEW t \in Tasks, DrawTicket(t) \/ Push(t) \/ NotifyPush(t)
      PROVE  Probes' /\ Slots' /\ Stops'
  <2>1. UNCHANGED <<running, spc, scan, probe>>
    BY <1>2 DEF DrawTicket, Push, NotifyPush, workerVars, stopVars
  <2>2. Probes'
    BY <1>2, <2>1 DEF DrawTicket, Push, NotifyPush, Notified, workerVars,
                      TypeOK, Bookkeeping
  <2>3. Slots'
    <3>1. index \in Nat
      BY SMT DEF TypeOK
    <3>2. index % N \in Workers
      BY <3>1, ModBound DEF Workers
    <3>3. QED
      BY <1>2, <3>2 DEF DrawTicket, Push, NotifyPush, Stage, TypeOK,
                        Bookkeeping
  <2>4. QED
    BY <2>1, <2>2, <2>3, ExitStays DEF Bookkeeping
<1>3. ASSUME NEW s \in Stoppers, StopEnter(s) \/ Stopper(s)
      PROVE  Probes' /\ Slots' /\ Stops'
  <2>1. UNCHANGED <<probe, stage, slot>>
    BY <1>3 DEF StopEnter, Stopper, StopClear, StopSize, StopFinalize,
                StopWait, workerVars, loadVars
  <2>2. Probes'
    BY <1>3, <2>1 DEF StopEnter, Stopper, StopClear, StopSize, StopFinalize,
                StopWait, Notified, workerVars, TypeOK, Bookkeeping
  <2>3. \A r \in Stoppers \ {s} : spc'[r] = spc[r] /\ scan'[r] = scan[r]
    BY <1>3 DEF StopEnter, Stopper, StopClear, StopSize, StopFinalize,
                StopWait, SGoto, TypeOK
  <2>4. Stop(s)'
    <3>1. CASE StopEnter(s)
      BY <3>1 DEF StopEnter, SGoto, Bookkeeping, TypeOK
    <3>2. CASE StopClear(s)
      BY <3>2 DEF StopClear, SGoto, Bookkeeping, TypeOK
    <3>3. CASE StopSize(s)
      <4>1. scan[s] = 0 /\ scan' = scan /\ ~running /\ running' = running
        BY <3>3 DEF StopSize, SGoto, Bookkeeping
      <4>2. spc'[s] \in {"returned", "finalize"}
        BY <3>3 DEF StopSize, SGoto, TypeOK
      <4>3. QED
        BY <4>1, <4>2 DEF Workers, TypeOK
    <3>4. CASE StopFinalize(s)
      <4>1. /\ spc[s] = "finalize" /\ spc'[s] = "wait"
            /\ scan' = scan /\ running' = running
        BY <3>4 DEF StopFinalize, SGoto, TypeOK
      <4>2. QED
        BY <4>1, ExitStays DEF Bookkeeping
    <3>5. CASE StopWait(s)
      <4>1. CASE WorkersCleared
        BY <3>5, <4>1 DEF StopWait, SGoto, Bookkeeping, TypeOK
      <4>2. CASE ~WorkersCleared
        <5>1. /\ spc[s] = "wait" /\ scan[s] \in 0 .. N-1
              /\ scan'[s] = scan[s] + 1
              /\ spc'[s] = IF scan[s] + 1 = N THEN "returned" ELSE "finalize"
              /\ pc[scan[s]] = "exit" /\ pc' = pc /\ running' = running
          BY <3>5, <4>2 DEF StopWait, SGoto, Bookkeeping, TypeOK, workerVars
        <5>2. ~running /\ \A w \in Workers : w < scan[s] => pc[w] = "exit"
          BY <5>1 DEF Bookkeeping
        <5>3. \A w \in Workers : w < scan[s] + 1 => w < scan[s] \/ w = scan[s]
          BY <5>1 DEF Workers
        <5>4. scan[s] + 1 # N => scan[s] + 1 < N
          BY <5>1
        <5>5. QED
          BY <5>1, <5>2, <5>3, <5>4
      <4>3. QED
        BY <4>1, <4>2
    <3>6. QED
      BY <1>3, <3>1, <3>2, <3>3, <3>4, <3>5 DEF Stopper
  <2>5. QED
    BY <2>1, <2>2, <2>3, <2>4, ExitStays DEF Bookkeeping
<1>4. QED
  BY <1>1, <1>2, <1>3 DEF Next, Bookkeeping

\* A stop() that returns through its loop has waited for all the workers.
LEMMA StopQuiescesStep ==
    ASSUME TypeOK, Bookkeeping, StopQuiesces, Next
    PROVE  StopQuiesces'
<1>1. CASE WorkersCleared
  BY <1>1, ExitStays DEF StopQuiesces
<1>2. CASE ~WorkersCleared
  <2> SUFFICES ASSUME WorkersCleared' PROVE \A w \in Workers : pc'[w] = "exit"
    BY DEF StopQuiesces
  <2>1. PICK s \in Stoppers : StopWait(s) /\ spc'[s] = "returned"
    BY <1>2 DEF WorkersCleared, Next, Worker, CheckRunning, PopTask, PopNothing,
          PopWait, Block, FinishTask, Execute, CheckEmpty, StealLoop, StealTask,
          StealNothing, Spurious, DrawTicket, Push, NotifyPush, StopEnter,
          Stopper, StopClear, StopSize, StopFinalize, StopWait, SGoto, stopVars,
          TypeOK
  <2>2. /\ spc[s] = "wait" /\ scan[s] \in 0 .. N-1 /\ scan[s] + 1 = N
        /\ pc[scan[s]] = "exit" /\ pc' = pc
    BY <1>2, <2>1 DEF StopWait, SGoto, Bookkeeping, TypeOK, workerVars
  <2>3. \A w \in Workers : w < scan[s] \/ w = scan[s]
    BY <2>2 DEF Workers
  <2>4. QED
    BY <2>2, <2>3 DEF Bookkeeping
<1>3. QED
  BY <1>1, <1>2

-----------------------------------------------------------------------------
(* The tasks: five actions move one, the others leave them where they are. *)

taskVars == <<queue, held, done, stage, slot>>

\* Every step that is not one of the six below leaves the tasks alone.
LEMMA OtherSteps ==
    ASSUME Next
    PROVE  \/ \E w \in Workers : PopTask(w) \/ FinishTask(w) \/ StealTask(w)
           \/ \E t \in Tasks : DrawTicket(t) \/ Push(t) \/ NotifyPush(t)
           \/ UNCHANGED taskVars
BY DEF Next, Worker, CheckRunning, PopNothing, PopWait, Block, CheckEmpty,
       StealLoop, StealNothing, Spurious, StopEnter, Stopper, StopClear,
       StopSize, StopFinalize, StopWait, workerVars, loadVars, taskVars

\* Worker w takes the k-th task of queue q; the queues otherwise only shrink.
Takes(w, q, k) ==
    /\ held[w] = NoTask
    /\ held' = [held EXCEPT ![w] = queue[q][k]]
    /\ done' = done /\ stage' = stage /\ slot' = slot
    /\ \A p \in Workers : \A i \in 1 .. Len(queue'[p]) :
          /\ \E j \in 1 .. Len(queue[p]) : queue'[p][i] = queue[p][j]
          /\ queue'[p][i] # queue[q][k]
    /\ \A p \in Workers : \A i, j \in 1 .. Len(queue'[p]) :
          queue'[p][i] = queue'[p][j] => i = j

\* A task that leaves a queue for the hands of a worker is in no queue any
\* more and in no other hands: the common part of pop and try_steal.
LEMMA TakeTask ==
    ASSUME TypeOK, NoTaskTwice,
           NEW w \in Workers, NEW q \in Workers, NEW k \in 1 .. Len(queue[q]),
           Takes(w, q, k)
    PROVE  NoTaskTwice'
<1> USE DEF Takes
<1> DEFINE h == queue[q][k]
<1>1. Resident(q, h)
  BY DEF NoTaskTwice
<1>2. \A v \in Workers : held'[v] = IF v = w THEN h ELSE held[v]
  BY DEF TypeOK
<1>3. \A p \in Workers : \A i \in 1 .. Len(queue'[p]) :
         Resident(p, queue[p][i])'
  <2> SUFFICES ASSUME NEW p \in Workers, NEW i \in 1 .. Len(queue'[p])
               PROVE  Resident(p, queue[p][i])'
    OBVIOUS
  <2>1. PICK j \in 1 .. Len(queue[p]) : queue'[p][i] = queue[p][j]
    OBVIOUS
  <2>2. Resident(p, queue[p][j])
    BY DEF NoTaskTwice
  <2>3. QED
    BY <1>2, <2>1, <2>2 DEF Resident
<1>4. \A v \in Workers : held'[v] # NoTask => Exclusive(v, held[v])'
  <2> SUFFICES ASSUME NEW v \in Workers, held'[v] # NoTask
               PROVE  Exclusive(v, held[v])'
    OBVIOUS
  <2>1. CASE v = w
    BY <1>1, <1>2, <2>1 DEF Resident, Exclusive
  <2>2. CASE v # w
    <3>1. held'[v] = held[v] /\ Exclusive(v, held[v])
      BY <1>2, <2>2 DEF NoTaskTwice
    <3>2. QED
      BY <1>1, <1>2, <3>1 DEF Resident, Exclusive
  <2>3. QED
    BY <2>1, <2>2
<1>5. \A t \in done' : stage'[t] \in Loaded
  BY DEF NoTaskTwice
<1>6. QED
  BY <1>3, <1>4, <1>5 DEF NoTaskTwice

\* WorkQueue::pop takes the first task of the worker's own queue.
LEMMA PopTakes ==
    ASSUME TypeOK, NoTaskTwice, NEW w \in Workers, PopTask(w)
    PROVE  1 \in 1 .. Len(queue[w]) /\ Takes(w, w, 1)
<1>1. /\ queue[w] \in Seq(Tasks) /\ queue[w] # <<>>
      /\ Len(queue[w]) \in Nat \ {0}
      /\ Head(queue[w]) = queue[w][1]
      /\ Len(Tail(queue[w])) = Len(queue[w]) - 1
      /\ \A i \in 1 .. Len(queue[w])-1 : Tail(queue[w])[i] = queue[w][i+1]
  BY TailElements DEF PopTask, TypeOK
<1>2. /\ held' = [held EXCEPT ![w] = queue[w][1]]
      /\ queue' = [queue EXCEPT ![w] = Tail(queue[w])]
      /\ done' = done /\ stage' = stage /\ slot' = slot
      /\ held[w] = NoTask
  BY <1>1 DEF PopTask, loadVars, Goto, TypeOK, Busy
<1>3. \A p \in Workers : \A i \in 1 .. Len(queue'[p]) :
        /\ \E j \in 1 .. Len(queue[p]) : queue'[p][i] = queue[p][j]
        /\ queue'[p][i] # queue[w][1]
  <2> SUFFICES ASSUME NEW p \in Workers, NEW i \in 1 .. Len(queue'[p])
               PROVE  /\ \E j \in 1 .. Len(queue[p]) : queue'[p][i] = queue[p][j]
                      /\ queue'[p][i] # queue[w][1]
    OBVIOUS
  <2>1. CASE p = w
    <3>1. queue'[p] = Tail(queue[w])
      BY <1>2, <2>1 DEF TypeOK
    <3>2. i \in 1 .. Len(queue[w])-1 /\ i+1 \in 1 .. Len(queue[w]) /\ i+1 # 1
      BY <1>1, <3>1
    <3>3. queue'[p][i] = queue[w][i+1] /\ queue[w][i+1] # queue[w][1]
      BY <1>1, <3>1, <3>2 DEF NoTaskTwice
    <3>4. QED
      BY <2>1, <3>2, <3>3
  <2>2. CASE p # w
    <3>1. queue'[p] = queue[p]
      BY <1>2, <2>2 DEF TypeOK
    <3>2. slot[queue[p][i]] = p /\ slot[queue[w][1]] = w
      BY <1>1, <3>1 DEF NoTaskTwice, Resident
    <3>3. QED
      BY <2>2, <3>1, <3>2
  <2>3. QED
    BY <2>1, <2>2
<1>4. \A p \in Workers : \A i, j \in 1 .. Len(queue'[p]) :
        queue'[p][i] = queue'[p][j] => i = j
  <2> SUFFICES ASSUME NEW p \in Workers, NEW i \in 1 .. Len(queue'[p]),
                      NEW j \in 1 .. Len(queue'[p]),
                      queue'[p][i] = queue'[p][j]
               PROVE  i = j
    OBVIOUS
  <2>1. CASE p = w
    <3>1. queue'[p] = Tail(queue[w])
      BY <1>2, <2>1 DEF TypeOK
    <3>2. /\ i+1 \in 1 .. Len(queue[w]) /\ j+1 \in 1 .. Len(queue[w])
          /\ queue[w][i+1] = queue[w][j+1]
      BY <1>1, <3>1
    <3>3. i+1 = j+1
      BY <3>2 DEF NoTaskTwice
    <3>4. QED
      BY <3>3
  <2>2. CASE p # w
    BY <1>2, <2>2 DEF TypeOK, NoTaskTwice
  <2>3. QED
    BY <2>1, <2>2
<1>5. 1 \in 1 .. Len(queue[w])
  BY <1>1
<1>6. Takes(w, w, 1)
  BY <1>2, <1>3, <1>4 DEF Takes
<1>7. QED
  BY <1>5, <1>6

\* WorkQueue::try_steal takes the last task of the target queue.
LEMMA StealTakes ==
    ASSUME TypeOK, NoTaskTwice, NEW w \in Workers, StealTask(w)
    PROVE  \E q \in Workers : \E k \in 1 .. Len(queue[q]) : Takes(w, q, k)
<1>0. PICK q \in Workers : q = Target(w)
  <2>1. w + probe[w] \in Nat
    BY SMT DEF TypeOK, Workers
  <2>2. QED
    BY <2>1, ModBound DEF Target, Workers
<1> DEFINE n == Len(queue[q])
<1>1. /\ queue[q] \in Seq(Tasks) /\ queue[q] # <<>>
      /\ n \in Nat \ {0}
      /\ Last(queue[q]) = queue[q][n]
      /\ Len(Front(queue[q])) = n - 1
      /\ \A i \in 1 .. n-1 : Front(queue[q])[i] = queue[q][i]
  <2>1. queue[q] \in Seq(Tasks) /\ queue[q] # <<>>
    BY <1>0 DEF StealTask, TypeOK
  <2>2. QED
    BY <2>1, FrontElements
<1>2. /\ held' = [held EXCEPT ![w] = queue[q][n]]
      /\ queue' = [queue EXCEPT ![q] = Front(queue[q])]
      /\ done' = done /\ stage' = stage /\ slot' = slot
      /\ held[w] = NoTask
  BY <1>0, <1>1 DEF StealTask, loadVars, Goto, TypeOK, Busy
<1>3. \A p \in Workers : \A i \in 1 .. Len(queue'[p]) :
        /\ \E j \in 1 .. Len(queue[p]) : queue'[p][i] = queue[p][j]
        /\ queue'[p][i] # queue[q][n]
  <2> SUFFICES ASSUME NEW p \in Workers, NEW i \in 1 .. Len(queue'[p])
               PROVE  /\ \E j \in 1 .. Len(queue[p]) : queue'[p][i] = queue[p][j]
                      /\ queue'[p][i] # queue[q][n]
    OBVIOUS
  <2>1. CASE p = q
    <3>1. queue'[p] = Front(queue[q])
      BY <1>0, <1>2, <2>1 DEF TypeOK
    <3>2. i \in 1 .. n-1 /\ i \in 1 .. n /\ i # n /\ n \in 1 .. n
      BY <1>1, <3>1
    <3>3. queue'[p][i] = queue[q][i] /\ queue[q][i] # queue[q][n]
      BY <1>0, <1>1, <3>1, <3>2 DEF NoTaskTwice
    <3>4. QED
      BY <2>1, <3>2, <3>3
  <2>2. CASE p # q
    <3>1. queue'[p] = queue[p]
      BY <1>0, <1>2, <2>2 DEF TypeOK
    <3>2. slot[queue[p][i]] = p /\ slot[queue[q][n]] = q
      BY <1>0, <1>1, <3>1 DEF NoTaskTwice, Resident
    <3>3. QED
      BY <2>2, <3>1, <3>2
  <2>3. QED
    BY <2>1, <2>2
<1>4. \A p \in Workers : \A i, j \in 1 .. Len(queue'[p]) :
        queue'[p][i] = queue'[p][j] => i = j
  <2> SUFFICES ASSUME NEW p \in Workers, NEW i \in 1 .. Len(queue'[p]),
                      NEW j \in 1 .. Len(queue'[p]),
                      queue'[p][i] = queue'[p][j]
               PROVE  i = j
    OBVIOUS
  <2>1. CASE p = q
    <3>1. queue'[p] = Front(queue[q])
      BY <1>0, <1>2, <2>1 DEF TypeOK
    <3>2. /\ i \in 1 .. n /\ j \in 1 .. n
          /\ queue[q][i] = queue[q][j]
      BY <1>1, <3>1
    <3>3. QED
      BY <1>0, <3>2 DEF NoTaskTwice
  <2>2. CASE p # q
    BY <1>0, <1>2, <2>2 DEF TypeOK, NoTaskTwice
  <2>3. QED
    BY <2>1, <2>2
<1>5. PICK k \in 1 .. Len(queue[q]) : k = n
  BY <1>1
<1>6. held' = [held EXCEPT ![w] = queue[q][k]]
  BY <1>2, <1>5
<1>7. \A p \in Workers : \A i \in 1 .. Len(queue'[p]) :
        /\ \E j \in 1 .. Len(queue[p]) : queue'[p][i] = queue[p][j]
        /\ queue'[p][i] # queue[q][k]
  BY <1>3, <1>5
<1>8. Takes(w, q, k)
  BY <1>2, <1>4, <1>6, <1>7 DEF Takes
<1>9. QED
  BY <1>8

\* No step puts a task in two places, or twice in one queue.
LEMMA NoTaskTwiceStep ==
    ASSUME TypeOK, Bookkeeping, NoTaskTwice, Next
    PROVE  NoTaskTwice'
<1>1. ASSUME NEW w \in Workers, PopTask(w) PROVE NoTaskTwice'
  BY <1>1, PopTakes, TakeTask
<1>2. ASSUME NEW w \in Workers, StealTask(w) PROVE NoTaskTwice'
  BY <1>2, StealTakes, TakeTask
<1>3. ASSUME NEW w \in Workers, FinishTask(w) PROVE NoTaskTwice'
  <2>1. /\ held[w] \in Tasks /\ held[w] # NoTask
        /\ done' = done \cup {held[w]}
        /\ held' = [held EXCEPT ![w] = NoTask]
        /\ UNCHANGED <<queue, stage, slot>>
    BY <1>3 DEF FinishTask, Execute, Goto, TypeOK, Busy, loadVars
  <2>2. Exclusive(w, held[w])
    BY <2>1 DEF NoTaskTwice
  <2>3. \A v \in Workers : held'[v] = IF v = w THEN NoTask ELSE held[v]
    BY <2>1 DEF TypeOK
  <2>4. \A q \in Workers : \A i \in 1 .. Len(queue[q]) :
           Resident(q, queue[q][i]) /\ queue[q][i] # held[w]
    BY DEF NoTaskTwice, Resident
  <2>5. \A q \in Workers : \A i \in 1 .. Len(queue'[q]) :
           Resident(q, queue[q][i])'
    <3>1. \A q \in Workers : \A i \in 1 .. Len(queue[q]) :
             queue[q][i] # NoTask
      BY DEF TypeOK
    <3>2. QED
      BY <2>1, <2>3, <2>4, <3>1 DEF Resident
  <2>6. \A v \in Workers : held'[v] # NoTask => Exclusive(v, held[v])'
    <3> SUFFICES ASSUME NEW v \in Workers, held'[v] # NoTask
                 PROVE  Exclusive(v, held[v])'
      OBVIOUS
    <3>1. v # w /\ held'[v] = held[v] /\ Exclusive(v, held[v])
      BY <2>3 DEF NoTaskTwice
    <3>2. held[v] # held[w]
      BY <3>1 DEF Exclusive
    <3>3. QED
      BY <2>1, <2>3, <3>1, <3>2 DEF Exclusive
  <2>7. \A t \in done' : stage'[t] \in Loaded
    BY <2>1, <2>2 DEF Exclusive, NoTaskTwice
  <2>8. QED
    BY <2>1, <2>5, <2>6, <2>7 DEF NoTaskTwice
<1>4. ASSUME NEW t \in Tasks, DrawTicket(t) PROVE NoTaskTwice'
  <2>1. /\ stage[t] = "new" /\ stage' = [stage EXCEPT ![t] = "ticket"]
        /\ slot' = [slot EXCEPT ![t] = index % N]
        /\ UNCHANGED <<queue, held, done>>
    BY <1>4 DEF DrawTicket, Stage, workerVars
  <2>2. \A u : stage[u] \in Loaded => u # t
    BY <2>1 DEF Loaded
  <2>3. \A q \in Workers : \A i \in 1 .. Len(queue[q]) : queue[q][i] \in Tasks
    BY DEF TypeOK
  <2>4. \A u \in Tasks : u # t => stage'[u] = stage[u] /\ slot'[u] = slot[u]
    BY <2>1 DEF TypeOK
  <2>5. QED
    BY <2>1, <2>2, <2>3, <2>4 DEF NoTaskTwice, Resident, Exclusive, TypeOK
<1>5. ASSUME NEW t \in Tasks, Push(t) PROVE NoTaskTwice'
  <2>0. PICK q \in Workers : q = slot[t]
    BY <1>5 DEF Push, Stage, Bookkeeping
  <2>1. /\ stage[t] = "ticket" /\ stage' = [stage EXCEPT ![t] = "pushed"]
        /\ queue' = [queue EXCEPT ![q] = Append(queue[q], t)]
        /\ UNCHANGED <<slot, held, done>>
    BY <1>5, <2>0 DEF Push, Stage, workerVars
  <2>2. \A u \in Tasks : /\ u # t => stage'[u] = stage[u]
                         /\ stage[u] \in Loaded => u # t /\ stage'[u] \in Loaded
    BY <2>1 DEF TypeOK, Loaded
  <2>3. /\ stage'[t] \in Loaded /\ t \notin done
        /\ \A v \in Workers : held[v] # t
        /\ \A p \in Workers : \A i \in 1 .. Len(queue[p]) : queue[p][i] # t
    <3>1. stage'[t] \in Loaded
      BY <2>1 DEF TypeOK, Loaded
    <3>2. stage[t] \notin Loaded
      BY <2>1 DEF Loaded
    <3>3. t # NoTask
      OBVIOUS
    <3>4. QED
      BY <3>1, <3>2, <3>3 DEF NoTaskTwice, Resident, Exclusive
  <2>4. /\ Len(queue[q]) \in Nat
        /\ Len(queue'[q]) = Len(queue[q]) + 1
        /\ \A i \in 1 .. Len(queue[q]) : queue'[q][i] = queue[q][i]
        /\ queue'[q][Len(queue[q])+1] = t
        /\ \A p \in Workers : p # q => queue'[p] = queue[p]
    <3>1. /\ queue'[q] = Append(queue[q], t) /\ queue[q] \in Seq(Tasks)
          /\ \A p \in Workers : p # q => queue'[p] = queue[p]
      BY <2>1 DEF TypeOK
    <3>2. QED
      BY <3>1, AppendElements
  <2>5. \A p \in Workers : \A i \in 1 .. Len(queue'[p]) :
           \/ p = q /\ i = Len(queue[q])+1 /\ queue'[p][i] = t
           \/ i \in 1 .. Len(queue[p]) /\ queue'[p][i] = queue[p][i]
    BY <2>4
  <2>6. \A p \in Workers : \A i \in 1 .. Len(queue'[p]) :
           Resident(p, queue[p][i])'
    <3> SUFFICES ASSUME NEW p \in Workers, NEW i \in 1 .. Len(queue'[p])
                 PROVE  Resident(p, queue[p][i])'
      OBVIOUS
    <3>1. CASE p = q /\ queue'[p][i] = t
      BY <2>0, <2>1, <2>3, <3>1 DEF Resident
    <3>2. CASE i \in 1 .. Len(queue[p]) /\ queue'[p][i] = queue[p][i]
      <4>1. Resident(p, queue[p][i]) /\ queue[p][i] \in Tasks
        BY <3>2 DEF NoTaskTwice, TypeOK
      <4>2. QED
        BY <2>1, <2>2, <3>2, <4>1 DEF Resident
    <3>3. QED
      BY <2>5, <3>1, <3>2
  <2>7. \A p \in Workers : \A i, j \in 1 .. Len(queue'[p]) :
           queue'[p][i] = queue'[p][j] => i = j
    BY <2>3, <2>5 DEF NoTaskTwice
  <2>8. \A v \in Workers : held'[v] # NoTask => Exclusive(v, held[v])'
    BY <2>1, <2>2 DEF NoTaskTwice, Exclusive, TypeOK
  <2>9. \A u \in done' : stage'[u] \in Loaded
    BY <2>1, <2>2 DEF NoTaskTwice, TypeOK
  <2>10. QED
    BY <2>6, <2>7, <2>8, <2>9 DEF NoTaskTwice
<1>6. ASSUME NEW t \in Tasks, NotifyPush(t) PROVE NoTaskTwice'
  <2>1. /\ stage[t] = "pushed" /\ stage' = [stage EXCEPT ![t] = "returned"]
        /\ UNCHANGED <<queue, held, done, slot>>
    BY <1>6 DEF NotifyPush, Stage
  <2>2. \A u \in Tasks : stage[u] \in Loaded => stage'[u] \in Loaded
    BY <2>1 DEF TypeOK, Loaded
  <2>3. \A q \in Workers : \A i \in 1 .. Len(queue[q]) : queue[q][i] \in Tasks
    BY DEF TypeOK
  <2>4. \A q \in Workers : \A i \in 1 .. Len(queue[q]) :
           Resident(q, queue[q][i])'
    BY <2>1, <2>2, <2>3 DEF NoTaskTwice, Resident
  <2>5. \A v \in Workers : held[v] # NoTask => Exclusive(v, held[v])'
    BY <2>1, <2>2 DEF NoTaskTwice, Exclusive, TypeOK
  <2>6. QED
    BY <2>1, <2>2, <2>4, <2>5 DEF NoTaskTwice, TypeOK
<1>7. CASE UNCHANGED taskVars
  BY <1>7 DEF taskVars, NoTaskTwice, Resident, Exclusive
<1>8. QED
  BY <1>1, <1>2, <1>3, <1>4, <1>5, <1>6, <1>7, OtherSteps

\* A task leaves a queue only for the hands of a worker, and those hands only
\* when it has been executed.
LEMMA NoTaskLostStep ==
    ASSUME TypeOK, Bookkeeping, NoTaskLost, Next
    PROVE  NoTaskLost'
<1> DEFINE Kept(t) == t \in done \/ Queued(t) \/ \E w \in Workers : held[w] = t
<1>1. ASSUME NEW w \in Workers, PopTask(w) PROVE NoTaskLost'
  <2>1. /\ queue[w] \in Seq(Tasks) /\ queue[w] # <<>>
        /\ Len(queue[w]) \in Nat \ {0}
        /\ Head(queue[w]) = queue[w][1]
        /\ Len(Tail(queue[w])) = Len(queue[w]) - 1
        /\ \A i \in 1 .. Len(queue[w])-1 : Tail(queue[w])[i] = queue[w][i+1]
    BY <1>1, TailElements DEF PopTask, TypeOK
  <2>2. /\ held[w] = NoTask /\ held'[w] = queue[w][1]
        /\ \A v \in Workers : v # w => held'[v] = held[v]
        /\ queue'[w] = Tail(queue[w])
        /\ \A p \in Workers : p # w => queue'[p] = queue[p]
        /\ done' = done /\ stage' = stage
    BY <1>1, <2>1 DEF PopTask, loadVars, Goto, TypeOK, Busy
  <2>3. ASSUME NEW t \in Tasks, Kept(t) PROVE Kept(t)'
    <3>1. CASE \E i \in 1 .. Len(queue[w]) : queue[w][i] = t
      <4>1. PICK i \in 1 .. Len(queue[w]) : queue[w][i] = t
        BY <3>1
      <4>2. CASE i = 1
        BY <2>2, <4>1, <4>2
      <4>3. CASE i # 1
        <5>1. i-1 \in 1 .. Len(queue'[w]) /\ i-1 \in 1 .. Len(queue[w])-1
          BY <2>1, <2>2, <4>3
        <5>2. queue'[w][i-1] = t
          BY <2>1, <2>2, <4>1, <5>1
        <5>3. QED
          BY <5>1, <5>2 DEF Queued
      <4>4. QED
        BY <4>2, <4>3
    <3>2. CASE \E p \in Workers \ {w} : \E i \in 1 .. Len(queue[p]) : queue[p][i] = t
      BY <2>2, <3>2 DEF Queued
    <3>3. CASE t \in done \/ \E v \in Workers : held[v] = t
      BY <2>2, <3>3
    <3>4. QED
      BY <2>3, <3>1, <3>2, <3>3 DEF Queued
  <2>4. QED
    BY <2>2, <2>3 DEF NoTaskLost
<1>2. ASSUME NEW w \in Workers, StealTask(w) PROVE NoTaskLost'
  <2>0. PICK q \in Workers : q = Target(w)
    <3>1. w + probe[w] \in Nat
      BY SMT DEF TypeOK, Workers
    <3>2. QED
      BY <3>1, ModBound DEF Target, Workers
  <2> DEFINE n == Len(queue[q])
  <2>1. /\ queue[q] \in Seq(Tasks) /\ queue[q] # <<>>
        /\ n \in Nat \ {0}
        /\ Last(queue[q]) = queue[q][n]
        /\ Len(Front(queue[q])) = n - 1
        /\ \A i \in 1 .. n-1 : Front(queue[q])[i] = queue[q][i]
    <3>1. queue[q] \in Seq(Tasks) /\ queue[q] # <<>>
      BY <1>2, <2>0 DEF StealTask, TypeOK
    <3>2. QED
      BY <3>1, FrontElements
  <2>2. /\ held[w] = NoTask /\ held'[w] = queue[q][n]
        /\ \A v \in Workers : v # w => held'[v] = held[v]
        /\ queue'[q] = Front(queue[q])
        /\ \A p \in Workers : p # q => queue'[p] = queue[p]
        /\ done' = done /\ stage' = stage
    BY <1>2, <2>0, <2>1 DEF StealTask, loadVars, Goto, TypeOK, Busy
  <2>3. ASSUME NEW t \in Tasks, Kept(t) PROVE Kept(t)'
    <3>1. CASE \E i \in 1 .. n : queue[q][i] = t
      <4>1. PICK i \in 1 .. n : queue[q][i] = t
        BY <3>1
      <4>2. CASE i = n
        BY <2>2, <4>1, <4>2
      <4>3. CASE i # n
        <5>1. i \in 1 .. Len(queue'[q]) /\ i \in 1 .. n-1
          BY <2>1, <2>2, <4>3
        <5>2. queue'[q][i] = t
          BY <2>1, <2>2, <4>1, <5>1
        <5>3. QED
          BY <5>1, <5>2 DEF Queued
      <4>4. QED
        BY <4>2, <4>3
    <3>2. CASE \E p \in Workers \ {q} : \E i \in 1 .. Len(queue[p]) : queue[p][i] = t
      BY <2>2, <3>2 DEF Queued
    <3>3. CASE t \in done \/ \E v \in Workers : held[v] = t
      BY <2>2, <3>3
    <3>4. QED
      BY <2>3, <3>1, <3>2, <3>3 DEF Queued
  <2>4. QED
    BY <2>2, <2>3 DEF NoTaskLost
<1>3. ASSUME NEW w \in Workers, FinishTask(w) PROVE NoTaskLost'
  <2>1. /\ done' = done \cup {held[w]}
        /\ \A v \in Workers : v # w => held'[v] = held[v]
        /\ queue' = queue /\ stage' = stage
    BY <1>3 DEF FinishTask, Execute, TypeOK, loadVars
  <2>2. QED
    BY <2>1 DEF NoTaskLost, Queued
<1>4. ASSUME NEW t \in Tasks, DrawTicket(t) \/ NotifyPush(t) PROVE NoTaskLost'
  <2>1. /\ \A u \in Tasks : stage'[u] \in Loaded => stage[u] \in Loaded
        /\ done' = done /\ held' = held /\ queue' = queue
    BY <1>4 DEF DrawTicket, NotifyPush, Stage, TypeOK, Loaded, workerVars
  <2>2. QED
    BY <2>1 DEF NoTaskLost, Queued
<1>5. ASSUME NEW t \in Tasks, Push(t) PROVE NoTaskLost'
  <2>0. PICK q \in Workers : q = slot[t]
    BY <1>5 DEF Push, Stage, Bookkeeping
  <2>1. /\ \A u \in Tasks : u # t => stage'[u] = stage[u]
        /\ queue'[q] = Append(queue[q], t) /\ queue[q] \in Seq(Tasks)
        /\ \A p \in Workers : p # q => queue'[p] = queue[p]
        /\ done' = done /\ held' = held
    BY <1>5, <2>0 DEF Push, Stage, workerVars, TypeOK
  <2>2. /\ Len(queue[q]) \in Nat
        /\ Len(queue'[q]) = Len(queue[q]) + 1
        /\ \A i \in 1 .. Len(queue[q]) : queue'[q][i] = queue[q][i]
        /\ queue'[q][Len(queue[q])+1] = t
    BY <2>1, AppendElements
  <2>3. Queued(t)'
    <3>1. Len(queue[q])+1 \in 1 .. Len(queue'[q])
      BY <2>2
    <3>2. QED
      BY <2>2, <3>1 DEF Queued
  <2>4. \A p \in Workers : \A i \in 1 .. Len(queue[p]) :
           i \in 1 .. Len(queue'[p]) /\ queue'[p][i] = queue[p][i]
    BY <2>1, <2>2
  <2>5. \A u \in Tasks : Queued(u) => Queued(u)'
    BY <2>4 DEF Queued
  <2>6. QED
    BY <2>1, <2>3, <2>5 DEF NoTaskLost
<1>6. CASE UNCHANGED taskVars
  BY <1>6 DEF taskVars, NoTaskLost, Queued
<1>7. QED
  BY <1>1, <1>2, <1>3, <1>4, <1>5, <1>6, OtherSteps

\* What NoPushSleptThrough says of one queue.
Awaited(q) ==
    /\ pc[q] = "block" => queue[q] = <<>>
    /\ pc[q] = "waiting" =>
          \A i \in 1 .. Len(queue[q]) : stage[queue[q][i]] = "pushed"

\* A push that comes after a worker found its queue empty finds it waiting, and
\* the notification of any task in the queue wakes it up.
LEMMA NoPushSleptThroughStep ==
    ASSUME TypeOK, Bookkeeping, NoTaskTwice, NoPushSleptThrough, Next
    PROVE  NoPushSleptThrough'
<1> SUFFICES ASSUME NEW q \in Workers PROVE Awaited(q)'
  BY DEF NoPushSleptThrough, Awaited
<1>0. Awaited(q)
  BY DEF NoPushSleptThrough, Awaited
<1>1. ASSUME NEW w \in Workers,
             \/ CheckRunning(w) \/ PopNothing(w) \/ PopWait(w) \/ Block(w)
             \/ CheckEmpty(w) \/ StealLoop(w) \/ StealNothing(w)
             \/ Spurious(w) \/ FinishTask(w)
      PROVE  Awaited(q)'
  <2>1. queue' = queue /\ stage' = stage
    BY <1>1 DEF CheckRunning, PopNothing, PopWait, Block, CheckEmpty,
                StealLoop, StealNothing, Spurious, FinishTask, Execute, loadVars
  <2>2. /\ pc'[q] = "block" => pc[q] = "block" \/ queue[q] = <<>>
        /\ pc'[q] = "waiting" => pc[q] \in {"block", "waiting"}
    BY <1>1 DEF CheckRunning, PopNothing, PopWait, Block, CheckEmpty,
                StealLoop, StealNothing, Spurious, FinishTask, Execute, Goto,
                TypeOK
  <2>3. queue[q] = <<>> => Len(queue[q]) = 0
    OBVIOUS
  <2>4. QED
    BY <1>0, <2>1, <2>2, <2>3 DEF Awaited
<1>2. ASSUME NEW w \in Workers, PopTask(w) PROVE Awaited(q)'
  BY <1>0, <1>2 DEF PopTask, Goto, Awaited, TypeOK, loadVars
<1>3. ASSUME NEW w \in Workers, StealTask(w) PROVE Awaited(q)'
  <2>1. /\ stage' = stage
        /\ pc'[q] \in {"block", "waiting"} => pc'[q] = pc[q]
    BY <1>3 DEF StealTask, Goto, TypeOK, loadVars
  <2>2. CASE q = Target(w)
    <3>1. queue[q] \in Seq(Tasks) /\ queue[q] # <<>> /\ queue'[q] = Front(queue[q])
      BY <1>3, <2>2 DEF StealTask, TypeOK
    <3>2. \A i \in 1 .. Len(queue'[q]) :
             i \in 1 .. Len(queue[q]) /\ queue'[q][i] = queue[q][i]
      BY <3>1, FrontElements
    <3>3. pc[q] # "block"
      BY <1>3, <2>2 DEF StealTask, Locked
    <3>4. QED
      BY <1>0, <2>1, <3>2, <3>3 DEF Awaited
  <2>3. CASE q # Target(w)
    BY <1>0, <1>3, <2>1, <2>3 DEF StealTask, Awaited, TypeOK
  <2>4. QED
    BY <2>2, <2>3
<1>4. ASSUME NEW t \in Tasks, DrawTicket(t) PROVE Awaited(q)'
  <2>1. /\ pc' = pc /\ queue' = queue
        /\ stage[t] = "new" /\ \A u \in Tasks : u # t => stage'[u] = stage[u]
    BY <1>4 DEF DrawTicket, Stage, workerVars, TypeOK
  <2>2. \A i \in 1 .. Len(queue[q]) : queue[q][i] \in Tasks
    BY DEF TypeOK
  <2>3. QED
    BY <1>0, <2>1, <2>2 DEF Awaited
<1>5. ASSUME NEW t \in Tasks, Push(t) PROVE Awaited(q)'
  <2>1. /\ pc' = pc
        /\ stage' = [stage EXCEPT ![t] = "pushed"]
        /\ slot[t] \in Workers
        /\ queue' = [queue EXCEPT ![slot[t]] = Append(queue[slot[t]], t)]
        /\ pc[slot[t]] # "block"
    BY <1>5 DEF Push, Stage, Locked, workerVars, Bookkeeping
  <2>2. \A i \in 1 .. Len(queue[q]) : queue[q][i] \in Tasks
    BY DEF TypeOK
  <2>3. CASE q = slot[t]
    <3>1. queue[q] \in Seq(Tasks) /\ queue'[q] = Append(queue[q], t)
      BY <2>1, <2>3 DEF TypeOK
    <3>2. \A i \in 1 .. Len(queue'[q]) :
             \/ i \in 1 .. Len(queue[q]) /\ queue'[q][i] = queue[q][i]
             \/ queue'[q][i] = t
      BY <3>1, AppendElements
    <3>3. QED
      BY <1>0, <2>1, <2>2, <2>3, <3>2 DEF Awaited, TypeOK
  <2>4. CASE q # slot[t]
    BY <1>0, <2>1, <2>2, <2>4 DEF Awaited, TypeOK
  <2>5. QED
    BY <2>3, <2>4
<1>6. ASSUME NEW t \in Tasks, NotifyPush(t) PROVE Awaited(q)'
  <2>1. /\ queue' = queue
        /\ \A u \in Tasks : u # t => stage'[u] = stage[u]
        /\ pc' = [pc EXCEPT ![slot[t]] = IF @ = "waiting" THEN "pop" ELSE @]
    BY <1>6 DEF NotifyPush, Stage, Notified, TypeOK
  <2>2. pc'[q] \in {"block", "waiting"} => pc'[q] = pc[q]
    BY <2>1 DEF TypeOK
  <2>3. CASE pc'[q] = "waiting"
    <3>1. slot[t] # q
      BY <2>1, <2>3 DEF TypeOK
    <3>2. \A i \in 1 .. Len(queue[q]) : queue[q][i] \in Tasks \ {t}
      BY <3>1 DEF TypeOK, NoTaskTwice, Resident
    <3>3. QED
      BY <1>0, <2>1, <2>2, <2>3, <3>2 DEF Awaited
  <2>4. CASE pc'[q] # "waiting"
    BY <1>0, <2>1, <2>2, <2>4 DEF Awaited
  <2>5. QED
    BY <2>3, <2>4
<1>7. ASSUME NEW s \in Stoppers, StopEnter(s) \/ Stopper(s) PROVE Awaited(q)'
  <2>1. /\ queue' = queue /\ stage' = stage
        /\ pc'[q] \in {"block", "waiting"} => pc'[q] = pc[q]
    BY <1>7 DEF StopEnter, Stopper, StopClear, StopSize, StopFinalize,
                StopWait, Notified, workerVars, loadVars, TypeOK
  <2>2. QED
    BY <1>0, <2>1 DEF Awaited
<1>8. QED
  BY <1>1, <1>2, <1>3, <1>4, <1>5, <1>6, <1>7 DEF Next, Worker

-----------------------------------------------------------------------------

\* The invariant is inductive: it survives steps and stutters.
LEMMA IInvStep == IInv /\ [Next]_vars => IInv'
<1> SUFFICES ASSUME IInv, [Next]_vars PROVE IInv'
  OBVIOUS
<1>1. CASE Next
  BY <1>1, TypeStep, BookkeepingStep, NoTaskTwiceStep, NoTaskLostStep,
     NoPushSleptThroughStep, StopQuiescesStep DEF IInv
<1>2. CASE UNCHANGED vars
  BY <1>2 DEF vars, workerVars, loadVars, stopVars, IInv, TypeOK, Busy,
     Bookkeeping, NoTaskTwice, Resident, Exclusive, NoTaskLost, Queued,
     NoPushSleptThrough, StopQuiesces, WorkersCleared
<1>3. QED
  BY <1>1, <1>2

\* The invariant holds in every reachable state of the executor.
THEOREM Invariance == Spec => []IInv
<1>1. QED
  BY InitIInv, IInvStep, PTL DEF Spec

\* Type correctness, for any number of workers, tasks and stoppers.
THEOREM TypeCorrect == Spec => []TypeOK
<1>1. IInv => TypeOK
  BY DEF IInv
<1>2. QED
  BY <1>1, Invariance, PTL

\* No task is executed twice and none is dropped by a pop, a steal or a stop
\* (WorkQueue.hpp:62-133).
THEOREM TasksConserved == Spec => []EachTaskOnce
<1>1. IInv => EachTaskOnce
  BY DEF IInv, EachTaskOnce
<1>2. QED
  BY <1>1, Invariance, PTL

\* No wakeup of a push is lost (WorkQueue.hpp:62-100).
THEOREM PushesWake == Spec => []NoPushSleptThrough
<1>1. IInv => NoPushSleptThrough
  BY DEF IInv
<1>2. QED
  BY <1>1, Invariance, PTL

\* When a stop() has returned through its loop all workers have left theirs
\* (TaskExecutor.hpp:154-166).
THEOREM StoppedIsQuiet == Spec => []StopQuiesces
<1>1. IInv => StopQuiesces
  BY DEF IInv
<1>2. QED
  BY <1>1, Invariance, PTL

-----------------------------------------------------------------------------
(* RoundRobin: the tickets of load() go round the queues.                  *)

\* The tasks that have been given to queue p, or will be
Given(p) == {t \in Tasks : slot[t] = p}

\* The queues before the next ticket's have been given one task more than the
\* others, and a task without a ticket has no queue.
GoRound ==
    /\ \E k \in Nat : \A p \in Workers :
           /\ IsFiniteSet(Given(p))
           /\ Cardinality(Given(p)) = IF p < index % N THEN k + 1 ELSE k
    /\ \A t \in Tasks : stage[t] = "new" => slot[t] = NoQueue

\* A quotient and a remainder below the divisor are the only ones.
LEMMA DivisionIsUnique ==
    ASSUME NEW n \in Nat \ {0}, NEW c \in Int, NEW d \in Int, NEW r \in 0 .. n-1, NEW s \in 0 .. n-1,
           n * c + r = n * d + s
    PROVE  r = s
<1>1. n * (c - d) = s - r /\ c - d \in Int
  OBVIOUS
<1>2. ASSUME NEW e \in Int, n * e = s - r PROVE e = 0
  <2>1. e >= 1 => n * e >= n
    OBVIOUS
  <2>2. e <= -1 => n * e <= -n
    OBVIOUS
  <2>3. s - r < n /\ s - r > -n
    OBVIOUS
  <2>4. QED
    BY <1>2, <2>1, <2>2, <2>3
<1>3. c - d = 0
  BY <1>1, <1>2
<1>4. QED
  BY <1>1, <1>3

\* What is meant by a remainder.
LEMMA RemainderIs ==
    ASSUME NEW n \in Nat \ {0}, NEW a \in Nat, NEW d \in Int, NEW r \in 0 .. n-1, a = n * d + r
    PROVE  a % n = r
<1>1. a % n \in 0 .. n-1
  OBVIOUS
<1>2. a \div n \in Int
  OBVIOUS
<1>3. a = n * (a \div n) + (a % n)
  OBVIOUS
<1>4. PICK c \in Int, s \in 0 .. n-1 : c = a \div n /\ s = a % n
  BY <1>1, <1>2
<1>5. n * c + s = n * d + r
  BY <1>3, <1>4
<1>6. s = r
  BY <1>5, DivisionIsUnique
<1>7. QED
  BY <1>4, <1>6

\* The counter wraps around at a multiple of the number of queues, so that the
\* next ticket is the next queue's, or the first one's after the last one's.
LEMMA NextQueue ==
    ASSUME NEW i \in 0 .. IndexModulus-1
    PROVE  /\ i % N \in 0 .. N-1
           /\ ((i + 1) % IndexModulus) % N = IF i % N = N-1 THEN 0 ELSE (i % N) + 1
<1>1. PICK d \in Int, r \in 0 .. N-1 : i = N * d + r /\ i % N = r
  <2>1. i % N \in 0 .. N-1
    OBVIOUS
  <2>2. i \div N \in Int
    OBVIOUS
  <2>3. i = N * (i \div N) + (i % N)
    OBVIOUS
  <2>4. PICK d \in Int, r \in 0 .. N-1 : d = i \div N /\ r = i % N
    BY <2>1, <2>2
  <2>5. i = N * d + r
    BY <2>3, <2>4
  <2>6. QED
    BY <2>4, <2>5
<1>2. (i + 1) % N = IF r = N-1 THEN 0 ELSE r + 1
  <2>1. CASE r = N-1
    <3>1. i + 1 = N * (d + 1) + 0 /\ d + 1 \in Int
      BY <1>1, <2>1
    <3>2. (i + 1) % N = 0
      <4>1. 0 \in 0 .. N-1 /\ i + 1 \in Nat
        OBVIOUS
      <4>2. QED
        BY <3>1, <4>1, RemainderIs
    <3>3. QED
      BY <2>1, <3>2
  <2>2. CASE r # N-1
    <3>1. i + 1 = N * d + (r + 1) /\ r + 1 \in 0 .. N-1
      BY <1>1, <2>2
    <3>2. (i + 1) % N = r + 1
      <4>1. i + 1 \in Nat
        OBVIOUS
      <4>2. QED
        BY <3>1, <4>1, RemainderIs
    <3>3. QED
      BY <2>2, <3>2
  <2>3. QED
    BY <2>1, <2>2
<1>3. CASE i + 1 < IndexModulus
  <2>1. (i + 1) % IndexModulus = i + 1
    <3>1. i + 1 = IndexModulus * 0 + (i + 1) /\ i + 1 \in 0 .. IndexModulus-1
      BY <1>3
    <3>2. QED
      BY <3>1, RemainderIs
  <2>2. QED
    BY <1>1, <1>2, <2>1
<1>4. CASE i + 1 = IndexModulus
  <2>1. (i + 1) % IndexModulus = 0
    <3>1. i + 1 = IndexModulus * 1 + 0 /\ 0 \in 0 .. IndexModulus-1
      BY <1>4
    <3>2. QED
      BY <3>1, RemainderIs
  <2>2. 0 % N = 0
    <3>1. 0 = N * 0 + 0
      OBVIOUS
    <3>2. QED
      BY <3>1, RemainderIs
  <2>3. r = N-1
    BY <1>2, <1>4
  <2>4. QED
    BY <1>1, <2>1, <2>2, <2>3
<1>5. QED
  BY <1>1, <1>3, <1>4

\* Initially no queue has been given a task.
LEMMA GoRoundInit == Init => GoRound
<1> SUFFICES ASSUME Init PROVE GoRound
  OBVIOUS
<1>1. 0 % N = 0
  <2>1. 0 = N * 0 + 0 /\ 0 \in 0 .. N-1
    OBVIOUS
  <2>2. QED
    BY <2>1, RemainderIs
<1>2. ASSUME NEW p \in Workers PROVE Given(p) = {}
  BY DEF Init, Given, Workers, NoQueue
<1>3. ASSUME NEW p \in Workers
      PROVE  /\ IsFiniteSet(Given(p))
             /\ Cardinality(Given(p)) = IF p < index % N THEN 0 + 1 ELSE 0
  <2>1. index % N = 0 /\ ~(p < 0)
    BY <1>1 DEF Init, Workers
  <2>2. QED
    BY <1>2, <2>1, FS_EmptySet
<1>4. 0 \in Nat
  OBVIOUS
<1>5. \A t \in Tasks : slot[t] = NoQueue
  BY DEF Init
<1>6. QED
  BY <1>3, <1>4, <1>5 DEF GoRound

\* The queue that draws the ticket is given one task, the others none.
LEMMA TicketStep ==
    ASSUME TypeOK, GoRound, NEW t \in Tasks, DrawTicket(t)
    PROVE  GoRound'
<1>1. PICK r \in 0 .. N-1 : r = index % N /\ index' % N = IF r = N-1 THEN 0 ELSE r + 1
  <2>1. index \in 0 .. IndexModulus-1 /\ index' = (index + 1) % IndexModulus
    BY DEF TypeOK, DrawTicket
  <2>2. QED
    BY <2>1, NextQueue
<1>2. PICK k \in Nat : \A p \in Workers :
          IsFiniteSet(Given(p)) /\ Cardinality(Given(p)) = IF p < r THEN k + 1 ELSE k
  BY <1>1 DEF GoRound
<1>3. /\ stage[t] = "new" /\ slot[t] = NoQueue /\ slot' = [slot EXCEPT ![t] = r]
      /\ \A u \in Tasks : stage'[u] = "new" => u # t /\ slot'[u] = NoQueue
  BY <1>1 DEF GoRound, DrawTicket, Stage, TypeOK
<1>4. r \in Workers /\ t \notin Given(r) /\ Given(r)' = Given(r) \cup {t}
  BY <1>3 DEF Given, Workers, NoQueue, TypeOK
<1>5. IsFiniteSet(Given(r)') /\ Cardinality(Given(r)') = k + 1
  <2>1. IsFiniteSet(Given(r)) /\ Cardinality(Given(r)) = k
    BY <1>2, <1>4
  <2>2. QED
    BY <1>4, <2>1, FS_AddElement
<1>6. ASSUME NEW p \in Workers, p # r PROVE Given(p)' = Given(p)
  BY <1>3, <1>6 DEF Given, Workers, NoQueue, TypeOK
<1>7. ASSUME NEW p \in Workers
      PROVE  IsFiniteSet(Given(p)') /\ Cardinality(Given(p)') = IF p <= r THEN k + 1 ELSE k
  <2>1. CASE p = r
    BY <1>5, <2>1 DEF Workers
  <2>2. CASE p # r
    <3>1. p < r <=> p <= r
      BY <2>2 DEF Workers
    <3>2. QED
      BY <1>2, <1>6, <2>2, <3>1
  <2>3. QED
    BY <2>1, <2>2
<1>8. \E n \in Nat : \A p \in Workers :
          /\ IsFiniteSet(Given(p)')
          /\ Cardinality(Given(p)') = IF p < index' % N THEN n + 1 ELSE n
  <2>1. CASE r = N-1
    <3>1. ASSUME NEW p \in Workers PROVE p <= r /\ ~(p < index' % N)
      BY <1>1, <2>1 DEF Workers
    <3>2. k + 1 \in Nat
      OBVIOUS
    <3>3. QED
      BY <1>7, <3>1, <3>2
  <2>2. CASE r # N-1
    <3>1. ASSUME NEW p \in Workers PROVE p <= r <=> p < index' % N
      BY <1>1, <2>2 DEF Workers
    <3>2. QED
      BY <1>7, <3>1
  <2>3. QED
    BY <2>1, <2>2
<1>9. QED
  BY <1>3, <1>8 DEF GoRound

\* Only load() draws tickets.
LEMMA GoRoundStep == TypeOK /\ GoRound /\ [Next]_vars => GoRound'
<1> SUFFICES ASSUME TypeOK, GoRound, [Next]_vars PROVE GoRound'
  OBVIOUS
<1>1. ASSUME NEW t \in Tasks, DrawTicket(t) PROVE GoRound'
  BY <1>1, TicketStep
<1>2. ASSUME UNCHANGED <<index, slot>>, \A t \in Tasks : stage'[t] = "new" => stage[t] = "new"
      PROVE  GoRound'
  BY <1>2 DEF GoRound, Given
<1>3. ASSUME NEW t \in Tasks, Push(t) \/ NotifyPush(t) PROVE GoRound'
  <2>1. UNCHANGED <<index, slot>>
    BY <1>3 DEF Push, NotifyPush
  <2>2. \A u \in Tasks : stage'[u] = "new" => stage[u] = "new"
    BY <1>3 DEF Push, NotifyPush, Stage, TypeOK
  <2>3. QED
    BY <1>2, <2>1, <2>2
<1>4. CASE UNCHANGED loadVars
  BY <1>2, <1>4 DEF loadVars
<1>5. ASSUME NEW w \in Workers, Worker(w) \/ Spurious(w) PROVE UNCHANGED loadVars
  BY <1>5 DEF Worker, CheckRunning, PopTask, PopNothing, PopWait, Block, FinishTask, CheckEmpty,
              StealLoop, StealTask, StealNothing, Spurious, Execute
<1>6. ASSUME NEW s \in Stoppers, StopEnter(s) \/ Stopper(s) PROVE UNCHANGED loadVars
  BY <1>6 DEF Stopper, StopEnter, StopClear, StopSize, StopFinalize, StopWait
<1>7. CASE UNCHANGED vars
  BY <1>4, <1>7 DEF vars
<1>8. QED
  BY <1>1, <1>3, <1>4, <1>5, <1>6, <1>7 DEF Next

\* load() spreads the tasks evenly, whenever the counter wraps around, for any number
\* of workers and tasks (TaskExecutor.hpp:143).
THEOREM EvenlySpread == Spec => []RoundRobin
<1>1. GoRound => RoundRobin
  <2> SUFFICES ASSUME GoRound PROVE RoundRobin
    OBVIOUS
  <2>1. PICK k \in Nat : \A p \in Workers :
            Cardinality(Given(p)) = IF p < index % N THEN k + 1 ELSE k
    BY DEF GoRound
  <2>2. \A p \in Workers : Cardinality(Given(p)) = k \/ Cardinality(Given(p)) = k + 1
    BY <2>1
  <2>3. \A p, q \in Workers : Cardinality(Given(p)) <= Cardinality(Given(q)) + 1
    BY <2>2
  <2>4. QED
    BY <2>3 DEF RoundRobin, Given
<1>2. TypeOK /\ GoRound /\ [Next]_vars => GoRound'
  BY GoRoundStep
<1>3. QED
  BY <1>1, <1>2, GoRoundInit, TypeCorrect, PTL DEF Spec

-----------------------------------------------------------------------------
(* The executor implements TaskPool.                                       *)

poolStatus == [t \in Tasks |-> StatusOf(t)]

\* A step that changes the status of one task advances that task.
LEMMA AdvanceOne ==
    ASSUME NEW t \in Tasks, NEW from, NEW to,
           StatusOf(t) = from, StatusOf(t)' = to,
           \A u \in Tasks : u # t => StatusOf(u)' = StatusOf(u)
    PROVE  Pool!Advance(t, from, to)
BY DEF Pool!Advance

\* Taking a task out of a queue, by pop or by try_steal, starts it: its status
\* was "pending", and no stop() has returned.
LEMMA TakeStarts ==
    ASSUME IInv, NEW w \in Workers, NEW q \in Workers,
           NEW k \in 1 .. Len(queue[q]),
           pc[w] # "exit", Takes(w, q, k),
           running' = running, spc' = spc
    PROVE  \E t \in Tasks : Pool!Start(t)
<1>1. PICK t \in Tasks : t = queue[q][k]
  BY DEF IInv, TypeOK
<1>2. t # NoTask /\ Resident(q, t)
  BY <1>1 DEF IInv, NoTaskTwice
<1>3. \A v \in Workers : held'[v] = IF v = w THEN t ELSE held[v]
  BY <1>1 DEF Takes, IInv, TypeOK
<1>4. StatusOf(t) = "pending"
  BY <1>2 DEF Resident, StatusOf, InHands
<1>5. StatusOf(t)' = "running"
  BY <1>2, <1>3 DEF Takes, Resident, StatusOf, InHands
<1>6. \A u \in Tasks : u # t => StatusOf(u)' = StatusOf(u)
  <2>1. \A u \in Tasks : u # t => (InHands(u)' <=> InHands(u))
    BY <1>3, NoTaskAssumption DEF InHands, Takes
  <2>2. QED
    BY <2>1 DEF StatusOf, Takes
<1>7. ~WorkersCleared /\ ~WorkersCleared'
  BY DEF IInv, StopQuiesces, WorkersCleared
<1>8. Pool!Advance(t, "pending", "running")
  BY <1>4, <1>5, <1>6, AdvanceOne
<1>9. running' = running /\ WorkersCleared' = WorkersCleared
  BY DEF WorkersCleared
<1>10. QED
  BY <1>7, <1>8, <1>9 DEF Pool!Start

\* Every step of the executor is a step of the pool or leaves it unchanged.
LEMMA PoolStep ==
    ASSUME IInv, IInv', Next
    PROVE  [Pool!PoolNext]_(Pool!poolVars)
<1> USE DEF IInv
<1>1. ASSUME NEW w \in Workers, PopTask(w) \/ StealTask(w)
      PROVE  Pool!PoolNext
  <2>0. PICK q \in Workers : \E k \in 1 .. Len(queue[q]) : Takes(w, q, k)
    BY <1>1, PopTakes, StealTakes
  <2>1. PICK k \in 1 .. Len(queue[q]) : Takes(w, q, k)
    BY <2>0
  <2>2. pc[w] # "exit" /\ running' = running /\ spc' = spc
    BY <1>1 DEF PopTask, StealTask, Goto, stopVars
  <2>3. \E t \in Tasks : Pool!Start(t)
    BY <2>1, <2>2, TakeStarts
  <2>4. QED
    BY <2>3 DEF Pool!PoolNext
<1>2. ASSUME NEW w \in Workers, FinishTask(w) PROVE Pool!PoolNext
  <2> DEFINE h == held[w]
  <2>1. /\ h \in Tasks /\ h # NoTask
        /\ done' = done \cup {h}
        /\ held' = [held EXCEPT ![w] = NoTask]
        /\ stage' = stage /\ running' = running /\ spc' = spc
    BY <1>2 DEF FinishTask, Execute, Goto, TypeOK, Busy, loadVars, stopVars
  <2>2. PICK t \in Tasks : t = h
    BY <2>1
  <2>3. StatusOf(t) = "running" /\ StatusOf(t)' = "done"
    BY <2>1, <2>2 DEF StatusOf, InHands, NoTaskTwice, Exclusive
  <2>4. \A u \in Tasks : u # t => (InHands(u)' <=> InHands(u))
    BY <2>1, <2>2 DEF InHands, TypeOK
  <2>5. \A u \in Tasks : u # t => StatusOf(u)' = StatusOf(u)
    BY <2>1, <2>2, <2>4 DEF StatusOf
  <2>6. Pool!Finish(t)
    BY <2>1, <2>3, <2>5, AdvanceOne DEF Pool!Finish, WorkersCleared
  <2>7. QED
    BY <2>6 DEF Pool!PoolNext
<1>3. ASSUME NEW t \in Tasks, Push(t) PROVE Pool!PoolNext
  <2>1. /\ stage[t] = "ticket" /\ stage' = [stage EXCEPT ![t] = "pushed"]
        /\ held' = held /\ done' = done
        /\ running' = running /\ spc' = spc
    BY <1>3 DEF Push, Stage, workerVars, stopVars
  <2>2. t \notin done /\ ~InHands(t)
    BY <2>1 DEF NoTaskTwice, Exclusive, InHands, Loaded
  <2>3. StatusOf(t) = "new" /\ StatusOf(t)' = "pending"
    BY <2>1, <2>2 DEF StatusOf, InHands, Loaded, TypeOK
  <2>4. \A u \in Tasks : u # t => StatusOf(u)' = StatusOf(u)
    BY <2>1 DEF StatusOf, InHands, TypeOK
  <2>5. Pool!Submit(t)
    BY <2>1, <2>3, <2>4, AdvanceOne DEF Pool!Submit, WorkersCleared
  <2>6. QED
    BY <2>5 DEF Pool!PoolNext
<1>4. ASSUME held' = held, done' = done,
             \A t \in Tasks : stage'[t] \in Loaded <=> stage[t] \in Loaded
      PROVE  poolStatus' = poolStatus
  BY <1>4 DEF poolStatus, StatusOf, InHands
<1>5. ASSUME NEW w \in Workers,
             \/ CheckRunning(w) \/ PopNothing(w) \/ PopWait(w) \/ Block(w)
             \/ CheckEmpty(w) \/ StealLoop(w) \/ StealNothing(w)
             \/ Spurious(w)
      PROVE  UNCHANGED Pool!poolVars
  <2>1. /\ held' = held /\ done' = done /\ stage' = stage
        /\ running' = running /\ spc' = spc
    BY <1>5 DEF CheckRunning, PopNothing, PopWait, Block, CheckEmpty,
                StealLoop, StealNothing, Spurious, loadVars, stopVars
  <2>2. QED
    BY <1>4, <2>1 DEF Pool!poolVars, poolStatus, WorkersCleared
<1>6. ASSUME NEW t \in Tasks, DrawTicket(t) \/ NotifyPush(t)
      PROVE  UNCHANGED Pool!poolVars
  <2>1. /\ held' = held /\ done' = done /\ running' = running /\ spc' = spc
        /\ \A u \in Tasks : stage'[u] \in Loaded <=> stage[u] \in Loaded
    BY <1>6 DEF DrawTicket, NotifyPush, Stage, workerVars, stopVars, TypeOK,
                Loaded
  <2>2. QED
    BY <1>4, <2>1 DEF Pool!poolVars, poolStatus, WorkersCleared
<1>7. ASSUME NEW s \in Stoppers, StopClear(s) PROVE Pool!PoolNext
  <2>1. /\ held' = held /\ done' = done /\ stage' = stage
        /\ running' = FALSE /\ (WorkersCleared' <=> WorkersCleared)
    BY <1>7 DEF StopClear, SGoto, workerVars, loadVars, WorkersCleared, TypeOK
  <2>2. Pool!Close
    BY <1>4, <2>1 DEF Pool!Close, poolStatus
  <2>3. QED
    BY <2>2 DEF Pool!PoolNext
<1>8. ASSUME NEW s \in Stoppers,
             StopEnter(s) \/ StopSize(s) \/ StopFinalize(s) \/ StopWait(s)
      PROVE  Pool!PoolNext \/ UNCHANGED Pool!poolVars
  <2>1. /\ held' = held /\ done' = done /\ stage' = stage
        /\ running' = running
    BY <1>8 DEF StopEnter, StopSize, StopFinalize, StopWait, workerVars,
                loadVars
  <2>2. CASE WorkersCleared' <=> WorkersCleared
    BY <1>4, <2>1, <2>2 DEF Pool!poolVars, poolStatus
  <2>3. CASE ~(WorkersCleared' <=> WorkersCleared)
    <3>1. WorkersCleared'
      BY <1>8, <2>3 DEF StopEnter, StopSize, StopFinalize, StopWait, SGoto,
                        WorkersCleared, TypeOK
    <3>2. ~running /\ ~running'
      BY <2>1, <3>1 DEF WorkersCleared, Bookkeeping
    <3>3. \A v \in Workers : held[v] = NoTask
      BY <2>1, <3>1 DEF StopQuiesces, TypeOK, Busy
    <3>4. \A t \in Tasks : StatusOf(t) # "running"
      BY <3>3 DEF StatusOf, InHands
    <3>5. Pool!Quiesce
      BY <1>4, <2>1, <3>1, <3>2, <3>4 DEF Pool!Quiesce, poolStatus
    <3>6. QED
      BY <3>5 DEF Pool!PoolNext
  <2>4. QED
    BY <2>2, <2>3
<1>9. QED
  BY <1>1, <1>2, <1>3, <1>5, <1>6, <1>7, <1>8 DEF Next, Worker, Stopper

\* The executor keeps the promise of the abstract pool, for any number of
\* workers, tasks and stoppers: a task is started at most once, and none is
\* running once a stop() has returned (TaskExecutor.hpp:81-166).
THEOREM ExecutorImplementsPool == Spec => ImplementsPool
<1>1. Init => Pool!PoolInit
  BY DEF Init, Pool!PoolInit, StatusOf, InHands, WorkersCleared, Loaded
<1>2. IInv /\ IInv' /\ [Next]_vars => [Pool!PoolNext]_(Pool!poolVars)
  <2> SUFFICES ASSUME IInv, IInv', [Next]_vars
               PROVE  [Pool!PoolNext]_(Pool!poolVars)
    OBVIOUS
  <2>1. CASE Next
    BY <2>1, PoolStep
  <2>2. CASE UNCHANGED vars
    BY <2>2 DEF vars, workerVars, loadVars, stopVars, Pool!poolVars, StatusOf,
                InHands, WorkersCleared
  <2>3. QED
    BY <2>1, <2>2
<1>3. QED
  BY <1>1, <1>2, Invariance, PTL DEF Spec, ImplementsPool, Pool!PoolSpec
=============================================================================
