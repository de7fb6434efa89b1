-------------------------- MODULE LifecycleProofs --------------------------
(***************************************************************************)
(* Safety of threads and of the resource audit, as MCLifecycle composes    *)
(* them: any number of starts of a Thread, any threads that track and      *)
(* audit resources.                                                        *)
(*                                                                         *)
(* ThreadInv and ResourceInv are inductive, each for its component; a step *)
(* of another component leaves it alone.                                   *)
(***************************************************************************)
EXTENDS MCLifecycle, TLAPS

-----------------------------------------------------------------------------
(* Threads                                                                 *)

\* The std::threads made so far are 1 .. starts, and _thread is the last one as soon
\* as start() has assigned it (Thread.cpp:76-103).
Numbered ==
    /\ \A i \in Thread!Threads : tpc[i] = "none" <=> i > starts
    /\ thread = IF upc = "assign" THEN starts - 1 ELSE starts
    /\ upc \in {"assign", "wait"} => starts > 0
    /\ upc \in {"join", "create"} => starts < MaxStarts
    /\ promise = starts

\* All threads but the last have cleared _started, and so has the last one when a
\* start() gets past its check; a start() that has returned has initialised its
\* thread.  So _started is about the last thread, detached or not (Thread.cpp:64-103).
Finished(i) == tpc[i] \in {"promise", "exit"}
Settled ==
    /\ \A i \in 1 .. starts : i < starts \/ upc \in {"join", "create"} => Finished(i)
    /\ upc = "idle" /\ starts > 0 => Thread!Initialised(starts)
    /\ started <=> /\ starts > 0
                   /\ tpc[starts] \in {"priority", "name", "init", "work", "clear"}

\* The last thread has the priority it was started with or given since
\* (Thread.cpp:126-161).
Prioritised ==
    starts > 0 /\ tpc[starts] \in {"name", "init", "work", "clear"} =>
        (priority = "high" => applied[starts] = "high")

\* Without detach() a thread that has not ended can be joined, start() makes the next
\* one after it has joined, and a deleted object has none (Thread.cpp:68-72, 199-208).
JoinedOrJoinable ==
    /\ upc = "create" => joinable = {}
    /\ upc = "assign" => joinable \subseteq {starts}
    /\ ~detached =>
          /\ \A i \in 1 .. starts : i < starts => tpc[i] = "exit"
          /\ \A i \in 1 .. starts : i \in joinable \/ tpc[i] = "exit"
          /\ upc = "create" \/ ~alive => \A i \in 1 .. starts : tpc[i] = "exit"
    /\ ~alive => upc = "idle"

ThreadInv == Thread!TypeOK /\ Numbered /\ Settled /\ Prioritised /\ JoinedOrJoinable

\* A Thread that has been made and not started (Thread.hpp:50-56).
LEMMA ThreadInit == ASSUME Thread!Init PROVE ThreadInv
<1> USE MaxStartsAssumption DEF Thread!Init, Thread!Threads
<1>1. Thread!TypeOK
  <2>1. {starts, thread, promise} \subseteq 0 .. MaxStarts
    OBVIOUS
  <2>2. QED
    BY <2>1 DEF Thread!TypeOK, Thread!ThreadPCs, Thread!Priorities
<1>2. Numbered /\ Settled
  BY DEF Numbered, Settled, Finished, Thread!Initialised
<1>3. Prioritised /\ JoinedOrJoinable
  BY DEF Prioritised, JoinedOrJoinable
<1>4. QED
  BY <1>1, <1>2, <1>3 DEF ThreadInv

\* Each step of the user and of a thread keeps the invariant (Thread.cpp:64-221).
LEMMA ThreadStep ==
    ASSUME ThreadInv, Thread!Next
    PROVE  ThreadInv'
<1> USE MaxStartsAssumption DEF ThreadInv, Thread!TypeOK, Thread!ThreadPCs,
    Thread!Priorities, Thread!Threads,
            Numbered, Settled, Finished, Thread!Initialised, Prioritised,
            JoinedOrJoinable,
            Thread!historyVars, Thread!otherVars, Thread!UGoto, Thread!TGoto,
            Thread!JoinThread, Thread!Applied
<1>1. CASE Thread!StartCheck
  BY <1>1 DEF Thread!StartCheck
<1>2. CASE Thread!StartJoin
  BY <1>2 DEF Thread!StartJoin
<1>3. CASE Thread!StartCreate
  <2>1. /\ starts \in 0 .. MaxStarts - 1 /\ starts' = starts + 1 /\ promise' = starts'
        /\ thread' = starts /\ upc' = "assign"
        /\ joinable' = joinable \cup {starts'} /\ joinable \subseteq {thread}
    BY <1>3 DEF Thread!StartCreate
  <2>2. {starts', thread', promise'} \subseteq 0 .. MaxStarts
    BY <2>1
  <2>3. joinable' \subseteq {thread'} \cup {starts'}
    BY <1>3, <2>1 DEF Thread!StartCreate
  <2>4. Thread!TypeOK'
    BY <1>3, <2>1, <2>2, <2>3 DEF Thread!StartCreate
  <2>5. Numbered'
    BY <1>3 DEF Thread!StartCreate
  <2>6. Settled'
    BY <1>3 DEF Thread!StartCreate
  <2>7. Prioritised'
    BY <1>3 DEF Thread!StartCreate
  <2>8. JoinedOrJoinable'
    BY <1>3, <2>1, <2>3 DEF Thread!StartCreate
  <2>9. QED
    BY <2>4, <2>5, <2>6, <2>7, <2>8
<1>4. CASE Thread!StartAssign
  <2>1. /\ starts \in 0 .. MaxStarts /\ starts' = starts /\ promise' = starts
        /\ thread' = starts /\ upc' = "wait" /\ thread = starts - 1
        /\ joinable' = joinable
    BY <1>4 DEF Thread!StartAssign
  <2>2. {starts', thread', promise'} \subseteq 0 .. MaxStarts
    BY <2>1
  <2>3. Thread!TypeOK'
    BY <1>4, <2>1, <2>2 DEF Thread!StartAssign
  <2>4. Numbered'
    BY <1>4 DEF Thread!StartAssign
  <2>5. Settled'
    BY <1>4 DEF Thread!StartAssign
  <2>6. Prioritised'
    BY <1>4 DEF Thread!StartAssign
  <2>7. JoinedOrJoinable'
    BY <1>4 DEF Thread!StartAssign
  <2>8. QED
    BY <2>3, <2>4, <2>5, <2>6, <2>7
<1>5. CASE Thread!StartReturn
  BY <1>5 DEF Thread!StartReturn
<1>6. CASE Thread!Join
  BY <1>6 DEF Thread!Join
<1>7. CASE Thread!Detach
  BY <1>7 DEF Thread!Detach
<1>8. CASE Thread!Destroy
  BY <1>8 DEF Thread!Destroy
<1>9. ASSUME NEW p \in Thread!Priorities, Thread!SetPriority(p) PROVE ThreadInv'
  BY <1>9 DEF Thread!SetPriority
<1>10. CASE Thread!Async
  BY <1>10 DEF Thread!Async
<1>11. CASE Thread!AsyncThread
  BY <1>11 DEF Thread!AsyncThread
<1>12. ASSUME NEW i \in Thread!Threads, Thread!SetFlag(i) PROVE ThreadInv'
  BY <1>12 DEF Thread!SetFlag
<1>13. ASSUME NEW i \in Thread!Threads, Thread!Apply(i, "priority", "name")
       PROVE  ThreadInv'
  <2>1. /\ tpc[i] = "priority" /\ tpc' = [tpc EXCEPT ![i] = "name"]
        /\ UNCHANGED <<upc, starts, thread, joinable, promise, started, alive, detached,
                       priority>>
    BY <1>13 DEF Thread!Apply
  <2>2. i = starts
    BY <2>1
  <2>3. /\ tpc'[starts] = "name"
         /\ \A j \in 1 .. starts : j # starts => tpc'[j] = tpc[j]
    BY <2>1, <2>2
  <2>4. applied' = IF priority = "default" THEN applied
                  ELSE [applied EXCEPT ![i] = priority]
    BY <1>13 DEF Thread!Apply
  <2>5. Thread!TypeOK'
    BY <1>13 DEF Thread!Apply
  <2>6. Numbered'
    BY <1>13 DEF Thread!Apply
  <2>7. Settled'
    BY <2>1, <2>2, <2>3
  <2>8. Prioritised'
    BY <2>1, <2>2, <2>3, <2>4
  <2>9. JoinedOrJoinable'
    BY <2>1, <2>2, <2>3
  <2>10. QED
    BY <2>5, <2>6, <2>7, <2>8, <2>9
<1>14. ASSUME NEW i \in Thread!Threads, Thread!Apply(i, "name", "init") PROVE ThreadInv'
  <2>1. /\ tpc[i] = "name" /\ tpc' = [tpc EXCEPT ![i] = "init"]
        /\ UNCHANGED <<upc, starts, thread, joinable, promise, started, alive, detached,
                       priority>>
    BY <1>14 DEF Thread!Apply
  <2>2. i = starts
    BY <2>1
  <2>3. /\ tpc'[starts] = "init"
         /\ \A j \in 1 .. starts : j # starts => tpc'[j] = tpc[j]
    BY <2>1, <2>2
  <2>4. applied' = applied
    BY <1>14 DEF Thread!Apply
  <2>5. Thread!TypeOK'
    BY <1>14 DEF Thread!Apply
  <2>6. Numbered'
    BY <1>14 DEF Thread!Apply
  <2>7. Settled'
    BY <2>1, <2>2, <2>3
  <2>8. Prioritised'
    BY <2>1, <2>2, <2>3, <2>4
  <2>9. JoinedOrJoinable'
    BY <2>1, <2>2, <2>3
  <2>10. QED
    BY <2>5, <2>6, <2>7, <2>8, <2>9
<1>15. ASSUME NEW i \in Thread!Threads, Thread!TellInit(i) PROVE ThreadInv'
  BY <1>15 DEF Thread!TellInit
<1>16. ASSUME NEW i \in Thread!Threads, Thread!Work(i) PROVE ThreadInv'
  BY <1>16 DEF Thread!Work
<1>17. ASSUME NEW i \in Thread!Threads, Thread!ClearFlag(i) PROVE ThreadInv'
  <2>1. Thread!TypeOK'
    BY <1>17 DEF Thread!ClearFlag
  <2>2. Numbered'
    BY <1>17 DEF Thread!ClearFlag
  <2>3. Settled'
    BY <1>17 DEF Thread!ClearFlag
  <2>4. Prioritised'
    BY <1>17 DEF Thread!ClearFlag
  <2>5. JoinedOrJoinable'
    BY <1>17 DEF Thread!ClearFlag
  <2>6. QED
    BY <2>1, <2>2, <2>3, <2>4, <2>5
<1>18. ASSUME NEW i \in Thread!Threads, Thread!Fulfil(i) PROVE ThreadInv'
  <2>1. promise \in Thread!Threads
    BY <1>18 DEF Thread!Fulfil
  <2>2. Thread!TypeOK'
    BY <1>18, <2>1 DEF Thread!Fulfil
  <2>3. Numbered'
    BY <1>18 DEF Thread!Fulfil
  <2>4. Settled'
    BY <1>18 DEF Thread!Fulfil
  <2>5. Prioritised'
    BY <1>18 DEF Thread!Fulfil
  <2>6. JoinedOrJoinable'
    BY <1>18 DEF Thread!Fulfil
  <2>7. QED
    BY <2>2, <2>3, <2>4, <2>5, <2>6
<1>19. QED
  BY <1>1, <1>2, <1>3, <1>4, <1>5, <1>6, <1>7, <1>8, <1>9, <1>10, <1>11, <1>12, <1>13,
      <1>14,
     <1>15, <1>16, <1>17, <1>18 DEF Thread!Next, Thread!User, Thread!Thread

\* The invariant is strong enough: two threads that have not ended would both be the
\* last one (Thread.cpp:64-103).
LEMMA ThreadsExclude == ASSUME ThreadInv PROVE Thread!OneThreadOnObject
<1> USE MaxStartsAssumption DEF ThreadInv, Thread!TypeOK, Thread!Threads
<1>1. ASSUME ~detached
      PROVE  /\ \A i, j \in Thread!Active : i = j
             /\ ~alive => Thread!Active = {}
  BY <1>1 DEF Thread!Active, Numbered, JoinedOrJoinable
<1>2. ASSUME upc = "idle", alive, started
      PROVE  /\ Thread!Initialised(thread)
             /\ priority = "high" => applied[thread] = "high"
  BY <1>2 DEF Numbered, Settled, Prioritised, Thread!Initialised
<1>3. QED
  BY <1>1, <1>2 DEF Thread!OneThreadOnObject

-----------------------------------------------------------------------------

(* Resources                                                               *)

\* One instance is made: on Linux before these calls, on Windows by the one caller
\* that the once_flag lets in (Singleton.hpp:163-180, Singleton.cpp).
OneMaker ==
    /\ instance = <<made, made>>
    /\ platform = "linux" =>
          /\ made = 1
          /\ \A c \in Callers : gpc[c] \in {"idle", "test", "object", "owner", "got"}
    /\ platform = "windows" =>
          /\ made = IF once = "done" THEN 1 ELSE 0
          /\ ~entry => once = "open" /\ \A c \in Callers : gpc[c] # "once"
          /\ \A c \in Callers : gpc[c] \notin {"test", "make", "assign", "own"}
    /\ \A c \in Callers : gpc[c] = "factory" => once = "busy"
    /\ \A c, d \in Callers : gpc[c] = "factory" /\ gpc[d] = "factory" => c = d

\* Whoever is in a call of the manager has got that instance (Singleton.hpp:56-57).
OneManager ==
    \A c \in Callers :
        /\ gpc[c] \in {"object", "owner", "got"} => made = 1
        /\ gpc[c] = "owner" => handle[c] = <<1, 0>>
        /\ gpc[c] = "got" => handle[c] = <<1, 1>>

\* A resource is registered from the end of its track() to the end of its release()
\* (Resource.cpp:30-40).
RegisteredIsTracked ==
    /\ \A r \in Resources : rpc[r] = "tracked" => r \in registered[1]
    /\ \A r \in registered[1] : made = 1 /\ rpc[r] \in {"tracked", "release"}

ResourceInv == Resource!ResourceTypeOK /\ OneMaker /\ OneManager /\ RegisteredIsTracked

\* On Linux nobody makes the first call while others are in it; there two managers
\* would be made (OneInstance of Singleton).
LinuxIsWarm == "linux" \in Platforms => "linux" \in Warm

\* Initially nothing is registered (Resource.hpp:54-58).
LEMMA ResourceInit ==
    ASSUME LinuxIsWarm, Resource!ResourceInit PROVE ResourceInv
<1> USE ResourceAssumption DEF Resource!ResourceInit, Resource!Init, Resource!Null
<1>1. made \in 0 .. 1 /\ MaxObjects \in Nat /\ MaxObjects >= 1
  BY DEF LinuxIsWarm
<1>2. Resource!ResourceTypeOK
  <2>1. <<made, made>> \in (0 .. MaxObjects) \X (0 .. MaxObjects)
    BY <1>1
  <2>2. <<0, 0>> \in (0 .. MaxObjects) \X (0 .. MaxObjects)
    BY <1>1
  <2>3. entry \in BOOLEAN
    OBVIOUS
  <2>4. once \in {"open", "busy", "done"}
    OBVIOUS
  <2>5. Resource!TypeOK
    BY <1>1, <2>1, <2>2, <2>3, <2>4 DEF Resource!TypeOK
  <2> HIDE DEF Resource!TypeOK
  <2>6. QED
    BY <2>5 DEF Resource!ResourceTypeOK
<1>3. OneMaker
  BY DEF LinuxIsWarm, OneMaker
<1>4. OneManager
  BY DEF OneManager
<1>5. RegisteredIsTracked
  BY DEF RegisteredIsTracked
<1>6. QED
  BY <1>2, <1>3, <1>4, <1>5 DEF ResourceInv

\* Each step of the callers, in the manager or on the way to it, keeps the invariant
\* (Resource.cpp:30-50, Singleton.hpp:163-180).
LEMMA ResourceStep ==
    ASSUME ResourceInv, Resource!ResourceNext
    PROVE  ResourceInv'
<1> USE ResourceAssumption DEF ResourceInv, OneMaker, OneManager, RegisteredIsTracked,
    Resource!ResourceTypeOK, Resource!TypeOK, Resource!GGoto, Resource!RGoto,
    Resource!Null, Resource!Call, Resource!Begin, Resource!End, Resource!Manager
<1>1. ASSUME NEW r \in Resources, Resource!Track(r) PROVE ResourceInv'
  BY <1>1 DEF Resource!Track
<1>2. ASSUME NEW r \in Resources, Resource!Insert(r) PROVE ResourceInv'
  BY <1>2 DEF Resource!Insert
<1>3. ASSUME NEW r \in Resources, Resource!Release(r) PROVE ResourceInv'
  BY <1>3 DEF Resource!Release
<1>4. ASSUME NEW r \in Resources, Resource!Destroy(r) PROVE ResourceInv'
  BY <1>4 DEF Resource!Destroy
<1>5. ASSUME NEW r \in Resources, Resource!Erase(r) PROVE ResourceInv'
  <2>1. /\ r \in Callers /\ gpc[r] = "got" /\ rpc[r] \in {"release", "destroy"}
        /\ gpc' = [gpc EXCEPT ![r] = "idle"]
        /\ UNCHANGED <<platform, made, instance, entry, once, failures, handle,
                       terminated>>
    BY <1>5 DEF Resource!Erase
  <2>2. rpc' = [rpc EXCEPT ![r] = IF rpc[r] = "release" THEN "released" ELSE "idle"]
    BY <1>5 DEF Resource!Erase
  <2>3. registered' = [registered EXCEPT ![1] = @ \ {r}]
    <3>1. handle[r] = <<1, 1>>
      BY <2>1
    <3>2. handle[r][1] = 1
      BY <3>1
    <3>3. registered' = [registered EXCEPT ![handle[r][1]] = @ \ {r}]
      BY <1>5 DEF Resource!Erase
    <3>4. QED
      BY <3>2, <3>3
  <2>4. Resource!ResourceTypeOK'
    BY <2>1, <2>2, <2>3
  <2>5. OneMaker'
    BY <2>1
  <2>6. OneManager'
    BY <2>1
  <2>7. RegisteredIsTracked'
    BY <2>1, <2>2, <2>3
  <2>8. QED
    BY <2>4, <2>5, <2>6, <2>7
<1>6. ASSUME NEW a \in Auditors, Resource!Audit(a) PROVE ResourceInv'
  BY <1>6 DEF Resource!Audit
<1>7. ASSUME NEW a \in Auditors, Resource!AuditPasses(a) PROVE ResourceInv'
  BY <1>7 DEF Resource!AuditPasses
<1>8. ASSUME NEW a \in Auditors, Resource!AuditThrows(a) PROVE ResourceInv'
  BY <1>8 DEF Resource!AuditThrows
<1>9. ASSUME NEW c \in Callers, Resource!Get(c), Resource!Test(c) PROVE ResourceInv'
  BY <1>9 DEF Resource!Get, Resource!Test
<1>10. ASSUME NEW c \in Callers, Resource!Get(c), Resource!Make(c) PROVE ResourceInv'
  BY <1>10 DEF Resource!Get, Resource!Make, Resource!Construct
<1>11. ASSUME NEW c \in Callers, Resource!Get(c),
             Resource!AssignObject(c) PROVE ResourceInv'
  BY <1>11 DEF Resource!Get, Resource!AssignObject
<1>12. ASSUME NEW c \in Callers, Resource!Get(c),
             Resource!AssignOwner(c) PROVE ResourceInv'
  BY <1>12 DEF Resource!Get, Resource!AssignOwner
<1>13. ASSUME NEW c \in Callers, Resource!Get(c),
             Resource!ReadObject(c) PROVE ResourceInv'
  BY <1>13 DEF Resource!Get, Resource!ReadObject
<1>14. ASSUME NEW c \in Callers, Resource!Get(c), Resource!ReadOwner(c) PROVE ResourceInv'
  BY <1>14 DEF Resource!Get, Resource!ReadOwner
<1>15. ASSUME NEW c \in Callers, Resource!Get(c), Resource!Lookup(c) PROVE ResourceInv'
  BY <1>15 DEF Resource!Get, Resource!Lookup
<1>16. ASSUME NEW c \in Callers, Resource!Get(c), Resource!OnceEnter(c) PROVE ResourceInv'
  <2>1. /\ gpc[c] = "once" /\ gpc' = [gpc EXCEPT ![c] = "factory"]
        /\ once = "open" /\ once' = "busy"
        /\ UNCHANGED <<platform, made, instance, entry, failures, handle>>
    BY <1>16 DEF Resource!OnceEnter
  <2>2. UNCHANGED <<rpc, registered, terminated>>
    BY <1>16, <2>1 DEF Resource!Get
  <2>3. Resource!ResourceTypeOK'
    BY <2>1, <2>2
  <2>4. OneMaker'
    <3>1. \A d \in Callers : gpc[d] # "factory"
      BY <2>1
    <3>2. \A d \in Callers : gpc'[d] = IF d = c THEN "factory" ELSE gpc[d]
      BY <2>1
    <3>3. platform = "windows" /\ made = 0 /\ entry
      BY <2>1
    <3>4. QED
      BY <2>1, <3>1, <3>2, <3>3
  <2>5. OneManager'
    BY <2>1
  <2>6. RegisteredIsTracked'
    BY <2>1, <2>2
  <2>7. QED
    BY <2>3, <2>4, <2>5, <2>6
<1>17. ASSUME NEW c \in Callers, Resource!Get(c), Resource!OncePass(c) PROVE ResourceInv'
  BY <1>17 DEF Resource!Get, Resource!OncePass
<1>18. ASSUME NEW c \in Callers, Resource!Get(c), Resource!Factory(c) PROVE ResourceInv'
  <2>1. Resource!ResourceTypeOK'
    BY <1>18 DEF Resource!Get, Resource!Factory, Resource!Construct
  <2>2. /\ gpc[c] = "factory" /\ gpc' = [gpc EXCEPT ![c] = "object"]
        /\ made' = made + 1 /\ handle' = [handle EXCEPT ![c] = <<made', made'>>]
        /\ instance' = handle'[c]
        /\ once' = "done" /\ UNCHANGED <<platform, entry>>
    BY <1>18 DEF Resource!Factory, Resource!Construct
  <2>3. platform = "windows" /\ made = 0 /\ once = "busy"
    BY <2>2
  <2>4. instance' = <<1, 1>> /\ made' = 1
    BY <2>2, <2>3
  <2>5. OneMaker'
    BY <2>2, <2>3, <2>4
  <2>6. OneManager'
    BY <1>18 DEF Resource!Get, Resource!Factory, Resource!Construct
  <2>7. RegisteredIsTracked'
    <3>1. UNCHANGED <<rpc, registered>>
      BY <1>18, <2>2 DEF Resource!Get
    <3>2. QED
      BY <2>3, <3>1
  <2>8. QED
    BY <2>1, <2>5, <2>6, <2>7
<1>19. ASSUME NEW c \in Callers, Resource!Get(c),
             Resource!FactoryThrows(c) PROVE ResourceInv'
  <2>1. /\ gpc' = [gpc EXCEPT ![c] = "idle"] /\ rpc' = [rpc EXCEPT ![c] = "idle"]
        /\ failures' \in 0 .. MaxFailures /\ once' = "open"
        /\ UNCHANGED <<platform, made, instance, entry, handle, registered>>
    BY <1>19 DEF Resource!Get, Resource!FactoryThrows
  <2>2. terminated' \in BOOLEAN
    <3>1. gpc'[c] = "idle"
      BY <2>1
    <3>2. terminated' = (c \in Resources)
      BY <1>19, <3>1 DEF Resource!Get
    <3>3. QED
      BY <3>2
  <2>3. Resource!ResourceTypeOK'
    BY <2>1, <2>2
  <2>4. OneMaker'
    BY <1>19 DEF Resource!Get, Resource!FactoryThrows
  <2>5. OneManager'
    BY <1>19 DEF Resource!Get, Resource!FactoryThrows
  <2>6. RegisteredIsTracked'
    <3>1. gpc[c] = "factory"
      BY <1>19 DEF Resource!FactoryThrows
    <3>2. made = 0
      BY <3>1
    <3>3. QED
      BY <2>1, <3>2
  <2>7. QED
    BY <2>3, <2>4, <2>5, <2>6
<1>20. QED
  BY <1>1, <1>2, <1>3, <1>4, <1>5, <1>6, <1>7, <1>8, <1>9, <1>10, <1>11, <1>12, <1>13,
      <1>14, <1>15, <1>16, <1>17, <1>18, <1>19 DEF Resource!ResourceNext, Resource!Get,
      Resource!GetInstance

-----------------------------------------------------------------------------

\* What is tracked is registered with the manager that an audit asks
\* (Resource.cpp:43-50).
LEMMA AuditsAreExact == ASSUME ResourceInv PROVE Resource!ExactAudit
<1> SUFFICES ASSUME NEW a \in Auditors, gpc[a] = "got"
             PROVE  IF registered[Resource!Manager(a)] = {}
                    THEN \A r \in Resources : rpc[r] # "tracked"
                    ELSE \E r \in Resources : rpc[r] \in {"tracked", "release"}
  BY DEF Resource!ExactAudit
<1>1. handle[a] = <<1, 1>> /\ made = 1
  BY ResourceAssumption DEF ResourceInv, OneManager
<1>2. Resource!Manager(a) = 1
  BY <1>1 DEF Resource!Manager
<1>3. registered[1] \subseteq Resources
  BY ResourceAssumption DEF ResourceInv, Resource!ResourceTypeOK
<1>4. QED
  BY <1>2, <1>3 DEF ResourceInv, RegisteredIsTracked

(* Both, in the composition                                                *)

\* The invariant of a component that is left alone (Thread.cpp, Resource.cpp).
LEMMA ThreadStutter == ThreadInv /\ UNCHANGED threadVars => ThreadInv'
BY DEF threadVars, ThreadInv, Thread!TypeOK, Numbered, Settled, Finished, Prioritised,
       JoinedOrJoinable, Thread!Initialised

\* The same for the resources (Resource.cpp).
LEMMA ResourceStutter == ResourceInv /\ UNCHANGED resourceVars => ResourceInv'
BY DEF resourceVars, ResourceInv, Resource!ResourceTypeOK, Resource!TypeOK, OneMaker,
    OneManager, RegisteredIsTracked

\* Without detach() one thread at a time works on a Thread, with its priority, and none
\* once it is deleted, for any number of starts (Thread.cpp:64-161).
THEOREM OneThread == Spec => []OneThreadOnObject
<1>1. Init => ThreadInv
  BY ThreadInit DEF Init
<1>2. ThreadInv /\ [Next]_<<subject, threadVars, applicationVars,
resourceVars>> => ThreadInv'
  BY ThreadStep, ThreadStutter DEF Next
<1>3. ThreadInv => OneThreadOnObject
  BY ThreadsExclude DEF OneThreadOnObject
<1>4. QED
  BY <1>1, <1>2, <1>3, PTL DEF Spec

\* An audit throws if and only if a resource is held, whoever tracks and audits and
\* however often the manager's constructor fails (Resource.cpp:43-50).
THEOREM AuditExact == ASSUME LinuxIsWarm PROVE Spec => AuditIsExact
<1>1. Init => ResourceInv
  BY LinuxIsWarm, ResourceInit DEF Init
<1>2. ResourceInv /\ [Next]_<<subject, threadVars, applicationVars,
resourceVars>> => ResourceInv'
  BY ResourceStep, ResourceStutter DEF Next
<1>3. ResourceInv => [Resource!ExactAudit]_(Resource!allVars)
  BY AuditsAreExact
<1>4. QED
  BY <1>1, <1>2, <1>3, PTL DEF Spec, AuditIsExact, Resource!AuditIsExact
=============================================================================
