--------------------------- MODULE ObjectsProofs ---------------------------
(***************************************************************************)
(* Safety of MCObjects for any notifications, names and numbers of runs,   *)
(* thieves, items, pushes, observers and events.                           *)
(*                                                                         *)
(* Of ActiveRunnable, ExecutedInOrder is an equation between sequences,    *)
(* which every step keeps; that no task is taken out of an empty vector    *)
(* needs to know what the worker may be doing while run() is on its way,   *)
(* and why it is woken.  Of Runnable, that one thread works needs to know  *)
(* that every other has been joined, and who still changes its name.       *)
(*                                                                         *)
(* Of the deque, that each item is taken once needs to know which places   *)
(* of the circular array are the queue's while a push or a pop is on its   *)
(* way, and what a thief knows that has looked at an old top or array.     *)
(* The queue of a fixed size keeps what its items' numbers say.  Of the    *)
(* observers, each loop of notify() has called those that it has passed.   *)
(***************************************************************************)
EXTENDS MCObjects, SequenceTheorems, FiniteSetTheorems, WellFoundedInduction, TLAPS

-----------------------------------------------------------------------------
(* ActiveRunnable                                                          *)

\* The types the equation needs: sequences of items, one item during __work().
Queues ==
    /\ tasks \in Seq(Items)
    /\ current \in Seq(Items)
    /\ notified \in Seq(Items)
    /\ executed \in Seq(Items)
    /\ pc # "work" => current = <<>>

\* As long as nothing unusual has happened: run() makes a worker when there is
\* none, and a worker that is woken was stopped or has a task (Runnable.hpp:241-258).
WokenForReason ==
    unusual = {} =>
        /\ rpc # "idle" => pc \in {"none", "exit"}
        /\ pc = "woken" => ~running \/ tasks # <<>>
        /\ pc # "undefined"

ActiveInv == Queues /\ Active!ExecutedInOrder /\ WokenForReason

-----------------------------------------------------------------------------

\* Taking the first element of a vector moves it, and nothing else.
LEMMA FirstAndRest ==
    ASSUME NEW S, NEW s \in Seq(S), s # <<>>
    PROVE  /\ <<Head(s)>> \in Seq(S)
           /\ Tail(s) \in Seq(S)
           /\ s = <<Head(s)>> \o Tail(s)
<1>1. Head(s) \in S /\ Tail(s) \in Seq(S)
  BY HeadTailProperties
<1>2. <<Head(s)>> \in Seq(S)
  BY <1>1
<1>3. s = <<Head(s)>> \o Tail(s)
  BY <1>1, SMT
<1>4. QED
  BY <1>1, <1>2, <1>3

\* Initially nothing is notified and there is no worker (Runnable.hpp:206-228).
LEMMA ActiveInit == Active!Init => ActiveInv
<1> SUFFICES ASSUME Active!Init PROVE ActiveInv
  OBVIOUS
<1>1. Queues
  BY EmptySeq DEF Active!Init, Queues
<1>2. Active!ExecutedInOrder
  BY DEF Active!Init, Active!ExecutedInOrder
<1>3. WokenForReason
  BY DEF Active!Init, WokenForReason
<1>4. QED
  BY <1>1, <1>2, <1>3 DEF ActiveInv

\* Take moves the first task into the worker's hands (Runnable.hpp:256-257).
LEMMA TakeStep ==
    ASSUME Queues, Active!ExecutedInOrder, Active!Take, pc # "work"
    PROVE  (Queues /\ Active!ExecutedInOrder)'
<1>1. /\ <<Head(tasks)>> \in Seq(Items)
      /\ Tail(tasks) \in Seq(Items)
      /\ tasks = <<Head(tasks)>> \o Tail(tasks)
  BY FirstAndRest DEF Active!Take, Queues
<1>2. Queues'
  BY <1>1 DEF Active!Take, Queues
<1>3. notified = executed \o tasks
  BY ConcatEmptySeq DEF Queues, Active!ExecutedInOrder
<1>4. notified = (executed \o <<Head(tasks)>>) \o Tail(tasks)
  BY <1>1, <1>3, ConcatAssociative DEF Queues
<1>5. Active!ExecutedInOrder'
  BY <1>4 DEF Active!Take, Active!ExecutedInOrder
<1>6. QED
  BY <1>2, <1>5

\* LeaveOrTake, in either place, takes a task or none (Runnable.hpp:254-257).
LEMMA LeaveOrTakeStep ==
    ASSUME Queues, Active!ExecutedInOrder, Active!LeaveOrTake, pc # "work"
    PROVE  (Queues /\ Active!ExecutedInOrder)'
<1>1. CASE Active!Take
  BY <1>1, TakeStep
<1>2. CASE ~Active!Take
  <2>1. UNCHANGED <<tasks, current, notified, executed>> /\ pc' # "work"
    BY <1>2 DEF Active!LeaveOrTake
  <2>2. QED
    BY <2>1 DEF Queues, Active!ExecutedInOrder
<1>3. QED
  BY <1>1, <1>2

\* The order of the notifications is the order of execution, in every step of run(),
\* of the worker, and of notify() and stop() (Runnable.hpp:241-356).
LEMMA OrderStep ==
    ASSUME Queues, Active!ExecutedInOrder, Active!Next
    PROVE  (Queues /\ Active!ExecutedInOrder)'
<1> USE DEF Active!runVars
<1>1. CASE Active!RunCheck
  BY <1>1 DEF Active!RunCheck, Queues, Active!ExecutedInOrder
<1>2. CASE Active!RunStore
  BY <1>2 DEF Active!RunStore, Queues, Active!ExecutedInOrder
<1>3. CASE Active!RunStart
  BY <1>3 DEF Active!RunStart, Queues, Active!ExecutedInOrder
<1>4. CASE Active!CheckRunning
  BY <1>4 DEF Active!CheckRunning, Active!Goto, Queues, Active!ExecutedInOrder
<1>5. CASE Active!Lock
  <2>1. CASE tasks = <<>>
    BY <1>5, <2>1 DEF Active!Lock, Queues, Active!ExecutedInOrder
  <2>2. CASE tasks # <<>>
    BY <1>5, <2>2, LeaveOrTakeStep DEF Active!Lock
  <2>3. QED
    BY <2>1, <2>2
<1>6. CASE Active!Woken
  BY <1>6, LeaveOrTakeStep DEF Active!Woken
<1>7. CASE Active!Work
  <2>1. /\ executed' = executed \o current /\ current' = <<>> /\ pc' = "check"
        /\ UNCHANGED <<tasks, notified>>
    BY <1>7 DEF Active!Work, Active!Goto
  <2>2. executed \o current \in Seq(Items)
    BY ConcatProperties DEF Queues
  <2>3. Queues'
    BY <2>1, <2>2, EmptySeq DEF Queues
  <2>4. (executed \o current) \o <<>> = executed \o current
    BY <2>2, ConcatEmptySeq
  <2>5. Active!ExecutedInOrder'
    BY <2>1, <2>4 DEF Active!ExecutedInOrder
  <2>6. QED
    BY <2>3, <2>5
<1>8. CASE Active!Spurious
  BY <1>8 DEF Active!Spurious, Active!Goto, Queues, Active!ExecutedInOrder
<1>9. ASSUME NEW i \in Items, Active!NotifyItem(i) PROVE (Queues /\ Active!ExecutedInOrder)'
  <2>1. /\ tasks' = Append(tasks, i) /\ notified' = Append(notified, i)
        /\ UNCHANGED <<current, executed>>
        /\ pc' # "work" => pc # "work"
    BY <1>9 DEF Active!NotifyItem, Active!Notify
  <2>2. Queues'
    BY <2>1, AppendProperties DEF Queues
  <2>3. /\ Append(tasks, i) = tasks \o <<i>> /\ Append(notified, i) = notified \o <<i>>
        /\ <<i>> \in Seq(Items)
    BY AppendIsConcat DEF Queues
  <2>4. executed \o current \in Seq(Items)
    BY ConcatProperties DEF Queues
  <2>5. notified \o <<i>> = (executed \o current) \o (tasks \o <<i>>)
    BY <2>3, <2>4, ConcatAssociative DEF Queues, Active!ExecutedInOrder
  <2>6. Active!ExecutedInOrder'
    BY <2>1, <2>3, <2>5 DEF Active!ExecutedInOrder
  <2>7. QED
    BY <2>2, <2>6
<1>10. CASE Active!Stop
  BY <1>10 DEF Active!Stop, Active!Notify, Queues, Active!ExecutedInOrder
<1> HIDE DEF Active!runVars
<1>11. QED
  BY <1>1, <1>2, <1>3, <1>4, <1>5, <1>6, <1>7, <1>8, <1>9, <1>10 DEF Active!Next, Active!Worker

\* A run() that finds a worker, and a spurious wakeup, are unusual; short of them a
\* wakeup comes with a task or with a stop (Runnable.hpp:241-258, 293-356).
LEMMA WokenStep ==
    ASSUME Queues, WokenForReason, Active!Next
    PROVE  WokenForReason'
<1> USE DEF WokenForReason, Active!runVars
<1>1. CASE Active!RunCheck
  BY <1>1 DEF Active!RunCheck
<1>2. CASE Active!RunStore
  BY <1>2 DEF Active!RunStore
<1>3. CASE Active!RunStart
  BY <1>3 DEF Active!RunStart
<1>4. CASE Active!CheckRunning
  BY <1>4 DEF Active!CheckRunning, Active!Goto
<1>5. CASE Active!Lock
  BY <1>5 DEF Active!Lock, Active!LeaveOrTake, Active!Take
<1>6. CASE Active!Woken
  BY <1>6 DEF Active!Woken, Active!LeaveOrTake, Active!Take
<1>7. CASE Active!Work
  BY <1>7 DEF Active!Work, Active!Goto
<1>8. CASE Active!Spurious
  BY <1>8 DEF Active!Spurious, Active!Goto
<1>9. ASSUME NEW i \in Items, Active!NotifyItem(i) PROVE WokenForReason'
  <2>1. Append(tasks, i) # <<>>
    BY AppendProperties DEF Queues
  <2>2. QED
    BY <1>9, <2>1 DEF Active!NotifyItem, Active!Notify
<1>10. CASE Active!Stop
  BY <1>10 DEF Active!Stop, Active!Notify
<1> HIDE DEF WokenForReason, Active!runVars
<1>11. QED
  BY <1>1, <1>2, <1>3, <1>4, <1>5, <1>6, <1>7, <1>8, <1>9, <1>10 DEF Active!Next, Active!Worker

\* Steps and stuttering keep the invariant.
LEMMA ActiveStep == ActiveInv /\ [Active!Next]_activeVars => ActiveInv'
<1> SUFFICES ASSUME ActiveInv, [Active!Next]_activeVars PROVE ActiveInv'
  OBVIOUS
<1>1. CASE Active!Next
  BY <1>1, OrderStep, WokenStep DEF ActiveInv
<1>2. CASE UNCHANGED activeVars
  BY <1>2 DEF activeVars, Active!runVars, ActiveInv, Queues, Active!ExecutedInOrder, WokenForReason
<1>3. QED
  BY <1>1, <1>2


-----------------------------------------------------------------------------
(* Runnable                                                                *)

Works == {"check", "work"}

PlainTypes ==
    /\ threads \in 0 .. MaxThreads /\ handle = threads
    /\ upc \in {"store", "create"} => threads < MaxThreads
    /\ upc \in {"configure", "start"} => threads > 0
    /\ tpc \in [1 .. MaxThreads -> {"none", "exit"} \cup Works]
    /\ given \in [1 .. MaxThreads -> Names] /\ name \in Names
    /\ spc = "idle"

\* A thread that is not the one in _t has been joined or was never started, and
\* _t's is not, as long as it is being made or when the object has gone.
OthersJoined ==
    /\ \A i \in 1 .. MaxThreads : tpc[i] \in Works =>
           i = handle /\ upc \notin {"configure", "start", "gone"}
    /\ \A i \in 1 .. MaxThreads : i > threads => tpc[i] = "none"
    /\ upc \in {"configure", "start"} => tpc[handle] = "none"
    /\ \A i \in ready : tpc[i] = "exit"
    /\ ready \subseteq 1 .. MaxThreads

\* The thread that works has the name of the object unless it was stopped.
NamePassedOn ==
    /\ upc = "start" => given[handle] = name
    /\ \A i \in 1 .. MaxThreads :
           tpc[i] \in Works /\ upc = "idle" /\ looping => given[i] = name

PlainInv == PlainTypes /\ OthersJoined /\ NamePassedOn

\* At first there is no thread.
LEMMA PlainInit == Plain!Init => PlainInv
<1> SUFFICES ASSUME Plain!Init PROVE PlainInv
  OBVIOUS
<1>1. PlainTypes
  BY RunsAssumption DEF Plain!Init, Plain!Threads, PlainTypes
<1>2. OthersJoined
  BY DEF Plain!Init, Plain!Threads, OthersJoined, Works
<1>3. NamePassedOn
  BY DEF Plain!Init, Plain!Threads, NamePassedOn, Works
<1>4. QED
  BY <1>1, <1>2, <1>3 DEF PlainInv

\* The steps of run(): the previous thread is joined before _t is another.
LEMMA PlainRun ==
    ASSUME PlainInv, Plain!RunCheck \/ Plain!RunStore \/ Plain!RunCreate \/ Plain!RunConfigure
                     \/ Plain!RunStart
    PROVE  PlainInv'
<1> USE RunsAssumption DEF PlainInv, Plain!UGoto, Works
<1>1. CASE Plain!RunCheck
  BY <1>1 DEF Plain!RunCheck, PlainTypes, OthersJoined, NamePassedOn
<1>2. CASE Plain!RunStore
  BY <1>2 DEF Plain!RunStore, PlainTypes, OthersJoined, NamePassedOn
<1>3. CASE Plain!RunCreate
  <2>1. /\ upc = "create" /\ upc' = "configure" /\ threads' = threads + 1 /\ handle' = threads + 1
        /\ UNCHANGED <<looping, name, spc, tpc, given, ready, fault>>
        /\ threads \in 0 .. MaxThreads /\ handle = threads /\ threads < MaxThreads
    BY <1>3 DEF Plain!RunCreate, PlainTypes
  <2>2. \A i \in 1 .. MaxThreads : tpc[i] \notin Works
    BY <1>3, <2>1 DEF Plain!RunCreate, Plain!Joined, OthersJoined
  <2>3. PlainTypes'
    BY <2>1 DEF PlainTypes
  <2>4. OthersJoined'
    BY <2>1, <2>2 DEF OthersJoined
  <2>5. NamePassedOn'
    BY <2>1, <2>2 DEF NamePassedOn
  <2>6. QED
    BY <2>3, <2>4, <2>5
<1>4. CASE Plain!RunConfigure
  <2>1. /\ upc = "configure" /\ upc' = "start" /\ given' = [given EXCEPT ![handle] = name]
        /\ UNCHANGED <<looping, name, handle, threads, spc, tpc, ready, fault>>
        /\ handle \in 1 .. MaxThreads
    BY <1>4 DEF Plain!RunConfigure, PlainTypes
  <2>2. PlainTypes'
    BY <2>1 DEF PlainTypes
  <2>3. OthersJoined' /\ NamePassedOn'
    BY <2>1 DEF PlainTypes, OthersJoined, NamePassedOn
  <2>4. QED
    BY <2>2, <2>3
<1>5. CASE Plain!RunStart
  <2>1. /\ upc = "start" /\ upc' = "idle" /\ tpc' = [tpc EXCEPT ![handle] = "check"]
        /\ UNCHANGED <<looping, name, handle, threads, spc, given, ready, fault>>
        /\ handle \in 1 .. MaxThreads
    BY <1>5 DEF Plain!RunStart, PlainTypes
  <2>2. PlainTypes'
    BY <2>1 DEF PlainTypes
  <2>3. OthersJoined'
    BY <2>1 DEF PlainTypes, OthersJoined
  <2>4. NamePassedOn'
    BY <2>1 DEF PlainTypes, OthersJoined, NamePassedOn
  <2>5. QED
    BY <2>2, <2>3, <2>4
<1>6. QED
  BY <1>1, <1>2, <1>3, <1>4, <1>5

\* set_name(), stop() and the destructor, which joins the thread
LEMMA PlainUser ==
    ASSUME PlainInv, \/ \E n \in Names : Plain!SetName(n)
                     \/ Plain!Stop \/ Plain!Destroy \/ Plain!DestroyThread
    PROVE  PlainInv'
<1> USE RunsAssumption DEF PlainInv, Plain!UGoto, Works
<1>1. ASSUME NEW n \in Names, Plain!SetName(n) PROVE PlainInv'
  <2>1. /\ upc = "idle" /\ name' = n /\ UNCHANGED <<looping, handle, threads, upc, spc, tpc, ready>>
        /\ \/ (~looping \/ handle = 0) /\ given' = given
           \/ given' = [given EXCEPT ![handle] = n]
    BY <1>1 DEF Plain!SetName, Plain!PassOn
  <2>2. PlainTypes'
    BY <2>1 DEF PlainTypes
  <2>3. OthersJoined'
    BY <2>1 DEF OthersJoined
  <2>4. NamePassedOn'
    BY <2>1 DEF PlainTypes, OthersJoined, NamePassedOn
  <2>5. QED
    BY <2>2, <2>3, <2>4
<1>2. CASE Plain!Stop
  BY <1>2 DEF Plain!Stop, PlainTypes, OthersJoined, NamePassedOn
<1>3. CASE Plain!Destroy
  BY <1>3 DEF Plain!Destroy, PlainTypes, OthersJoined, NamePassedOn
<1>4. CASE Plain!DestroyThread
  <2>1. /\ upc' = "gone" /\ UNCHANGED <<looping, name, handle, threads, spc, tpc, given, ready>>
        /\ handle # 0 => tpc[handle] \in {"none", "exit"}
    BY <1>4 DEF Plain!DestroyThread, Plain!Joined
  <2>2. \A i \in 1 .. MaxThreads : tpc[i] \notin Works
    BY <2>1 DEF PlainTypes, OthersJoined
  <2>3. QED
    BY <2>1, <2>2 DEF PlainTypes, OthersJoined, NamePassedOn
<1>5. QED
  BY <1>1, <1>2, <1>3, <1>4

\* The loop of a thread: its future becomes ready when it leaves.
LEMMA PlainThread ==
    ASSUME PlainInv, NEW i \in 1 .. MaxThreads, Plain!Thread(i)
    PROVE  PlainInv'
<1> USE RunsAssumption DEF PlainInv, Plain!TGoto, Works
<1>1. CASE Plain!Check(i)
  <2>1. /\ tpc[i] = "check"
        /\ \/ looping /\ tpc' = [tpc EXCEPT ![i] = "work"] /\ ready' = ready
           \/ ~looping /\ tpc' = [tpc EXCEPT ![i] = "exit"] /\ ready' = ready \cup {i}
        /\ UNCHANGED <<looping, name, handle, threads, upc, spc, given>>
    BY <1>1 DEF Plain!Check
  <2>2. PlainTypes'
    BY <2>1 DEF PlainTypes
  <2>3. OthersJoined'
    BY <2>1 DEF PlainTypes, OthersJoined
  <2>4. NamePassedOn'
    BY <2>1 DEF PlainTypes, NamePassedOn
  <2>5. QED
    BY <2>2, <2>3, <2>4
<1>2. CASE Plain!Work(i)
  <2>1. /\ tpc[i] = "work" /\ tpc' = [tpc EXCEPT ![i] = "check"]
        /\ UNCHANGED <<looping, name, handle, threads, upc, spc, given, ready>>
    BY <1>2 DEF Plain!Work
  <2>2. PlainTypes'
    BY <2>1 DEF PlainTypes
  <2>3. OthersJoined'
    BY <2>1 DEF PlainTypes, OthersJoined
  <2>4. NamePassedOn'
    BY <2>1 DEF PlainTypes, NamePassedOn
  <2>5. QED
    BY <2>2, <2>3, <2>4
<1>3. QED
  BY <1>1, <1>2 DEF Plain!Thread

\* Steps and stuttering keep it, if the name is set by the user's thread only.
LEMMA PlainStep ==
    ASSUME ~OtherSetter, PlainInv, [Plain!Next]_plainVars
    PROVE  PlainInv'
<1>1. CASE UNCHANGED plainVars
  BY <1>1 DEF plainVars, PlainInv, PlainTypes, OthersJoined, NamePassedOn
<1>2. CASE Plain!Next
  <2>1. ~ \E n \in Names : Plain!OtherSets(n)
    BY DEF Plain!OtherSets
  <2>2. QED
    BY <1>2, <2>1, PlainRun, PlainUser, PlainThread DEF Plain!Next, Plain!User, Plain!Threads
<1>3. QED
  BY <1>1, <1>2

-----------------------------------------------------------------------------
(***************************************************************************)
(* Induction over numbers, which the library states for predicates only    *)
(***************************************************************************)

\* Any set of numbers has a least one.
LEMMA Least ==
    ASSUME NEW T \in SUBSET Nat, T # {}
    PROVE  \E x \in T : \A y \in T : x <= y
<1> DEFINE R == OpToRel(<, Nat)
<1>1. IsWellFoundedOn(R, Nat)
  BY NatLessThanWellFounded
<1>2. \A x, y \in Nat : x < y => <<x, y>> \in R
  BY DEF OpToRel
<1> HIDE DEF R
<1>3. \E x \in T : \A y \in T : ~ (<<y, x>> \in R)
  BY <1>1, WFMin
<1>4. PICK x \in T : \A y \in T : ~ (<<y, x>> \in R)
  BY <1>3
<1>5. \A y \in T : ~ (y < x)
  BY <1>2, <1>4, Zenon
<1>6. QED
  BY <1>5

\* A set that has zero, and with each number the next, has all of them.
LEMMA SetInduction ==
    ASSUME NEW S, 0 \in S, \A n \in Nat : n \in S => n + 1 \in S
    PROVE  \A n \in Nat : n \in S
<1> SUFFICES ASSUME NEW n \in Nat, n \notin S PROVE FALSE
  OBVIOUS
<1> DEFINE T == Nat \ S
<1>1. PICK x \in T : \A y \in T : x <= y
  BY Least
<1>2. QED
  BY <1>1

\* The function g that makes n steps F from x
StepsOf(X, n) == [X \X (1 .. n) -> X]
MakesSteps(g, X, x, n, F) ==
    g \in [0 .. n -> X] /\ g[0] = x /\ \A i \in 1 .. n : g[i] = F[<<g[i - 1], i>>]

\* A recursive function over the first n numbers exists, and its values are in X.
LEMMA Recursion ==
    ASSUME NEW X, NEW x0 \in X, NEW n \in Nat, NEW F \in StepsOf(X, n)
    PROVE  \E g : MakesSteps(g, X, x0, n, F)
<1> USE DEF StepsOf
<1> DEFINE Good(m, g) == g[0] = x0 /\ \A i \in 1 .. m : g[i] = F[<<g[i - 1], i>>]
           S == {m \in Nat : m <= n => \E g \in [0 .. m -> X] : Good(m, g)}
<1>1. 0 \in S
  <2> DEFINE h == [i \in 0 .. 0 |-> x0]
  <2>1. h \in [0 .. 0 -> X] /\ h[0] = x0
    OBVIOUS
  <2>2. Good(0, h)
    BY <2>1
  <2> HIDE DEF h
  <2>3. \E g \in [0 .. 0 -> X] : Good(0, g)
    BY <2>1, <2>2
  <2>4. QED
    BY <2>3
<1>2. ASSUME NEW m \in Nat, m \in S PROVE m + 1 \in S
  <2> SUFFICES ASSUME m + 1 <= n PROVE \E g \in [0 .. m + 1 -> X] : Good(m + 1, g)
    OBVIOUS
  <2>1. PICK g \in [0 .. m -> X] : Good(m, g)
    BY <1>2
  <2> DEFINE y == F[<<g[m], m + 1>>]
             h == [i \in 0 .. m + 1 |-> IF i <= m THEN g[i] ELSE y]
  <2>2. y \in X
    <3>1. g[m] \in X /\ m + 1 \in 1 .. n
      OBVIOUS
    <3>2. QED
      BY <3>1
  <2>3. \A i \in 0 .. m : h[i] = g[i]
    OBVIOUS
  <2>4. h[m + 1] = y /\ h \in [0 .. m + 1 -> X]
    BY <2>2
  <2> HIDE DEF h
  <2>5. ASSUME NEW i \in 1 .. m + 1 PROVE h[i] = F[<<h[i - 1], i>>]
    <3>1. CASE i = m + 1
      <4>1. h[i - 1] = g[m]
        BY <2>3, <3>1
      <4>2. QED
        BY <2>4, <3>1, <4>1
    <3>2. CASE i # m + 1
      <4>1. i \in 1 .. m /\ h[i] = g[i] /\ h[i - 1] = g[i - 1]
        BY <2>3, <3>2
      <4>2. QED
        BY <2>1, <4>1
    <3>3. QED
      BY <3>1, <3>2
  <2>6. h[0] = x0
    BY <2>1, <2>3
  <2>7. Good(m + 1, h)
    BY <2>5, <2>6
  <2>8. QED
    BY <2>4, <2>7
<1>3. n \in S
  <2> HIDE DEF S
  <2>1. QED
    BY <1>1, <1>2, SetInduction
<1>4. QED
  BY <1>3 DEF MakesSteps

-----------------------------------------------------------------------------
(***************************************************************************)
(* LockFreeWorkQueue                                                       *)
(***************************************************************************)

\* Circular arrays, of any size but none
Circular == UNION {[0 .. n - 1 -> Nat] : n \in Nat \ {0}}

Pushing == {"grow", "put", "publish"}
Popping == {"top", "get", "race", "restore"}

\* The items between top and Bottom are in the queue; those of them below End may be
\* stolen.  An owner that has found more than one item has the last one for itself.
Bottom == IF opc \in Popping THEN obottom + 1 ELSE bottom
End == IF opc = "get" /\ otop < obottom THEN obottom ELSE Bottom

Capacity == Deque!Size(Deque!Array)
Places == [k \in Nat |-> Deque!Get(Deque!Array, k)]

DequeTypes ==
    /\ {top, bottom, obottom, otop, pushed, result} \subseteq Nat
    /\ opc \in {"idle"} \cup Pushing \cup Popping
    /\ arrays \in Seq(Circular) /\ arrays # <<>>
    /\ thief \in [Thieves -> {"idle", "bottom", "array", "get", "race"}]
    /\ ttop \in [Thieves -> Nat] /\ tresult \in [Thieves -> Nat]
    /\ tarray \in [Thieves -> Nat]
    /\ taken \in Seq(Nat)

\* What the owner knows of the indices at each step of push() and pop()
Indices ==
    /\ top <= End /\ Bottom - top <= Capacity
    /\ Bottom <= pushed /\ pushed <= MaxItems
    /\ pushed > 0 => Bottom > 0
    /\ opc \in Pushing => obottom = bottom /\ otop <= top /\ pushed < MaxItems
    /\ opc = "grow" => obottom - otop <= Capacity
    /\ opc \in {"put", "publish"} => obottom - otop < Capacity
    /\ opc \in Popping => bottom = obottom /\ pushed > 0
    /\ opc \in {"get", "race"} => otop <= top /\ otop <= obottom
    /\ opc = "race" => otop = obottom /\ (top = otop => result = Places[top])
    /\ opc = "restore" => top = obottom + 1

\* Each item pushed has been taken once, or has one place in the queue.
Placed ==
    /\ opc = "publish" => Places[obottom] = pushed + 1
    /\ \A k \in top .. Bottom - 1 :
           /\ Places[k] \in 1 .. pushed
           /\ \A n \in DOMAIN taken : taken[n] # Places[k]
           /\ \A j \in top .. Bottom - 1 : Places[j] = Places[k] => j = k
    /\ \A n \in DOMAIN taken :
           /\ taken[n] \in 1 .. pushed
           /\ \A m \in DOMAIN taken : taken[m] = taken[n] => m = n
    /\ \A i \in 1 .. pushed :
           \/ \E n \in DOMAIN taken : taken[n] = i
           \/ \E k \in top .. Bottom - 1 : Places[k] = i

\* A thief whose top is still the queue's may take the item there, which is what it
\* finds in the array it has looked up, be it an old one.
Thieving ==
    \A t \in Thieves :
        /\ ttop[t] <= top
        /\ tarray[t] \in 1 .. Len(arrays)
        /\ ttop[t] = top /\ thief[t] \in {"array", "get", "race"} => top < End
        /\ ttop[t] = top /\ thief[t] = "get" =>
               Deque!Get(arrays[tarray[t]], top) = Places[top]
        /\ ttop[t] = top /\ thief[t] = "race" => tresult[t] = Places[top]

DequeInv == DequeTypes /\ Indices /\ Placed /\ Thieving

\* Numbers that are less than n apart have different remainders.
LEMMA RemainderApart ==
    ASSUME NEW n \in Nat \ {0}, NEW j \in Nat, NEW k \in Nat, j # k, j - k < n, k - j < n
    PROVE  j % n # k % n
<1>1. /\ j = n * (j \div n) + (j % n) /\ k = n * (k \div n) + (k % n)
      /\ j \div n \in Int /\ k \div n \in Int /\ j % n \in Nat /\ k % n \in Nat
  OBVIOUS
<1>2. ASSUME NEW e \in Int, n * e < n, -n < n * e PROVE e = 0
  <2>1. e >= 1 => n * e >= n
    OBVIOUS
  <2>2. e <= -1 => n * e <= -n
    OBVIOUS
  <2>3. QED
    BY <1>2, <2>1, <2>2
<1>3. SUFFICES ASSUME j % n = k % n PROVE FALSE
  OBVIOUS
<1>4. PICK a \in Int, b \in Int, r \in Nat : j = n * a + r /\ k = n * b + r
  BY <1>1, <1>3
<1>5. n * (a - b) = j - k /\ a - b \in Int
  BY <1>4
<1>6. a - b = 0
  BY <1>2, <1>5
<1>7. QED
  BY <1>5, <1>6

\* A circular array has a size, and a place for each index.
LEMMA CircularSize ==
    ASSUME NEW n \in Nat \ {0}, NEW a \in [0 .. n - 1 -> Nat]
    PROVE  /\ Deque!Size(a) = n
           /\ \A k \in Nat : k % n \in 0 .. n - 1 /\ Deque!Get(a, k) = a[k % n]
<1>1. Cardinality(0 .. n - 1) = n
  BY FS_Interval
<1>2. Deque!Size(a) = n
  <2>1. DOMAIN a = 0 .. n - 1
    OBVIOUS
  <2>2. QED
    BY <1>1, <2>1, Zenon DEF Deque!Size, Deque!Cardinality, Cardinality
<1>3. QED
  BY <1>2 DEF Deque!Get

\* Its size and its items are numbers.
LEMMA CircularGet ==
    ASSUME NEW a \in Circular
    PROVE  /\ Deque!Size(a) \in Nat \ {0}
           /\ a \in [0 .. Deque!Size(a) - 1 -> Nat]
           /\ \A k \in Nat : Deque!Get(a, k) \in Nat
<1>1. PICK n \in Nat \ {0} : a \in [0 .. n - 1 -> Nat]
  BY DEF Circular
<1>2. Deque!Size(a) = n /\ \A k \in Nat : k % n \in 0 .. n - 1 /\ Deque!Get(a, k) = a[k % n]
  BY <1>1, CircularSize
<1>3. QED
  BY <1>1, <1>2

\* What is put at an index is there, and what is at those around it stays
\* (LockFreeWorkQueue.hpp:57-65).
LEMMA PutGet ==
    ASSUME NEW a \in Circular, NEW k \in Nat, NEW x \in Nat
    PROVE  /\ Deque!Put(a, k, x) \in Circular
           /\ Deque!Size(Deque!Put(a, k, x)) = Deque!Size(a)
           /\ Deque!Get(Deque!Put(a, k, x), k) = x
           /\ \A j \in Nat : j # k /\ j - k < Deque!Size(a) /\ k - j < Deque!Size(a)
                  => Deque!Get(Deque!Put(a, k, x), j) = Deque!Get(a, j)
<1> DEFINE n == Deque!Size(a)
           b == Deque!Put(a, k, x)
<1>1. n \in Nat \ {0} /\ a \in [0 .. n - 1 -> Nat]
  BY CircularGet
<1>2. b = [a EXCEPT ![k % n] = x]
  BY DEF Deque!Put
<1> HIDE DEF n, b
<1>3. b \in [0 .. n - 1 -> Nat] /\ k % n \in 0 .. n - 1
  BY <1>1, <1>2
<1>4. /\ Deque!Size(b) = n
      /\ \A j \in Nat : Deque!Get(b, j) = b[j % n] /\ Deque!Get(a, j) = a[j % n]
                        /\ j % n \in 0 .. n - 1
  BY <1>1, <1>3, CircularSize
<1>5. b \in Circular
  BY <1>1, <1>3 DEF Circular
<1>6. Deque!Get(b, k) = x
  BY <1>1, <1>2, <1>3, <1>4
<1>7. ASSUME NEW j \in Nat, j # k, j - k < n, k - j < n
      PROVE  Deque!Get(b, j) = Deque!Get(a, j)
  <2>1. j % n # k % n
    BY <1>1, <1>7, RemainderApart
  <2>2. QED
    BY <1>1, <1>2, <1>4, <2>1
<1>8. QED
  BY <1>4, <1>5, <1>6, <1>7 DEF n, b

\* The new array holds what the old one held at the indices that are copied
\* (LockFreeWorkQueue.hpp:67-78).
LEMMA ResizeGet ==
    ASSUME NEW a \in Circular, NEW b \in Nat, NEW t \in Nat, b - t <= Deque!Size(a)
    PROVE  /\ Deque!Resize(a, b, t) \in Circular
           /\ Deque!Size(Deque!Resize(a, b, t)) = 2 * Deque!Size(a)
           /\ \A j \in t .. b - 1 :
                  Deque!Get(Deque!Resize(a, b, t), j) = Deque!Get(a, j)
<1> DEFINE n == 2 * Deque!Size(a)
           c == Deque!Resize(a, b, t)
           At(i) == CHOOSE j \in t .. b - 1 : j % n = i
<1>1. Deque!Size(a) \in Nat \ {0} /\ \A k \in Nat : Deque!Get(a, k) \in Nat
  BY CircularGet
<1>2. n \in Nat \ {0} /\ b - t < n /\ t .. b - 1 \subseteq Nat
  BY <1>1
<1>3. c = [i \in 0 .. n - 1 |-> IF \E j \in t .. b - 1 : j % n = i
                                THEN Deque!Get(a, At(i)) ELSE 0]
  BY DEF Deque!Resize, Deque!Garbage
<1> HIDE DEF n, c
<1>4. \A i \in 0 .. n - 1 : (\E j \in t .. b - 1 : j % n = i) =>
          At(i) \in t .. b - 1 /\ At(i) % n = i
  OBVIOUS
<1> HIDE DEF At
<1>5. c \in [0 .. n - 1 -> Nat]
  BY <1>1, <1>2, <1>3, <1>4
<1>6. c \in Circular
  BY <1>2, <1>5 DEF Circular
<1>7. /\ Deque!Size(c) = n
      /\ \A j \in Nat : Deque!Get(c, j) = c[j % n] /\ j % n \in 0 .. n - 1
  BY <1>2, <1>5, CircularSize
<1>8. ASSUME NEW j \in t .. b - 1 PROVE Deque!Get(c, j) = Deque!Get(a, j)
  <2>1. j \in Nat /\ At(j % n) \in t .. b - 1 /\ At(j % n) % n = j % n
    BY <1>2, <1>4, <1>7
  <2>2. At(j % n) = j
    <3> SUFFICES ASSUME NEW i \in t .. b - 1, i % n = j % n, i # j PROVE FALSE
      BY <2>1
    <3>1. i \in Nat /\ i - j < n /\ j - i < n
      BY <1>2
    <3>2. QED
      BY <1>2, <2>1, <3>1, RemainderApart
  <2>3. QED
    BY <1>3, <1>7, <2>1, <2>2
<1>9. QED
  BY <1>6, <1>7, <1>8 DEF n, c

-----------------------------------------------------------------------------

\* The array in use has a size and an item for each index (LockFreeWorkQueue.hpp:57-60).
LEMMA ArrayIsCircular ==
    ASSUME DequeTypes
    PROVE  /\ Len(arrays) \in Nat \ {0} /\ \A i \in 1 .. Len(arrays) : arrays[i] \in Circular
           /\ Capacity \in Nat \ {0} /\ Places \in [Nat -> Nat]
<1>1. Len(arrays) \in Nat \ {0} /\ \A i \in 1 .. Len(arrays) : arrays[i] \in Circular
  BY DEF DequeTypes
<1>2. Deque!Array \in Circular
  BY <1>1 DEF Deque!Array
<1>3. QED
  BY <1>1, <1>2, CircularGet DEF Capacity, Places

\* An item stays where it is while the arrays stay what they are.
LEMMA SamePlaces ==
    ASSUME UNCHANGED arrays
    PROVE  Capacity' = Capacity /\ Places' = Places
BY DEF Capacity, Places, Deque!Array, Deque!Size, Deque!Get

\* Indices do not wrap around: they count pushes, of which there are too few.
LEMMA NoWrap ==
    ASSUME NEW b \in Nat, b <= MaxItems
    PROVE  /\ (b + 1) % IndexModulus = b + 1
           /\ b > 0 => (b + IndexModulus - 1) % IndexModulus = b - 1
<1>1. MaxItems \in Nat /\ IndexModulus \in Nat \ {0} /\ b + 1 < IndexModulus
  BY DequeAssumption
<1> DEFINE m == IndexModulus
<1>2. m \in Nat \ {0} /\ b + 1 < m
  BY <1>1
<1> HIDE DEF m
<1>3. (b + 1) % m = b + 1
  BY <1>2
<1>4. ASSUME b > 0 PROVE (b + m - 1) % m = b - 1
  <2> DEFINE a == b + m - 1
  <2>1. /\ a = m * (a \div m) + (a % m) /\ a % m \in 0 .. m - 1 /\ a \div m \in Int
    BY <1>2, <1>4
  <2>2. a = m + (b - 1) /\ b - 1 \in 0 .. m - 1 /\ a \in Nat
    BY <1>2, <1>4
  <2> HIDE DEF a
  <2>3. PICK d \in Int, r \in 0 .. m - 1 : a = m * d + r /\ r = a % m
    BY <2>1
  <2>4. m * (d - 1) = b - 1 - r /\ d - 1 \in Int
    BY <1>2, <2>2, <2>3
  <2>5. d - 1 >= 1 => m * (d - 1) >= m
    BY <1>2, <2>3
  <2>6. d - 1 <= -1 => m * (d - 1) <= -m
    BY <1>2, <2>3
  <2>7. d - 1 = 0
    BY <1>2, <2>2, <2>3, <2>4, <2>5, <2>6
  <2>8. m * (d - 1) = 0
    BY <1>2, <2>7
  <2>9. a % m = b - 1
    BY <2>3, <2>4, <2>8, <1>4
  <2>10. QED
    BY <2>9 DEF a
<1>5. QED
  BY <1>3, <1>4 DEF m

\* The deque is made empty (LockFreeWorkQueue.hpp:89-92).
LEMMA DequeInit == Deque!Init => DequeInv
<1> SUFFICES ASSUME Deque!Init PROVE DequeInv
  OBVIOUS
<1> DEFINE n == Deque!nextPowerOf2(InitialSize)
<1>1. n \in Nat \ {0}
  BY DequeAssumption
<1>2. arrays = <<Deque!New(n)>>
  BY DEF Deque!Init
<1> HIDE DEF n
<1>3. Deque!New(n) \in [0 .. n - 1 -> Nat]
  BY <1>1 DEF Deque!New, Deque!Garbage
<1>4. Deque!New(n) \in Circular
  BY <1>1, <1>3 DEF Circular
<1>5. DequeTypes
  BY <1>2, <1>4 DEF Deque!Init, DequeTypes, Deque!Garbage
<1>6. Capacity \in Nat
  BY <1>5, ArrayIsCircular
<1>7. Indices
  BY <1>6, DequeAssumption DEF Deque!Init, Indices, End, Bottom, Pushing, Popping
<1>8. Placed
  BY DEF Deque!Init, Placed, Bottom, Popping
<1>9. Thieving
  BY <1>2 DEF Deque!Init, Thieving
<1>10. QED
  BY <1>5, <1>7, <1>8, <1>9 DEF DequeInv

-----------------------------------------------------------------------------

\* A step that leaves the items where they are, and the indices between which they are
LEMMA NothingMoves ==
    ASSUME Placed, UNCHANGED <<arrays, top, Bottom, pushed, taken>>, opc' # "publish",
           top \in Nat
    PROVE  Placed'
<1>1. Places' = Places
  BY SamePlaces
<1>2. \A k \in top .. Bottom - 1 : k \in Nat
  OBVIOUS
<1>3. QED
  BY <1>1, <1>2 DEF Placed

\* A step of the owner that makes no room for thieves
LEMMA ThievesSeeNothing ==
    ASSUME Thieving, UNCHANGED <<arrays, top, thief, ttop, tarray, tresult>>, top \in Nat,
           \A t \in Thieves : ttop[t] = top /\ thief[t] \in {"array", "get", "race"}
               => (top < End => top < End')
    PROVE  Thieving'
<1>1. Places' = Places
  BY SamePlaces
<1>2. QED
  BY <1>1 DEF Thieving

-----------------------------------------------------------------------------
(* The owner's steps                                                       *)

\* The loads of push() (LockFreeWorkQueue.hpp:112-113)
LEMMA PushLoadStep == ASSUME DequeInv, Deque!PushLoad PROVE DequeInv'
<1>1. DequeTypes /\ Indices /\ Placed /\ Thieving
  BY DEF DequeInv
<1>2. DequeTypes'
  BY <1>1 DEF Deque!PushLoad, Deque!OGoto, Deque!thiefVars, DequeTypes, Pushing
<1>3. UNCHANGED <<top, Bottom, End>>
  BY DEF Deque!PushLoad, Deque!OGoto, End, Bottom, Popping
<1>4. Capacity' = Capacity /\ Capacity \in Nat
  BY <1>1, SamePlaces, ArrayIsCircular DEF Deque!PushLoad
<1>5. Indices'
  BY <1>1, <1>3, <1>4 DEF Deque!PushLoad, Deque!OGoto, DequeTypes, Indices, Bottom, End,
     Pushing, Popping
<1>6. Placed'
  BY <1>1, <1>3, NothingMoves DEF Deque!PushLoad, Deque!OGoto, DequeTypes
<1>7. Thieving'
  BY <1>1, <1>3, ThievesSeeNothing DEF Deque!PushLoad, Deque!thiefVars, DequeTypes
<1>8. QED
  BY <1>2, <1>5, <1>6, <1>7 DEF DequeInv

\* An array that is nearly full is replaced (LockFreeWorkQueue.hpp:116-123).
LEMMA PushGrowStep == ASSUME DequeInv, Deque!PushGrow PROVE DequeInv'
<1>1. DequeTypes /\ Indices /\ Placed /\ Thieving
  BY DEF DequeInv
<1>2. /\ Len(arrays) \in Nat \ {0} /\ Deque!Array \in Circular
      /\ \A i \in 1 .. Len(arrays) : arrays[i] \in Circular
      /\ Capacity = Deque!Size(Deque!Array) /\ Capacity \in Nat \ {0}
  BY <1>1, ArrayIsCircular DEF Capacity, Deque!Array
<1>3. /\ opc = "grow" /\ opc' = "put" /\ UNCHANGED Deque!thiefVars
      /\ UNCHANGED <<top, bottom, obottom, otop, pushed, result, taken, Bottom, End>>
  BY DEF Deque!PushGrow, Deque!OGoto, End, Bottom, Popping
<1>4. /\ {top, bottom, obottom, otop} \subseteq Nat /\ obottom = bottom /\ otop <= top
      /\ obottom - otop <= Capacity /\ Bottom = bottom /\ End = bottom
  BY <1>1, <1>3 DEF DequeTypes, Indices, Bottom, End, Pushing, Popping
<1>5. /\ arrays' \in Seq(Circular) /\ Len(arrays') >= Len(arrays)
      /\ \A i \in 1 .. Len(arrays) : arrays'[i] = arrays[i]
      /\ Capacity' \in Nat /\ obottom - otop < Capacity' /\ Capacity <= Capacity'
      /\ \A k \in otop .. obottom - 1 : Places'[k] = Places[k]
  <2>1. CASE obottom - otop >= (Capacity * 3) \div 4
    <3> DEFINE new == Deque!Resize(Deque!Array, obottom, otop)
    <3>1. /\ new \in Circular /\ Deque!Size(new) = 2 * Capacity
          /\ \A k \in otop .. obottom - 1 : Deque!Get(new, k) = Places[k]
      BY <1>2, <1>4, ResizeGet DEF Places
    <3> HIDE DEF new
    <3>2. arrays' = Append(arrays, new)
      BY <1>2, <2>1 DEF Deque!PushGrow, new
    <3>3. /\ arrays' \in Seq(Circular) /\ Len(arrays') = Len(arrays) + 1
          /\ arrays'[Len(arrays')] = new
          /\ \A i \in 1 .. Len(arrays) : arrays'[i] = arrays[i]
      BY <1>1, <3>1, <3>2, AppendProperties DEF DequeTypes
    <3>4. Capacity' = Deque!Size(new) /\ \A k \in Nat : Places'[k] = Deque!Get(new, k)
      BY <3>3 DEF Capacity, Places, Deque!Array, Deque!Size, Deque!Get
    <3>5. QED
      BY <1>2, <1>4, <3>1, <3>3, <3>4
  <2>2. CASE ~(obottom - otop >= (Capacity * 3) \div 4)
    <3>1. arrays' = arrays
      BY <1>2, <2>2 DEF Deque!PushGrow
    <3>2. (Capacity * 3) \div 4 < Capacity
      BY <1>2
    <3>3. Capacity' = Capacity /\ \A k \in Nat : Places'[k] = Places[k]
      BY <3>1, SamePlaces
    <3>4. QED
      BY <1>1, <1>2, <1>4, <2>2, <3>1, <3>2, <3>3 DEF DequeTypes
  <2>3. QED
    BY <2>1, <2>2
<1>6. arrays' # <<>>
  BY <1>2, <1>5
<1>7. DequeTypes'
  BY <1>1, <1>3, <1>5, <1>6 DEF DequeTypes, Deque!thiefVars, Pushing
<1>9. Indices'
  BY <1>1, <1>2, <1>3, <1>4, <1>5 DEF DequeTypes, Indices, Pushing, Popping
<1>10. \A k \in top .. bottom - 1 : Places'[k] = Places[k]
  BY <1>4, <1>5
<1>11. Placed'
  BY <1>1, <1>3, <1>4, <1>10 DEF Placed
<1>12. Thieving'
  <2> SUFFICES ASSUME NEW t \in Thieves
               PROVE  /\ ttop[t]' <= top' /\ tarray[t]' \in 1 .. Len(arrays')
                      /\ ttop[t]' = top' /\ thief[t]' \in {"array", "get", "race"} => top' < End'
                      /\ ttop[t]' = top' /\ thief[t]' = "get" =>
                             Deque!Get(arrays[tarray[t]], top)' = Places'[top']
                      /\ ttop[t]' = top' /\ thief[t]' = "race" => tresult[t]' = Places'[top']
    BY DEF Thieving
  <2>1. /\ tarray[t] \in 1 .. Len(arrays) /\ ttop[t] <= top
        /\ ttop[t] = top /\ thief[t] \in {"array", "get", "race"} => top < End
        /\ ttop[t] = top /\ thief[t] = "get" => Deque!Get(arrays[tarray[t]], top) = Places[top]
        /\ ttop[t] = top /\ thief[t] = "race" => tresult[t] = Places[top]
    BY <1>1 DEF Thieving
  <2>2. top < End => Places'[top] = Places[top]
    <3>1. top \in Nat /\ bottom \in Nat /\ End = bottom
      BY <1>4
    <3>2. QED
      BY <1>10, <3>1
  <2>3. Deque!Get(arrays[tarray[t]], top)' = Deque!Get(arrays[tarray[t]], top)
    BY <1>3, <1>5, <2>1 DEF Deque!thiefVars, Deque!Get, Deque!Size
  <2>4. QED
    BY <1>2, <1>3, <1>5, <2>1, <2>2, <2>3 DEF Deque!thiefVars
<1>13. QED
  BY <1>7, <1>9, <1>11, <1>12 DEF DequeInv

\* The item is put into a place that no item has (LockFreeWorkQueue.hpp:125).
LEMMA PushPutStep == ASSUME DequeInv, Deque!PushPut PROVE DequeInv'
<1>1. DequeTypes /\ Indices /\ Placed /\ Thieving
  BY DEF DequeInv
<1>2. /\ Len(arrays) \in Nat \ {0} /\ Deque!Array \in Circular
      /\ Capacity = Deque!Size(Deque!Array) /\ Capacity \in Nat \ {0}
  BY <1>1, ArrayIsCircular DEF Capacity, Deque!Array
<1>3. /\ opc = "put" /\ opc' = "publish" /\ UNCHANGED Deque!thiefVars
      /\ UNCHANGED <<top, bottom, obottom, otop, pushed, result, taken, Bottom, End>>
  BY DEF Deque!PushPut, Deque!OGoto, End, Bottom, Popping
<1>4. /\ top \in Nat /\ bottom \in Nat /\ otop \in Nat /\ pushed \in Nat
      /\ obottom = bottom /\ otop <= top
      /\ obottom - otop < Capacity /\ Bottom = bottom /\ End = bottom
  BY <1>1, <1>3 DEF DequeTypes, Indices, Bottom, End, Pushing, Popping
<1> DEFINE new == Deque!Put(Deque!Array, obottom, pushed + 1)
<1>5. /\ new \in Circular /\ Deque!Size(new) = Capacity
      /\ Deque!Get(new, obottom) = pushed + 1
      /\ \A k \in top .. obottom - 1 : Deque!Get(new, k) = Places[k]
  <2>1. obottom \in Nat /\ pushed + 1 \in Nat
    BY <1>4
  <2> DEFINE old == Deque!Array
  <2>2. /\ new \in Circular /\ Deque!Size(new) = Deque!Size(old)
        /\ Deque!Get(new, obottom) = pushed + 1
        /\ \A k \in Nat : k # obottom /\ k - obottom < Deque!Size(old)
                          /\ obottom - k < Deque!Size(old)
               => Deque!Get(new, k) = Deque!Get(old, k)
    <3>1. old \in Circular
      BY <1>2
    <3> HIDE DEF old
    <3>2. new = Deque!Put(old, obottom, pushed + 1)
      BY DEF old
    <3> HIDE DEF new
    <3>3. QED
      BY <2>1, <3>1, <3>2, PutGet
  <2>3. \A k \in top .. obottom - 1 :
            k \in Nat /\ k # obottom /\ k - obottom < Capacity /\ obottom - k < Capacity
    BY <1>2, <1>4
  <2>4. \A k \in Nat : Places[k] = Deque!Get(Deque!Array, k)
    BY DEF Places
  <2>5. QED
    BY <1>2, <2>2, <2>3, <2>4
<1> HIDE DEF new
<1>6. arrays' = [arrays EXCEPT ![Len(arrays)] = new]
  BY DEF Deque!PushPut, Deque!PutArray, Deque!Array, new
<1>7. /\ arrays' \in Seq(Circular) /\ Len(arrays') = Len(arrays) /\ arrays' # <<>>
      /\ arrays'[Len(arrays)] = new
      /\ \A i \in 1 .. Len(arrays) : i # Len(arrays) => arrays'[i] = arrays[i]
  BY <1>1, <1>2, <1>5, <1>6 DEF DequeTypes
<1>8. /\ Capacity' = Capacity /\ Places'[obottom] = pushed + 1
      /\ \A k \in Nat : Places'[k] = Deque!Get(new, k)
  BY <1>3, <1>4, <1>5, <1>7 DEF Capacity, Places, Deque!Array, Deque!Size, Deque!Get
<1>9. \A k \in top .. bottom - 1 : Places'[k] = Places[k]
  BY <1>4, <1>5, <1>8
<1>10. DequeTypes'
  BY <1>1, <1>3, <1>7 DEF DequeTypes, Deque!thiefVars, Pushing
<1>11. Indices'
  BY <1>1, <1>2, <1>3, <1>4, <1>8 DEF DequeTypes, Indices, Pushing, Popping
<1>12. Placed'
  <2>1. Places'[obottom] = pushed' + 1
    BY <1>3, <1>8
  <2>2. QED
    BY <1>1, <1>3, <1>4, <1>8, <1>9, <2>1 DEF Placed
<1>13. Thieving'
  <2> SUFFICES ASSUME NEW t \in Thieves
               PROVE  /\ ttop[t]' <= top' /\ tarray[t]' \in 1 .. Len(arrays')
                      /\ ttop[t]' = top' /\ thief[t]' \in {"array", "get", "race"} => top' < End'
                      /\ ttop[t]' = top' /\ thief[t]' = "get" =>
                             Deque!Get(arrays[tarray[t]], top)' = Places'[top']
                      /\ ttop[t]' = top' /\ thief[t]' = "race" => tresult[t]' = Places'[top']
    BY DEF Thieving
  <2>1. /\ tarray[t] \in 1 .. Len(arrays) /\ ttop[t] <= top
        /\ ttop[t] = top /\ thief[t] \in {"array", "get", "race"} => top < End
        /\ ttop[t] = top /\ thief[t] = "get" => Deque!Get(arrays[tarray[t]], top) = Places[top]
        /\ ttop[t] = top /\ thief[t] = "race" => tresult[t] = Places[top]
    BY <1>1 DEF Thieving
  <2>2. top < End => Places'[top] = Places[top]
    BY <1>4, <1>9
  <2>3. tarray[t] # Len(arrays) =>
            Deque!Get(arrays[tarray[t]], top)' = Deque!Get(arrays[tarray[t]], top)
    BY <1>3, <1>7, <2>1 DEF Deque!thiefVars, Deque!Get, Deque!Size
  <2>4. tarray[t] = Len(arrays) => Deque!Get(arrays[tarray[t]], top)' = Places'[top]
    BY <1>3, <1>7 DEF Deque!thiefVars, Places, Deque!Array, Deque!Get
  <2>5. QED
    BY <1>2, <1>3, <1>7, <2>1, <2>2, <2>3, <2>4 DEF Deque!thiefVars
<1>14. QED
  BY <1>10, <1>11, <1>12, <1>13 DEF DequeInv

\* The item in its place belongs to the queue (LockFreeWorkQueue.hpp:126-127).
LEMMA PushPublishStep == ASSUME DequeInv, Deque!PushPublish PROVE DequeInv'
<1>1. DequeTypes /\ Indices /\ Placed /\ Thieving
  BY DEF DequeInv
<1>2. /\ top \in Nat /\ bottom \in Nat /\ otop \in Nat /\ pushed \in Nat /\ opc = "publish"
      /\ obottom = bottom /\ otop <= top /\ top <= bottom /\ bottom <= pushed
      /\ pushed < MaxItems /\ obottom - otop < Capacity /\ Bottom = bottom /\ End = bottom
  BY <1>1 DEF Deque!PushPublish, Deque!OGoto, DequeTypes, Indices, Bottom, End, Pushing,
     Popping
<1>3. bottom' = bottom + 1
  BY <1>2, NoWrap, DequeAssumption DEF Deque!PushPublish
<1>4. /\ opc' = "idle" /\ pushed' = pushed + 1 /\ Bottom' = bottom + 1 /\ End' = bottom + 1
      /\ UNCHANGED <<top, arrays, obottom, otop, result, taken, Deque!thiefVars>>
  BY <1>3 DEF Deque!PushPublish, Deque!OGoto, Bottom, End, Popping
<1>5. /\ Capacity' = Capacity /\ Capacity \in Nat /\ Places \in [Nat -> Nat]
      /\ Places' = Places
  BY <1>1, <1>4, SamePlaces, ArrayIsCircular
<1>6. DequeTypes'
  BY <1>1, <1>2, <1>3, <1>4 DEF DequeTypes, Deque!thiefVars
<1>7. Indices'
  BY <1>2, <1>3, <1>4, <1>5, DequeAssumption DEF Indices, Pushing, Popping
<1>8. Placed'
  <2>1. Places[bottom] = pushed + 1
    BY <1>1, <1>2 DEF Placed
  <2>2. \A k \in top' .. Bottom' - 1 : k \in top .. bottom - 1 \/ k = bottom
    BY <1>2, <1>4
  <2>3. \A k \in top .. bottom - 1 :
            /\ k \in Nat /\ k # bottom /\ Places'[k] = Places[k]
            /\ Places[k] \in 1 .. pushed
            /\ \A n \in DOMAIN taken : taken[n] # Places[k]
            /\ \A j \in top .. bottom - 1 : Places[j] = Places[k] => j = k
    BY <1>1, <1>2, <1>5 DEF Placed
  <2>4. Places'[bottom] = pushed + 1
    BY <1>2, <1>5, <2>1
  <2>5. \A n \in DOMAIN taken' :
            /\ taken'[n] \in 1 .. pushed /\ taken'[n] # pushed + 1
            /\ \A m \in DOMAIN taken' : taken'[m] = taken'[n] => m = n
    BY <1>1, <1>2, <1>4 DEF Placed
  <2>6. \A k \in top' .. Bottom' - 1 :
            /\ Places'[k] \in 1 .. pushed'
            /\ \A n \in DOMAIN taken' : taken'[n] # Places'[k]
            /\ \A j \in top' .. Bottom' - 1 : Places'[j] = Places'[k] => j = k
    BY <1>2, <1>4, <2>2, <2>3, <2>4, <2>5
  <2>7. ASSUME NEW i \in 1 .. pushed'
        PROVE  \/ \E n \in DOMAIN taken' : taken'[n] = i
               \/ \E k \in top' .. Bottom' - 1 : Places'[k] = i
    <3>1. CASE i = pushed + 1
      <4>1. bottom \in top' .. Bottom' - 1
        BY <1>2, <1>4
      <4>2. QED
        BY <2>4, <3>1, <4>1
    <3>2. CASE i # pushed + 1
      <4>1. i \in 1 .. pushed
        BY <1>2, <1>4, <3>2
      <4>2. \/ \E n \in DOMAIN taken : taken[n] = i
            \/ \E k \in top .. bottom - 1 : Places[k] = i
        BY <1>1, <1>2, <4>1 DEF Placed
      <4>3. \A k \in top .. bottom - 1 : k \in top' .. Bottom' - 1
        BY <1>2, <1>4
      <4>4. QED
        BY <1>4, <2>3, <4>2, <4>3
    <3>3. QED
      BY <3>1, <3>2
  <2>8. \A n \in DOMAIN taken' : taken'[n] \in 1 .. pushed'
    BY <1>2, <1>4, <2>5
  <2>9. QED
    BY <1>4, <2>5, <2>6, <2>7, <2>8 DEF Placed
<1>9. Thieving'
  BY <1>1, <1>2, <1>4, ThievesSeeNothing DEF Deque!thiefVars
<1>10. QED
  BY <1>6, <1>7, <1>8, <1>9 DEF DequeInv

-----------------------------------------------------------------------------

\* An item that leaves the queue at either end has been taken once.
LEMMA TakeOne ==
    ASSUME DequeTypes, Placed, Places' = Places, pushed' = pushed,
           opc' = "publish" => Places'[obottom'] = pushed' + 1,
           top' \in Nat, Bottom \in Nat, Bottom' \in Nat,
           NEW k \in top .. Bottom - 1, taken' = Append(taken, Places[k]),
           \A j \in Nat : j \in top' .. Bottom' - 1 <=> j \in top .. Bottom - 1 /\ j # k
    PROVE  Placed'
<1>0. \A j \in top' .. Bottom' - 1 : j \in Nat
  OBVIOUS
<1>1. /\ top \in Nat /\ pushed \in Nat /\ taken \in Seq(Nat)
      /\ \A j \in top .. Bottom - 1 : j \in Nat
  BY DEF DequeTypes
<1>2. \A j \in top .. Bottom - 1 :
            /\ Places[j] \in 1 .. pushed
            /\ \A n \in DOMAIN taken : taken[n] # Places[j]
            /\ \A i \in top .. Bottom - 1 : Places[i] = Places[j] => i = j
  BY DEF Placed
<1>3. /\ Len(taken) \in Nat /\ DOMAIN taken = 1 .. Len(taken)
      /\ DOMAIN taken' = 1 .. Len(taken) + 1 /\ taken'[Len(taken) + 1] = Places[k]
      /\ \A n \in DOMAIN taken : taken'[n] = taken[n]
  BY <1>1, <1>2, AppendProperties
<1>4. \A n \in DOMAIN taken' : n \in DOMAIN taken \/ n = Len(taken) + 1
  BY <1>3
<1>5. \A j \in top' .. Bottom' - 1 : j \in top .. Bottom - 1 /\ j # k
  BY <1>0
<1>6. ASSUME NEW j \in top' .. Bottom' - 1
      PROVE  /\ Places'[j] \in 1 .. pushed'
             /\ \A n \in DOMAIN taken' : taken'[n] # Places'[j]
             /\ \A i \in top' .. Bottom' - 1 : Places'[i] = Places'[j] => i = j
  <2>1. j \in top .. Bottom - 1 /\ j # k
    BY <1>5
  <2>2. Places[j] # Places[k]
    BY <1>2, <2>1
  <2>3. ASSUME NEW n \in DOMAIN taken' PROVE taken'[n] # Places[j]
    BY <1>2, <1>3, <1>4, <2>1, <2>2
  <2>4. ASSUME NEW i \in top' .. Bottom' - 1, Places[i] = Places[j] PROVE i = j
    BY <1>2, <1>5, <2>1, <2>4
  <2>5. QED
    BY <1>2, <2>1, <2>3, <2>4
<1>7. \A n \in DOMAIN taken :
            /\ taken[n] \in 1 .. pushed /\ taken[n] # Places[k]
            /\ \A m \in DOMAIN taken : taken[m] = taken[n] => m = n
  BY <1>2 DEF Placed
<1>8. \A n \in DOMAIN taken' :
            /\ taken'[n] \in 1 .. pushed'
            /\ \A m \in DOMAIN taken' : taken'[m] = taken'[n] => m = n
  BY <1>2, <1>3, <1>4, <1>7
<1>9. ASSUME NEW i \in 1 .. pushed'
      PROVE  \/ \E n \in DOMAIN taken' : taken'[n] = i
             \/ \E j \in top' .. Bottom' - 1 : Places'[j] = i
  <2>1. \/ \E n \in DOMAIN taken : taken[n] = i
        \/ \E j \in top .. Bottom - 1 : Places[j] = i
    BY DEF Placed
  <2>2. CASE \E n \in DOMAIN taken : taken[n] = i
    <3>1. \A n \in DOMAIN taken : n \in DOMAIN taken'
      BY <1>3
    <3>2. QED
      BY <1>3, <2>2, <3>1
  <2>3. CASE \E j \in top .. Bottom - 1 : Places[j] = i
    <3>1. PICK j \in top .. Bottom - 1 : Places[j] = i
      BY <2>3
    <3>2. CASE j = k
      <4>1. Len(taken) + 1 \in DOMAIN taken'
        BY <1>3
      <4>2. QED
        BY <1>3, <3>1, <3>2, <4>1
    <3>3. CASE j # k
      <4>1. j \in top' .. Bottom' - 1
        BY <1>1, <3>3
      <4>2. QED
        BY <3>1, <4>1
    <3>4. QED
      BY <3>2, <3>3
  <2>4. QED
    BY <2>1, <2>2, <2>3
<1>10. QED
  BY <1>6, <1>8, <1>9 DEF Placed

\* pop() makes its claim before it looks at the thieves' end
\* (LockFreeWorkQueue.hpp:141-143).
LEMMA PopReserveStep == ASSUME DequeInv, ~PopFresh, Deque!PopReserve PROVE DequeInv'
<1>1. DequeTypes /\ Indices /\ Placed /\ Thieving
  BY DEF DequeInv
<1>2. /\ opc = "idle" /\ opc' = "top" /\ pushed > 0 /\ bottom > 0
      /\ Bottom = bottom /\ End = bottom /\ bottom \in Nat /\ bottom <= MaxItems
  BY <1>1, DequeAssumption DEF Deque!PopReserve, Deque!OGoto, DequeTypes, Indices, Bottom,
     End, Popping
<1>3. obottom' = bottom - 1 /\ bottom' = bottom - 1
  BY <1>2, NoWrap DEF Deque!PopReserve
<1>4. /\ UNCHANGED <<top, arrays, otop, pushed, result, taken, Deque!thiefVars>>
      /\ UNCHANGED <<Bottom, End>>
  BY <1>2, <1>3 DEF Deque!PopReserve, Bottom, End, Popping
<1>5. Capacity' = Capacity /\ Capacity \in Nat /\ Places' = Places
  BY <1>1, <1>4, SamePlaces, ArrayIsCircular
<1>6. DequeTypes'
  BY <1>1, <1>2, <1>3, <1>4 DEF DequeTypes, Deque!thiefVars, Popping
<1>7. Indices'
  BY <1>1, <1>2, <1>3, <1>4, <1>5 DEF DequeTypes, Indices, Pushing, Popping
<1>8. Placed'
  BY <1>1, <1>2, <1>4, NothingMoves DEF DequeTypes
<1>9. Thieving'
  BY <1>1, <1>4, ThievesSeeNothing DEF Deque!thiefVars, DequeTypes
<1>10. QED
  BY <1>6, <1>7, <1>8, <1>9 DEF DequeInv

\* It finds items, of which it may take the last without a race if there are more,
\* or none (LockFreeWorkQueue.hpp:146-148).
LEMMA PopTopStep == ASSUME DequeInv, Deque!PopTop PROVE DequeInv'
<1>1. DequeTypes /\ Indices /\ Placed /\ Thieving
  BY DEF DequeInv
<1>2. /\ opc = "top" /\ opc' = (IF top <= obottom THEN "get" ELSE "restore") /\ otop' = top
      /\ UNCHANGED <<top, bottom, arrays, obottom, pushed, result, taken, Deque!thiefVars>>
  BY DEF Deque!PopTop, Deque!OGoto
<1>3. /\ top \in Nat /\ obottom \in Nat /\ bottom = obottom
      /\ Bottom = obottom + 1 /\ End = obottom + 1 /\ Bottom' = obottom + 1
      /\ End' = (IF top < obottom THEN obottom ELSE obottom + 1)
      /\ top <= obottom + 1
  BY <1>1, <1>2 DEF DequeTypes, Indices, Bottom, End, Popping
<1>4. Capacity' = Capacity /\ Capacity \in Nat /\ Places' = Places
  BY <1>1, <1>2, SamePlaces, ArrayIsCircular
<1>5. DequeTypes'
  BY <1>1, <1>2 DEF DequeTypes, Deque!thiefVars, Popping
<1>6. Indices'
  BY <1>1, <1>2, <1>3, <1>4 DEF DequeTypes, Indices, Pushing, Popping
<1>7. Placed'
  BY <1>1, <1>2, <1>3, NothingMoves
<1>8. Thieving'
  BY <1>1, <1>2, <1>3, ThievesSeeNothing DEF Deque!thiefVars
<1>9. QED
  BY <1>5, <1>6, <1>7, <1>8 DEF DequeInv

\* One item of several is the owner's (LockFreeWorkQueue.hpp:151-165).
LEMMA PopGetStep == ASSUME DequeInv, Deque!PopGet PROVE DequeInv'
<1>1. DequeTypes /\ Indices /\ Placed /\ Thieving
  BY DEF DequeInv
<1>2. /\ opc = "get" /\ UNCHANGED <<top, bottom, arrays, obottom, otop, pushed, Deque!thiefVars>>
      /\ top \in Nat /\ obottom \in Nat /\ otop \in Nat /\ pushed \in Nat /\ bottom = obottom
      /\ otop <= top /\ otop <= obottom /\ Bottom = obottom + 1 /\ top <= End
      /\ End = (IF otop < obottom THEN obottom ELSE obottom + 1)
      /\ pushed > 0 /\ Bottom <= pushed /\ pushed <= MaxItems
  BY <1>1 DEF Deque!PopGet, Deque!thiefVars, DequeTypes, Indices, Bottom, End, Popping
<1>3. Capacity' = Capacity /\ Capacity \in Nat /\ Places' = Places /\ Places \in [Nat -> Nat]
  BY <1>1, <1>2, SamePlaces, ArrayIsCircular
<1>4. result' = Places[obottom] /\ result' \in Nat
  BY <1>2, <1>3 DEF Deque!PopGet, Places
<1>5. CASE otop = obottom
  <2>1. opc' = "race" /\ taken' = taken /\ Bottom' = Bottom /\ End' = End
    BY <1>2, <1>5 DEF Deque!PopGet, Bottom, End, Popping
  <2>2. DequeTypes'
    BY <1>1, <1>2, <1>4, <2>1 DEF DequeTypes, Deque!thiefVars, Popping
  <2>3. top = otop => result' = Places'[top]
    BY <1>3, <1>4, <1>5
  <2>4. Indices'
    BY <1>1, <1>2, <1>3, <1>5, <2>1, <2>3 DEF Indices, Pushing, Popping
  <2>5. Placed'
    BY <1>1, <1>2, <2>1, NothingMoves
  <2>6. Thieving'
    BY <1>1, <1>2, <2>1, ThievesSeeNothing DEF Deque!thiefVars
  <2>7. QED
    BY <2>2, <2>4, <2>5, <2>6 DEF DequeInv
<1>6. CASE otop # obottom
  <2>1. /\ opc' = "idle" /\ taken' = Append(taken, Places[obottom])
        /\ Bottom' = obottom /\ End' = obottom /\ End = obottom
    BY <1>2, <1>4, <1>6 DEF Deque!PopGet, Bottom, End, Popping
  <2>2. DequeTypes'
    <3>1. taken' \in Seq(Nat)
      BY <1>1, <1>2, <1>3, <2>1, AppendProperties DEF DequeTypes
    <3>2. QED
      BY <1>1, <1>2, <1>4, <2>1, <3>1 DEF DequeTypes, Deque!thiefVars
  <2>3. Indices'
    BY <1>1, <1>2, <1>3, <1>6, <2>1 DEF Indices, Pushing, Popping
  <2>4. /\ obottom \in top .. Bottom - 1
        /\ \A j \in Nat : j \in top' .. Bottom' - 1 <=> j \in top .. Bottom - 1 /\ j # obottom
    BY <1>2, <1>6, <2>1
  <2>5. /\ top' \in Nat /\ Bottom \in Nat /\ Bottom' \in Nat /\ pushed' = pushed
        /\ opc' = "publish" => Places'[obottom'] = pushed' + 1
    BY <1>2, <2>1
  <2>6. Placed'
    BY <1>1, <1>3, <2>1, <2>4, <2>5, TakeOne, Zenon
  <2>7. Thieving'
    BY <1>1, <1>2, <2>1, ThievesSeeNothing DEF Deque!thiefVars
  <2>8. QED
    BY <2>2, <2>3, <2>6, <2>7 DEF DequeInv
<1>7. QED
  BY <1>5, <1>6

\* The last item goes to whoever moves the top (LockFreeWorkQueue.hpp:153-163).
LEMMA PopRaceStep == ASSUME DequeInv, Deque!PopRace PROVE DequeInv'
<1>1. DequeTypes /\ Indices /\ Placed /\ Thieving
  BY DEF DequeInv
<1>2. /\ opc = "race" /\ opc' = "restore"
      /\ UNCHANGED <<bottom, arrays, obottom, otop, pushed, result, Deque!thiefVars>>
      /\ top \in Nat /\ obottom \in Nat /\ pushed \in Nat /\ bottom = obottom
      /\ otop = obottom /\ otop <= top /\ top <= obottom + 1
      /\ Bottom = obottom + 1 /\ End = obottom + 1 /\ Bottom' = obottom + 1
      /\ End' = obottom + 1 /\ pushed <= MaxItems /\ Bottom <= pushed /\ pushed > 0
      /\ top = otop => result = Places[top]
  BY <1>1 DEF Deque!PopRace, Deque!OGoto, DequeTypes, Indices, Bottom, End, Popping
<1>3. Capacity' = Capacity /\ Capacity \in Nat /\ Places' = Places /\ Places \in [Nat -> Nat]
  BY <1>1, <1>2, SamePlaces, ArrayIsCircular
<1>4. CASE top = otop
  <2>1. top' = top + 1 /\ taken' = Append(taken, Places[top]) /\ top' = obottom + 1
    BY <1>2, <1>4, NoWrap, DequeAssumption DEF Deque!PopRace
  <2>2. DequeTypes'
    <3>1. taken' \in Seq(Nat)
      BY <1>1, <1>2, <1>3, <2>1, AppendProperties DEF DequeTypes
    <3>2. top' \in Nat
      BY <1>2, <2>1
    <3>3. QED
      BY <1>1, <1>2, <3>1, <3>2 DEF DequeTypes, Deque!thiefVars, Popping
  <2>3. Indices'
    BY <1>1, <1>2, <1>3, <1>4, <2>1 DEF Indices, Pushing, Popping
  <2>4. /\ top \in top .. Bottom - 1
        /\ \A j \in Nat : j \in top' .. Bottom' - 1 <=> j \in top .. Bottom - 1 /\ j # top
    BY <1>2, <1>4, <2>1
  <2>5. /\ top' \in Nat /\ Bottom \in Nat /\ Bottom' \in Nat /\ pushed' = pushed
        /\ opc' = "publish" => Places'[obottom'] = pushed' + 1
    BY <1>2, <2>1
  <2>6. Placed'
    BY <1>1, <1>3, <2>1, <2>4, <2>5, TakeOne, Zenon
  <2>7. \A t \in Thieves : ttop'[t] \in Nat /\ ttop'[t] <= top /\ tarray'[t] \in 1 .. Len(arrays)
    BY <1>1, <1>2 DEF Thieving, DequeTypes, Deque!thiefVars
  <2>8. Thieving'
    BY <1>2, <2>1, <2>7 DEF Thieving
  <2>9. QED
    BY <2>2, <2>3, <2>6, <2>8 DEF DequeInv
<1>5. CASE top # otop
  <2>1. top' = top /\ taken' = taken /\ top = obottom + 1
    BY <1>2, <1>5 DEF Deque!PopRace
  <2>2. DequeTypes'
    BY <1>1, <1>2, <2>1 DEF DequeTypes, Deque!thiefVars, Popping
  <2>3. Indices'
    BY <1>1, <1>2, <1>3, <2>1 DEF Indices, Pushing, Popping
  <2>4. Placed'
    BY <1>1, <1>2, <2>1, NothingMoves
  <2>5. Thieving'
    BY <1>1, <1>2, <2>1, ThievesSeeNothing DEF Deque!thiefVars
  <2>6. QED
    BY <2>2, <2>3, <2>4, <2>5 DEF DequeInv
<1>6. QED
  BY <1>4, <1>5

\* pop() takes its claim back (LockFreeWorkQueue.hpp:160-170).
LEMMA PopRestoreStep == ASSUME DequeInv, Deque!PopRestore PROVE DequeInv'
<1>1. DequeTypes /\ Indices /\ Placed /\ Thieving
  BY DEF DequeInv
<1>2. /\ opc = "restore" /\ opc' = "idle" /\ Bottom = obottom + 1 /\ End = obottom + 1
      /\ UNCHANGED <<top, arrays, obottom, otop, pushed, result, taken, Deque!thiefVars>>
      /\ top \in Nat /\ obottom \in Nat /\ obottom + 1 <= MaxItems
  BY <1>1, DequeAssumption DEF Deque!PopRestore, Deque!OGoto, DequeTypes, Indices, Bottom,
     End, Popping
<1>3. bottom' = obottom + 1
  <2>1. obottom <= MaxItems
    BY <1>2, DequeAssumption
  <2>2. QED
    BY <1>2, <2>1, NoWrap DEF Deque!PopRestore
<1>4. UNCHANGED <<Bottom, End>>
  BY <1>2, <1>3 DEF Bottom, End, Popping
<1>5. Capacity' = Capacity /\ Capacity \in Nat
  BY <1>1, <1>2, SamePlaces, ArrayIsCircular
<1>6. DequeTypes'
  BY <1>1, <1>2, <1>3 DEF DequeTypes, Deque!thiefVars
<1>7. Indices'
  BY <1>1, <1>2, <1>3, <1>4, <1>5 DEF DequeTypes, Indices, Pushing, Popping
<1>8. Placed'
  BY <1>1, <1>2, <1>4, NothingMoves
<1>9. Thieving'
  BY <1>1, <1>2, <1>4, ThievesSeeNothing DEF Deque!thiefVars
<1>10. QED
  BY <1>6, <1>7, <1>8, <1>9 DEF DequeInv

-----------------------------------------------------------------------------
(* The thieves' steps                                                      *)

\* A thief's step that takes nothing leaves the queue as it is.
LEMMA ThiefLooks ==
    ASSUME DequeTypes, Indices, Placed,
           UNCHANGED <<top, bottom, arrays, Deque!ownerVars, taken>>
    PROVE  /\ Indices' /\ Placed' /\ Places' = Places /\ End' = End
<1>1. /\ UNCHANGED <<opc, obottom, otop, pushed, result, top, bottom, arrays, taken>>
      /\ UNCHANGED <<Bottom, End>>
  BY DEF Deque!ownerVars, Bottom, End
<1>2. Capacity' = Capacity /\ Places' = Places
  BY <1>1, SamePlaces
<1>3. Indices'
  BY <1>1, <1>2 DEF Indices
<1>4. Placed'
  BY <1>1, <1>2 DEF Placed
<1>5. QED
  BY <1>1, <1>2, <1>3, <1>4

\* steal() loads the top (LockFreeWorkQueue.hpp:178).
LEMMA StealTopStep ==
    ASSUME DequeInv, NEW t \in Thieves, Deque!StealTop(t) PROVE DequeInv'
<1>1. DequeTypes /\ Indices /\ Placed /\ Thieving
  BY DEF DequeInv
<1>2. /\ thief' = [thief EXCEPT ![t] = "bottom"] /\ ttop' = [ttop EXCEPT ![t] = top]
      /\ UNCHANGED <<top, bottom, arrays, Deque!ownerVars, tarray, tresult, taken>>
  BY DEF Deque!StealTop, Deque!TGoto
<1>3. /\ Indices' /\ Placed' /\ Places' = Places /\ End' = End
  BY <1>1, <1>2, ThiefLooks
<1>4. DequeTypes'
  BY <1>1, <1>2 DEF DequeTypes, Deque!ownerVars
<1>5. Thieving'
  BY <1>1, <1>2, <1>3 DEF Thieving, DequeTypes
<1>6. QED
  BY <1>3, <1>4, <1>5 DEF DequeInv

\* steal() finds an item, or none (LockFreeWorkQueue.hpp:180-182).
LEMMA StealBottomStep ==
    ASSUME DequeInv, NEW t \in Thieves, Deque!StealBottom(t) PROVE DequeInv'
<1>1. DequeTypes /\ Indices /\ Placed /\ Thieving
  BY DEF DequeInv
<1>2. /\ thief' = [thief EXCEPT ![t] = IF ttop[t] < bottom THEN "array" ELSE "idle"]
      /\ UNCHANGED <<top, bottom, arrays, Deque!ownerVars, ttop, tarray, tresult, taken>>
  BY DEF Deque!StealBottom, Deque!TGoto
<1>3. /\ Indices' /\ Placed' /\ Places' = Places /\ End' = End
  BY <1>1, <1>2, ThiefLooks
<1>4. DequeTypes'
  BY <1>1, <1>2 DEF DequeTypes, Deque!ownerVars
<1>5. bottom <= End
  BY <1>1 DEF DequeTypes, Indices, End, Bottom, Popping
<1>6. ASSUME ttop[t] = top, ttop[t] < bottom PROVE top < End
  <2>1. top \in Nat /\ bottom \in Nat /\ obottom \in Nat /\ End \in Nat
    BY <1>1 DEF DequeTypes, End, Bottom
  <2>2. QED
    BY <1>5, <1>6, <2>1
<1>7. Thieving'
  BY <1>1, <1>2, <1>3, <1>6 DEF Thieving, DequeTypes
<1>8. QED
  BY <1>3, <1>4, <1>7 DEF DequeInv

\* steal() loads the array that is in use by then (LockFreeWorkQueue.hpp:184).
LEMMA StealArrayStep ==
    ASSUME DequeInv, NEW t \in Thieves, Deque!StealArray(t) PROVE DequeInv'
<1>1. DequeTypes /\ Indices /\ Placed /\ Thieving
  BY DEF DequeInv
<1>2. /\ thief[t] = "array" /\ thief' = [thief EXCEPT ![t] = "get"]
      /\ tarray' = [tarray EXCEPT ![t] = Len(arrays)]
      /\ UNCHANGED <<top, bottom, arrays, Deque!ownerVars, ttop, tresult, taken>>
  BY DEF Deque!StealArray, Deque!TGoto
<1>3. /\ Indices' /\ Placed' /\ Places' = Places /\ End' = End
  BY <1>1, <1>2, ThiefLooks
<1>4. Len(arrays) \in Nat \ {0}
  BY <1>1, ArrayIsCircular
<1>5. DequeTypes'
  BY <1>1, <1>2, <1>4 DEF DequeTypes, Deque!ownerVars
<1>6. Deque!Get(arrays[Len(arrays)], top) = Places[top]
  BY <1>1 DEF Places, Deque!Array, DequeTypes
<1>7. Thieving'
  <2> DEFINE Found(i) == Deque!Get(arrays[i], top)
  <2>1. ASSUME NEW i \in Nat PROVE Deque!Get(arrays[i], top)' = Found(i)
    BY <1>2 DEF Deque!Get, Deque!Size
  <2> SUFFICES ASSUME NEW u \in Thieves
               PROVE  /\ ttop'[u] <= top' /\ tarray'[u] \in 1 .. Len(arrays')
                      /\ ttop'[u] = top' /\ thief'[u] \in {"array", "get", "race"} => top' < End'
                      /\ ttop'[u] = top' /\ thief'[u] = "get" =>
                             Deque!Get(arrays[tarray[u]], top)' = Places'[top']
                      /\ ttop'[u] = top' /\ thief'[u] = "race" => tresult'[u] = Places'[top']
    BY DEF Thieving
  <2>2. /\ ttop[u] <= top /\ tarray[u] \in 1 .. Len(arrays)
        /\ ttop[u] = top /\ thief[u] \in {"array", "get", "race"} => top < End
        /\ ttop[u] = top /\ thief[u] = "get" => Deque!Get(arrays[tarray[u]], top) = Places[top]
        /\ ttop[u] = top /\ thief[u] = "race" => tresult[u] = Places[top]
    BY <1>1 DEF Thieving
  <2>3. tarray'[u] = (IF u = t THEN Len(arrays) ELSE tarray[u])
        /\ thief'[u] = (IF u = t THEN "get" ELSE thief[u])
    BY <1>1, <1>2 DEF DequeTypes
  <2>4. Deque!Get(arrays[tarray[u]], top)' =
            Deque!Get(arrays[IF u = t THEN Len(arrays) ELSE tarray[u]], top)
    BY <1>2, <2>3 DEF Deque!Get, Deque!Size
  <2>5. QED
    BY <1>2, <1>3, <1>4, <1>6, <2>2, <2>3, <2>4
<1>8. QED
  BY <1>3, <1>5, <1>7 DEF DequeInv

\* steal() reads the item at its top from its array (LockFreeWorkQueue.hpp:185).
LEMMA StealGetStep ==
    ASSUME DequeInv, NEW t \in Thieves, Deque!StealGet(t) PROVE DequeInv'
<1>1. DequeTypes /\ Indices /\ Placed /\ Thieving
  BY DEF DequeInv
<1>2. /\ thief[t] = "get" /\ thief' = [thief EXCEPT ![t] = "race"]
      /\ tresult' = [tresult EXCEPT ![t] = Deque!Get(arrays[tarray[t]], ttop[t])]
      /\ UNCHANGED <<top, bottom, arrays, Deque!ownerVars, ttop, tarray, taken>>
  BY DEF Deque!StealGet, Deque!TGoto
<1>3. /\ Indices' /\ Placed' /\ Places' = Places /\ End' = End
  BY <1>1, <1>2, ThiefLooks
<1>4. Deque!Get(arrays[tarray[t]], ttop[t]) \in Nat
  <2>1. arrays[tarray[t]] \in Circular /\ ttop[t] \in Nat
    BY <1>1 DEF DequeTypes, Thieving
  <2>2. QED
    BY <2>1, CircularGet
<1>5. DequeTypes'
  BY <1>1, <1>2, <1>4 DEF DequeTypes, Deque!ownerVars
<1>6. Thieving'
  <2> SUFFICES ASSUME NEW u \in Thieves
               PROVE  /\ ttop'[u] <= top' /\ tarray'[u] \in 1 .. Len(arrays')
                      /\ ttop'[u] = top' /\ thief'[u] \in {"array", "get", "race"} => top' < End'
                      /\ ttop'[u] = top' /\ thief'[u] = "get" =>
                             Deque!Get(arrays[tarray[u]], top)' = Places'[top']
                      /\ ttop'[u] = top' /\ thief'[u] = "race" => tresult'[u] = Places'[top']
    BY DEF Thieving
  <2>1. /\ ttop[u] <= top /\ tarray[u] \in 1 .. Len(arrays)
        /\ ttop[u] = top /\ thief[u] \in {"array", "get", "race"} => top < End
        /\ ttop[u] = top /\ thief[u] = "get" => Deque!Get(arrays[tarray[u]], top) = Places[top]
        /\ ttop[u] = top /\ thief[u] = "race" => tresult[u] = Places[top]
    BY <1>1 DEF Thieving
  <2>2. /\ u # t => tresult'[u] = tresult[u] /\ thief'[u] = thief[u]
        /\ tresult'[t] = Deque!Get(arrays[tarray[t]], ttop[t]) /\ thief'[t] = "race"
    BY <1>1, <1>2 DEF DequeTypes
  <2>3. Deque!Get(arrays[tarray[u]], top)' = Deque!Get(arrays[tarray[u]], top)
    BY <1>2 DEF Deque!Get, Deque!Size
  <2>4. QED
    BY <1>2, <1>3, <2>1, <2>2, <2>3
<1>7. QED
  BY <1>3, <1>5, <1>6 DEF DequeInv

\* The item goes to whoever moves the top (LockFreeWorkQueue.hpp:187-192).
LEMMA StealRaceStep ==
    ASSUME DequeInv, NEW t \in Thieves, Deque!StealRace(t) PROVE DequeInv'
<1>1. DequeTypes /\ Indices /\ Placed /\ Thieving
  BY DEF DequeInv
<1>2. /\ thief[t] = "race" /\ thief' = [thief EXCEPT ![t] = "idle"]
      /\ UNCHANGED <<bottom, arrays, Deque!ownerVars, ttop, tarray, tresult>>
      /\ top \in Nat /\ ttop[t] \in Nat
  BY <1>1 DEF Deque!StealRace, Deque!TGoto, DequeTypes
<1>3. CASE top # ttop[t]
  <2>1. UNCHANGED <<top, taken>>
    BY <1>3 DEF Deque!StealRace
  <2>2. /\ Indices' /\ Placed' /\ Places' = Places /\ End' = End
    BY <1>1, <1>2, <2>1, ThiefLooks
  <2>3. DequeTypes'
    BY <1>1, <1>2, <2>1 DEF DequeTypes, Deque!ownerVars
  <2>4. Thieving'
    <3>1. ASSUME NEW u \in Thieves
          PROVE  Deque!Get(arrays[tarray[u]], top)' = Deque!Get(arrays[tarray[u]], top)
      BY <1>2, <2>1 DEF Deque!Get, Deque!Size
    <3>2. QED
      BY <1>1, <1>2, <2>1, <2>2, <3>1 DEF Thieving, DequeTypes
  <2>5. QED
    BY <2>2, <2>3, <2>4 DEF DequeInv
<1>4. CASE top = ttop[t]
  <2>1. tresult[t] = Places[top] /\ top < End
    BY <1>1, <1>2, <1>4 DEF Thieving
  <2>2. /\ UNCHANGED <<opc, bottom, arrays, obottom, otop, pushed, result, Bottom, End>>
        /\ bottom \in Nat /\ Bottom \in Nat /\ End \in Nat /\ End <= Bottom /\ Bottom <= MaxItems
        /\ MaxItems \in Nat /\ pushed \in Nat
    BY <1>1, <1>2, DequeAssumption DEF Deque!ownerVars, Bottom, End, DequeTypes, Indices
  <2>3. top' = top + 1 /\ taken' = Append(taken, Places[top])
    <3>1. top <= MaxItems
      BY <1>2, <2>1, <2>2
    <3>2. QED
      BY <1>2, <1>4, <2>1, <3>1, NoWrap DEF Deque!StealRace
  <2>4. Capacity' = Capacity /\ Capacity \in Nat /\ Places' = Places /\ Places \in [Nat -> Nat]
    BY <1>1, <2>2, SamePlaces, ArrayIsCircular
  <2>5. DequeTypes'
    <3>1. taken' \in Seq(Nat)
      BY <1>1, <1>2, <2>3, <2>4, AppendProperties DEF DequeTypes
    <3>2. top' \in Nat
      BY <1>2, <2>3
    <3>3. QED
      BY <1>1, <1>2, <2>2, <3>1, <3>2 DEF DequeTypes
  <2>6. Indices'
    <3>1. otop \in Nat /\ obottom \in Nat
      BY <1>1 DEF DequeTypes
    <3>2. opc = "restore" => top = obottom + 1 /\ End = obottom + 1
      BY <1>1 DEF Indices, End, Bottom, Popping
    <3>3. opc = "get" \/ opc = "race" \/ opc \in Pushing => otop <= top
      BY <1>1 DEF Indices
    <3>4. /\ top' <= End' /\ Bottom' - top' <= Capacity'
          /\ opc \in Pushing => otop' <= top'
          /\ opc \in {"get", "race"} => otop' <= top'
          /\ opc = "race" => top' # otop'
          /\ opc # "restore"
      <4>1. Bottom - top <= Capacity
        BY <1>1 DEF Indices
      <4>2. top' <= End' /\ Bottom' - top' <= Capacity' /\ opc # "restore"
        BY <1>2, <2>1, <2>2, <2>3, <2>4, <3>1, <3>2, <4>1
      <4>3. /\ opc \in Pushing => otop <= top /\ otop' = otop
            /\ opc \in {"get", "race"} => otop <= top /\ otop' = otop
            /\ top' = top + 1
        BY <2>2, <2>3, <3>3
      <4>4. QED
        BY <1>2, <3>1, <4>2, <4>3
    <3>5. QED
      BY <1>1, <2>2, <2>4, <3>4 DEF Indices
  <2>7. /\ top \in top .. Bottom - 1
        /\ \A j \in Nat : j \in top' .. Bottom' - 1 <=> j \in top .. Bottom - 1 /\ j # top
    BY <1>2, <2>1, <2>2, <2>3
  <2>8. Placed'
    <3>1. top' \in Nat /\ Bottom' \in Nat /\ pushed' = pushed
      BY <1>2, <2>2, <2>3
    <3>2. opc' = "publish" => Places'[obottom'] = pushed' + 1
      BY <1>1, <2>2, <2>4 DEF Placed
    <3>3. QED
      BY <1>1, <2>2, <2>3, <2>4, <2>7, <3>1, <3>2, TakeOne, Zenon
  <2>9. Thieving'
    <3>1. \A u \in Thieves : ttop[u] \in Nat /\ ttop[u] <= top /\ tarray[u] \in 1 .. Len(arrays)
      BY <1>1 DEF Thieving, DequeTypes
    <3>2. QED
      BY <1>2, <2>2, <2>3, <3>1 DEF Thieving
  <2>10. QED
    BY <2>5, <2>6, <2>8, <2>9 DEF DequeInv
<1>5. QED
  BY <1>3, <1>4

\* No step of the owner or of a thief loses an item or gives it to two of them.
LEMMA DequeStep == ASSUME DequeInv, ~PopFresh, Deque!Next PROVE DequeInv'
<1>1. CASE Deque!Owner
  BY <1>1, PushLoadStep, PushGrowStep, PushPutStep, PushPublishStep, PopReserveStep,
     PopTopStep, PopGetStep, PopRaceStep, PopRestoreStep DEF Deque!Owner
<1>2. ASSUME NEW t \in Thieves, Deque!Thief(t) PROVE DequeInv'
  BY <1>2, StealTopStep, StealBottomStep, StealArrayStep, StealGetStep, StealRaceStep
     DEF Deque!Thief
<1>3. QED
  BY <1>1, <1>2 DEF Deque!Next

\* Nor does a step of another object.
LEMMA DequeStutter == ASSUME DequeInv, UNCHANGED dequeVars PROVE DequeInv'
<1>1. UNCHANGED <<top, bottom, arrays, opc, obottom, otop, pushed, result, thief, ttop,
                  tarray, tresult, taken, Bottom, End, Capacity, Places>>
  BY SamePlaces DEF dequeVars, Bottom, End
<1>2. ASSUME NEW t \in Thieves
      PROVE  Deque!Get(arrays[tarray[t]], top)' = Deque!Get(arrays[tarray[t]], top)
  BY <1>1 DEF Deque!Get, Deque!Size
<1>3. DequeTypes' /\ Indices' /\ Placed'
  BY <1>1 DEF DequeInv, DequeTypes, Indices, Placed
<1>4. Thieving'
  BY <1>1, <1>2 DEF DequeInv, Thieving
<1>5. QED
  BY <1>3, <1>4 DEF DequeInv

\* What the invariant says of places is what is promised of items.
LEMMA PlacedOnce == ASSUME DequeInv PROVE Deque!EachItemOnce
<1>1. DequeTypes /\ Placed
  BY DEF DequeInv
<1>2. /\ top \in Nat /\ Bottom \in Nat /\ pushed \in Nat /\ taken \in Seq(Nat)
      /\ Len(taken) \in Nat /\ DOMAIN taken = 1 .. Len(taken)
      /\ \A k \in top .. Bottom - 1 : k \in Nat
  BY <1>1 DEF DequeTypes, Bottom
<1>3. \A n \in DOMAIN taken :
          /\ taken[n] \in 1 .. pushed
          /\ \A m \in DOMAIN taken : taken[m] = taken[n] => m = n
  BY <1>1 DEF Placed
<1>4. ASSUME NEW i \in 1 .. pushed
      PROVE  /\ Deque!Takes(i) \in {0, 1}
             /\ Deque!Takes(i) = 1 <=> \E n \in DOMAIN taken : taken[n] = i
  <2> DEFINE S == {k \in 1 .. Len(taken) : taken[k] = i}
  <2>1. Deque!Takes(i) = Cardinality(S)
    BY Zenon DEF Deque!Takes, Deque!Cardinality, Cardinality
  <2>2. CASE \E n \in DOMAIN taken : taken[n] = i
    <3>1. PICK n \in DOMAIN taken : taken[n] = i
      BY <2>2
    <3>2. S = {n}
      BY <1>2, <1>3, <3>1
    <3>3. Cardinality(S) = 1
      BY <3>2, FS_Singleton
    <3>4. QED
      BY <2>1, <2>2, <3>3
  <2>3. CASE ~ \E n \in DOMAIN taken : taken[n] = i
    <3>1. S = {}
      BY <1>2, <2>3
    <3>2. Cardinality(S) = 0
      BY <3>1, FS_EmptySet
    <3>3. QED
      BY <2>1, <2>3, <3>2
  <2>4. QED
    BY <2>2, <2>3
<1>5. ASSUME opc = "idle", NEW i \in 1 .. pushed
      PROVE  Deque!Takes(i) = 1 <=> i \notin Deque!Queued
  <2>1. Deque!Queued = {Places[k] : k \in top .. Bottom - 1}
    <3>1. Bottom = bottom
      BY <1>5 DEF Bottom, Popping
    <3>2. \A k \in top .. Bottom - 1 : Places[k] = Deque!Get(Deque!Array, k)
      BY <1>2 DEF Places
    <3>3. QED
      BY <3>1, <3>2 DEF Deque!Queued
  <2>2. (\E n \in DOMAIN taken : taken[n] = i) <=>
            ~ \E k \in top .. Bottom - 1 : Places[k] = i
    BY <1>1 DEF Placed
  <2>3. QED
    BY <1>4, <2>1, <2>2
<1>6. QED
  BY <1>2, <1>3, <1>4, <1>5 DEF Deque!EachItemOnce

-----------------------------------------------------------------------------
(***************************************************************************)
(* SizedQueue                                                              *)
(***************************************************************************)

\* Items are numbered by their pushes: of n of them the queue has the last m, the p
\* taken are behind those, and the d dropped a whole queue behind the end.
Numbered(n, m, p, d) ==
    /\ m <= MaxLength /\ p + d + m = n
    /\ \A i \in 1 .. n : pushes[i] = i
    /\ \A i \in 1 .. m : q[i] = n - m + i
    /\ \A i \in 1 .. p : popped[i] \in Nat /\ popped[i] <= n - m
    /\ \A i, j \in 1 .. p : i < j => popped[i] < popped[j]
    /\ \A i \in 1 .. d : dropped[i] \in Nat /\ dropped[i] + MaxLength <= n

QueueTypes ==
    q \in Seq(Nat) /\ pushes \in Seq(Nat) /\ popped \in Seq(Nat) /\ dropped \in Seq(Nat)

QueueInv == QueueTypes /\ Numbered(Len(pushes), Len(q), Len(popped), Len(dropped))

\* What Append() makes, by the length of the old sequence
LEMMA NatAppend ==
    ASSUME NEW s \in Seq(Nat), NEW x \in Nat, NEW n, n = Len(s), NEW t, t = Append(s, x)
    PROVE  /\ t \in Seq(Nat) /\ Len(t) = n + 1
           /\ \A i \in 1 .. n + 1 : t[i] = IF i = n + 1 THEN x ELSE s[i]
BY AppendProperties

\* What Tail() leaves, by the length of the old sequence
LEMMA NatTail ==
    ASSUME NEW s \in Seq(Nat), NEW n \in Nat, n = Len(s), n > 0, NEW t, t = Tail(s)
    PROVE  /\ t \in Seq(Nat) /\ Len(t) = n - 1 /\ Head(s) = s[1] /\ Head(s) \in Nat
           /\ \A i \in 1 .. n - 1 : t[i] = s[i + 1]
<1>1. s # <<>>
  OBVIOUS
<1>2. QED
  BY <1>1, HeadTailProperties

\* emplace_back() drops the oldest item of a full queue (SizedQueue.hpp:57-60).
LEMMA QueuePushStep == ASSUME QueueInv, Queue!Push PROVE QueueInv'
<1>1. /\ q \in Seq(Nat) /\ pushes \in Seq(Nat) /\ popped \in Seq(Nat) /\ dropped \in Seq(Nat)
  BY DEF QueueInv, QueueTypes
<1>2. PICK n \in Nat, m \in Nat, p \in Nat, d \in Nat :
          n = Len(pushes) /\ m = Len(q) /\ p = Len(popped) /\ d = Len(dropped)
  BY <1>1
<1>3. Numbered(n, m, p, d)
  BY <1>2 DEF QueueInv
<1>4. /\ q' = Append(Queue!MakeRoom, n + 1) /\ pushes' = Append(pushes, n + 1)
      /\ popped' = popped
      /\ dropped' = IF Queue!MakeRoom = q THEN dropped ELSE Append(dropped, Head(q))
  BY <1>2 DEF Queue!Push, Queue!Emplace
<1>5. n + 1 \in Nat /\ MaxLength \in Nat \ {0}
  BY LengthAssumption
<1>6. /\ pushes' \in Seq(Nat) /\ Len(pushes') = n + 1
      /\ \A i \in 1 .. n + 1 : pushes'[i] = IF i = n + 1 THEN n + 1 ELSE pushes[i]
  BY <1>1, <1>2, <1>4, <1>5, NatAppend
<1>7. popped' \in Seq(Nat) /\ Len(popped') = p
  BY <1>1, <1>2, <1>4
<1>8. popped' = popped
  BY <1>4
<1>9. CASE m = MaxLength
  <2>1. m > 0 /\ m - 1 \in Nat
    BY <1>5, <1>9
  <2>2. /\ Tail(q) \in Seq(Nat) /\ Len(Tail(q)) = m - 1 /\ Head(q) = q[1] /\ Head(q) \in Nat
        /\ \A i \in 1 .. m - 1 : Tail(q)[i] = q[i + 1]
    BY <1>1, <1>2, <2>1, NatTail
  <2>3. Queue!MakeRoom = Tail(q) /\ Tail(q) # q
    BY <1>2, <1>9, <2>2 DEF Queue!MakeRoom
  <2> DEFINE rest == Tail(q)
             oldest == Head(q)
  <2>4. /\ q' = Append(rest, n + 1) /\ m - 1 = Len(rest) /\ rest \in Seq(Nat)
        /\ dropped' = Append(dropped, oldest) /\ oldest \in Nat /\ oldest = q[1]
        /\ \A i \in 1 .. m - 1 : rest[i] = q[i + 1]
    BY <1>4, <2>2, <2>3
  <2> HIDE DEF rest, oldest
  <2>5. /\ q' \in Seq(Nat) /\ Len(q') = (m - 1) + 1
        /\ \A i \in 1 .. (m - 1) + 1 : q'[i] = IF i = (m - 1) + 1 THEN n + 1 ELSE rest[i]
    BY <1>5, <2>4, NatAppend
  <2>6. /\ dropped' \in Seq(Nat) /\ Len(dropped') = d + 1
        /\ \A i \in 1 .. d + 1 : dropped'[i] = IF i = d + 1 THEN oldest ELSE dropped[i]
    <3>1. /\ dropped \in Seq(Nat) /\ d = Len(dropped) /\ oldest \in Nat
          /\ dropped' = Append(dropped, oldest)
      BY <1>1, <1>2, <2>4
    <3>2. QED
      BY <3>1, NatAppend
  <2>7. Len(q') = m
    BY <2>1, <2>5
  <2>8. \A i \in 1 .. m - 1 : rest[i] = q[i + 1]
    BY <2>4
  <2>9. oldest = q[1]
    BY <2>4
  <2>10. \A i \in 1 .. (m - 1) + 1 : q'[i] = IF i = (m - 1) + 1 THEN n + 1 ELSE rest[i]
    BY <2>5
  <2>11. \A i \in 1 .. d + 1 : dropped'[i] = IF i = d + 1 THEN oldest ELSE dropped[i]
    BY <2>6
  <2>12. \A i \in 1 .. n + 1 : pushes'[i] = IF i = n + 1 THEN n + 1 ELSE pushes[i]
    BY <1>6
  <2>13. Numbered(n + 1, m, p, d + 1)'
    <3>1. \A i \in 1 .. m : q'[i] = n + 1 - m + i
      <4>1. ASSUME NEW i \in 1 .. m - 1 PROVE q'[i] = n + 1 - m + i
        <5>1. q[i + 1] = n - m + (i + 1) /\ rest[i] = q[i + 1] /\ q'[i] = rest[i]
          BY <1>3, <2>8, <2>10 DEF Numbered
        <5>2. QED
          BY <5>1
      <4>2. q'[m] = n + 1
        BY <2>1, <2>10
      <4>3. QED
        BY <4>1, <4>2
    <3>2. \A i \in 1 .. d + 1 : dropped'[i] \in Nat /\ dropped'[i] + MaxLength <= n + 1
      <4>1. oldest = n - m + 1 /\ oldest \in Nat
        BY <1>3, <2>1, <2>4, <2>9 DEF Numbered
      <4>2. QED
        BY <1>3, <1>5, <1>9, <2>11, <4>1 DEF Numbered
    <3>3. QED
      BY <1>3, <1>5, <1>8, <2>12, <3>1, <3>2 DEF Numbered
  <2>14. QED
    BY <1>6, <1>7, <2>5, <2>6, <2>7, <2>13 DEF QueueInv, QueueTypes
<1>10. CASE m # MaxLength
  <2>1. Queue!MakeRoom = q
    BY <1>2, <1>10 DEF Queue!MakeRoom
  <2>2. dropped' = dropped /\ q' = Append(q, n + 1)
    BY <1>4, <2>1
  <2>3. /\ q' \in Seq(Nat) /\ Len(q') = m + 1
        /\ \A i \in 1 .. m + 1 : q'[i] = IF i = m + 1 THEN n + 1 ELSE q[i]
    BY <1>1, <1>2, <1>5, <2>2, NatAppend
  <2>4. \A i \in 1 .. m + 1 : q'[i] = IF i = m + 1 THEN n + 1 ELSE q[i]
    BY <2>3
  <2>5. \A i \in 1 .. n + 1 : pushes'[i] = IF i = n + 1 THEN n + 1 ELSE pushes[i]
    BY <1>6
  <2>6. dropped' = dropped
    BY <2>2
  <2>7. Numbered(n + 1, m + 1, p, d)'
    BY <1>3, <1>5, <1>8, <1>10, <2>4, <2>5, <2>6 DEF Numbered
  <2>8. dropped' \in Seq(Nat) /\ Len(dropped') = d
    BY <1>1, <1>2, <2>2
  <2>9. QED
    BY <1>6, <1>7, <2>3, <2>7, <2>8 DEF QueueInv, QueueTypes
<1>11. QED
  BY <1>9, <1>10

\* pop_front() takes the oldest item (SizedQueue.hpp:62).
LEMMA QueuePopStep == ASSUME QueueInv, Queue!PopFront PROVE QueueInv'
<1>1. /\ q \in Seq(Nat) /\ pushes \in Seq(Nat) /\ popped \in Seq(Nat) /\ dropped \in Seq(Nat)
  BY DEF QueueInv, QueueTypes
<1>2. PICK n \in Nat, m \in Nat, p \in Nat, d \in Nat :
          n = Len(pushes) /\ m = Len(q) /\ p = Len(popped) /\ d = Len(dropped)
  BY <1>1
<1>3. Numbered(n, m, p, d)
  BY <1>2 DEF QueueInv
<1>4. /\ q' = Tail(q) /\ popped' = Append(popped, Head(q)) /\ pushes' = pushes
      /\ dropped' = dropped /\ q # <<>>
  BY DEF Queue!PopFront
<1>5. m > 0
  BY <1>1, <1>2, <1>4
<1>6. /\ q' \in Seq(Nat) /\ Len(q') = m - 1 /\ Head(q) \in Nat /\ Head(q) = q[1]
      /\ \A i \in 1 .. m - 1 : q'[i] = q[i + 1]
  BY <1>1, <1>2, <1>4, <1>5, NatTail
<1> DEFINE oldest == Head(q)
<1>7. oldest = q[1] /\ oldest \in Nat /\ popped' = Append(popped, oldest)
  BY <1>4, <1>6
<1> HIDE DEF oldest
<1>8. /\ popped' \in Seq(Nat) /\ Len(popped') = p + 1
      /\ \A i \in 1 .. p + 1 : popped'[i] = IF i = p + 1 THEN oldest ELSE popped[i]
  BY <1>1, <1>2, <1>7, NatAppend
<1>9. Numbered(n, m - 1, p + 1, d)'
  <2>1. \A i \in 1 .. m - 1 : q'[i] = q[i + 1]
    BY <1>6
  <2>2. \A i \in 1 .. p + 1 : popped'[i] = IF i = p + 1 THEN oldest ELSE popped[i]
    BY <1>8
  <2>3. oldest = q[1] /\ pushes' = pushes /\ dropped' = dropped /\ MaxLength \in Nat
    BY <1>4, <1>7, LengthAssumption
  <2>4. QED
    BY <1>3, <1>5, <2>1, <2>2, <2>3 DEF Numbered
<1>10. QED
  BY <1>1, <1>2, <1>4, <1>6, <1>8, <1>9 DEF QueueInv, QueueTypes

\* Unless its user pushes what the queue itself holds, it keeps its items.
LEMMA QueueStep == ASSUME QueueInv, ~PushesOwn, Queue!Next PROVE QueueInv'
BY QueuePushStep, QueuePopStep DEF Queue!Next, Queue!PushFront

\* A queue is made empty.
LEMMA QueueInit == Queue!Init => QueueInv
BY LengthAssumption DEF Queue!Init, QueueInv, QueueTypes, Numbered

\* A step of another object changes nothing.
LEMMA QueueStutter == ASSUME QueueInv, UNCHANGED queueVars PROVE QueueInv'
BY DEF QueueInv, QueueTypes, Numbered, queueVars

\* What the numbers say is that the queue has just the latest items.
LEMMA NumberedKept == ASSUME QueueInv PROVE Queue!LatestKept
<1>1. /\ q \in Seq(Nat) /\ pushes \in Seq(Nat) /\ popped \in Seq(Nat) /\ dropped \in Seq(Nat)
  BY DEF QueueInv, QueueTypes
<1>2. PICK n \in Nat, m \in Nat, p \in Nat, d \in Nat :
          n = Len(pushes) /\ m = Len(q) /\ p = Len(popped) /\ d = Len(dropped)
  BY <1>1
<1>3. Numbered(n, m, p, d)
  BY <1>2 DEF QueueInv
<1>4. m <= n /\ m <= MaxLength /\ p + d + m = n
  BY <1>3 DEF Numbered
<1> DEFINE s == SubSeq(pushes, n - m + 1, n)
<1>5. /\ s \in Seq(Nat) /\ Len(s) = m
      /\ \A i \in 1 .. m : s[i] = pushes[n - m + i]
  <2>1. n - m + 1 \in Int /\ n \in Int /\ \A i \in n - m + 1 .. n : pushes[i] \in Nat
    BY <1>1, <1>2, <1>4
  <2>2. /\ s \in Seq(Nat) /\ Len(s) = IF n - m + 1 <= n THEN n - (n - m + 1) + 1 ELSE 0
        /\ \A i \in 1 .. n - (n - m + 1) + 1 : s[i] = pushes[(n - m + 1) + i - 1]
    BY <2>1, SubSeqProperties
  <2> HIDE DEF s
  <2>3. Len(s) = m
    BY <1>4, <2>2
  <2>4. \A i \in 1 .. m : s[i] = pushes[n - m + i]
    <3>1. \A i \in 1 .. n - (n - m + 1) + 1 : s[i] = pushes[(n - m + 1) + i - 1]
      BY <2>2
    <3>2. ASSUME NEW i \in 1 .. m PROVE s[i] = pushes[n - m + i]
      <4>1. (n - m + 1) + i - 1 = n - m + i /\ i \in 1 .. n - (n - m + 1) + 1
        OBVIOUS
      <4>2. QED
        BY <3>1, <4>1
    <3>3. QED
      BY <3>2
  <2>5. QED
    BY <2>2, <2>3, <2>4
<1> HIDE DEF s
<1>6. q = s
  <2>1. \A i \in 1 .. m : s[i] = pushes[n - m + i]
    BY <1>5
  <2>2. \A i \in 1 .. m : q[i] = s[i]
    BY <1>3, <1>4, <2>1 DEF Numbered
  <2>3. QED
    BY <1>1, <1>2, <1>5, <2>2, SeqEqual
<1>7. \A x \in Queue!Range(dropped) : x + MaxLength <= n
  BY <1>1, <1>2, <1>3 DEF Queue!Range, Numbered
<1>8. \A i, j \in DOMAIN popped : i < j => popped[i] < popped[j]
  BY <1>1, <1>2, <1>3 DEF Numbered
<1>9. q = SubSeq(pushes, Len(pushes) - Len(q) + 1, Len(pushes))
  BY <1>2, <1>6 DEF s
<1>10. QED
  BY <1>2, <1>4, <1>7, <1>8, <1>9 DEF Queue!LatestKept

-----------------------------------------------------------------------------
(***************************************************************************)
(* Observer                                                                *)
(***************************************************************************)

LoopType == [event : 1 .. MaxEvents, next : Nat, end : Nat, memory : Nat, calling : BOOLEAN]

SubjectTypes ==
    /\ observers \in Seq(Observers \ removed)
    /\ events \in 0 .. MaxEvents /\ memory \in Nat
    /\ calls \in [1 .. MaxEvents -> Seq(Observers)]
    /\ expected \in [1 .. MaxEvents -> Seq(Observers)]
    /\ loops \in Seq(LoopType)
    /\ invalid = FALSE

\* The calls of an event, of the first n observers
Given(c, o, n) == Len(c) = n /\ \A i \in 1 .. n : c[i] = o[i]

\* The vector is what it was when the loops in progress were entered; each has
\* called those that its iterator has passed, and all but the innermost are in a call.
InnerLoops ==
    \A k \in 1 .. Len(loops) :
        /\ loops[k].event <= events
        /\ loops[k].memory = memory /\ loops[k].end = Len(observers) + 1
        /\ 1 <= loops[k].next /\ loops[k].next <= loops[k].end
        /\ loops[k].calling => loops[k].next < loops[k].end
        /\ k # Len(loops) => loops[k].calling
        /\ expected[loops[k].event] = observers
        /\ Given(calls[loops[k].event], observers,
                 IF loops[k].calling THEN loops[k].next ELSE loops[k].next - 1)
        /\ \A j \in 1 .. Len(loops) : loops[j].event = loops[k].event => j = k

\* The events of no loop have been given to all, or are still to come.
OtherEvents ==
    /\ \A e \in 1 .. events :
           (\A k \in 1 .. Len(loops) : loops[k].event # e) => calls[e] = expected[e]
    /\ \A e \in events + 1 .. MaxEvents : calls[e] = <<>>

SubjectInv == SubjectTypes /\ InnerLoops /\ OtherEvents

\* The loop that a step changes is the last one.
LEMMA LastLoop ==
    ASSUME NEW s \in Seq(LoopType), s # <<>>
    PROVE  /\ Len(s) \in Nat \ {0} /\ Subject!Last(s) = s[Len(s)] /\ s[Len(s)] \in LoopType
           /\ Subject!Front(s) \in Seq(LoopType) /\ Len(Subject!Front(s)) = Len(s) - 1
           /\ \A k \in 1 .. Len(s) - 1 : Subject!Front(s)[k] = s[k]
<1>1. Len(s) \in Nat \ {0} /\ Subject!Last(s) = s[Len(s)] /\ s[Len(s)] \in LoopType
  BY DEF Subject!Last
<1>2. Subject!Front(s) = SubSeq(s, 1, Len(s) - 1)
  BY DEF Subject!Front
<1>3. 1 \in Int /\ Len(s) - 1 \in Int /\ \A i \in 1 .. Len(s) - 1 : s[i] \in LoopType
  BY <1>1
<1>4. /\ SubSeq(s, 1, Len(s) - 1) \in Seq(LoopType)
      /\ Len(SubSeq(s, 1, Len(s) - 1)) = IF 1 <= Len(s) - 1 THEN Len(s) - 1 - 1 + 1 ELSE 0
      /\ \A i \in 1 .. Len(s) - 1 - 1 + 1 : SubSeq(s, 1, Len(s) - 1)[i] = s[1 + i - 1]
  BY <1>3, SubSeqProperties
<1> DEFINE n == Len(s)
           f == SubSeq(s, 1, Len(s) - 1)
<1>5. /\ f \in Seq(LoopType) /\ n \in Nat \ {0}
      /\ Len(f) = IF 1 <= n - 1 THEN n - 1 - 1 + 1 ELSE 0
      /\ \A i \in 1 .. n - 1 - 1 + 1 : f[i] = s[1 + i - 1]
  BY <1>1, <1>4
<1> HIDE DEF n, f
<1>6. Len(f) = n - 1 /\ \A k \in 1 .. n - 1 : f[k] = s[k]
  BY <1>5
<1>7. QED
  BY <1>1, <1>2, <1>5, <1>6 DEF n, f

\* A step of the innermost loop leaves the others as they are.
LEMMA SetLastLoop ==
    ASSUME loops \in Seq(LoopType), loops # <<>>, NEW l \in LoopType, Subject!SetLoop(l)
    PROVE  /\ loops' \in Seq(LoopType) /\ Len(loops') = Len(loops)
           /\ \A k \in 1 .. Len(loops) : loops'[k] = IF k = Len(loops) THEN l ELSE loops[k]
<1>1. /\ Len(loops) \in Nat \ {0} /\ Subject!Front(loops) \in Seq(LoopType)
      /\ Len(Subject!Front(loops)) = Len(loops) - 1
      /\ \A k \in 1 .. Len(loops) - 1 : Subject!Front(loops)[k] = loops[k]
  BY LastLoop
<1>2. loops' = Append(Subject!Front(loops), l)
  BY DEF Subject!SetLoop
<1> DEFINE f == Subject!Front(loops)
<1> HIDE DEF f
<1>3. /\ loops' \in Seq(LoopType) /\ Len(loops') = Len(f) + 1 /\ loops'[Len(f) + 1] = l
      /\ \A k \in 1 .. Len(f) : loops'[k] = f[k]
  BY <1>1, <1>2, AppendProperties DEF f
<1>4. Len(f) = Len(loops) - 1 /\ \A k \in 1 .. Len(loops) - 1 : f[k] = loops[k]
  BY <1>1 DEF f
<1>5. QED
  BY <1>1, <1>3, <1>4

\* A loop that appends what is not o makes a sequence without o.
LEMMA KeptIsLeft ==
    ASSUME NEW o, NEW S, NEW s \in Seq(S)
    PROVE  LET kept[k \in 0 .. Len(s)] ==
                   IF k = 0 THEN <<>>
                   ELSE IF s[k] = o THEN kept[k - 1] ELSE Append(kept[k - 1], s[k])
           IN  kept[Len(s)] \in Seq(S \ {o})
<1> DEFINE n == Len(s)
           X == Seq(S \ {o})
           F == [a \in X \X (1 .. n) |-> IF s[a[2]] = o THEN a[1] ELSE Append(a[1], s[a[2]])]
           kept[k \in 0 .. n] ==
               IF k = 0 THEN <<>> ELSE IF s[k] = o THEN kept[k - 1] ELSE Append(kept[k - 1], s[k])
<1>1. n \in Nat /\ \A i \in 1 .. n : s[i] \in S
  OBVIOUS
<1>2. ASSUME NEW a \in X, NEW i \in 1 .. n
      PROVE  (IF s[i] = o THEN a ELSE Append(a, s[i])) \in X
  BY <1>1, AppendProperties
<1>3. F \in [X \X (1 .. n) -> X]
  <2>1. ASSUME NEW b \in X \X (1 .. n)
        PROVE  (IF s[b[2]] = o THEN b[1] ELSE Append(b[1], s[b[2]])) \in X
    <3>1. b[1] \in X /\ b[2] \in 1 .. n
      OBVIOUS
    <3> HIDE DEF X
    <3>2. QED
      BY <1>2, <3>1
  <2>2. QED
    BY <2>1
<1>4. \A a \in X, i \in 1 .. n : F[<<a, i>>] = IF s[i] = o THEN a ELSE Append(a, s[i])
  OBVIOUS
<1>5. <<>> \in X
  OBVIOUS
<1>6. SUFFICES kept[n] \in X
  OBVIOUS
<1> HIDE DEF n, X, F
<1>7. PICK g \in [0 .. n -> X] : g[0] = <<>> /\ \A i \in 1 .. n : g[i] = F[<<g[i - 1], i>>]
  <2> DEFINE none == <<>>
  <2>1. none \in X /\ n \in Nat /\ F \in StepsOf(X, n)
    BY <1>1, <1>3, <1>5 DEF StepsOf
  <2> HIDE DEF none
  <2>2. PICK g : MakesSteps(g, X, none, n, F)
    BY <2>1, Recursion, Zenon
  <2>3. QED
    BY <2>2 DEF MakesSteps, none
<1>8. g = [k \in 0 .. n |-> IF k = 0 THEN <<>>
                            ELSE IF s[k] = o THEN g[k - 1] ELSE Append(g[k - 1], s[k])]
  <2>1. ASSUME NEW k \in 0 .. n
        PROVE  g[k] = IF k = 0 THEN <<>>
                      ELSE IF s[k] = o THEN g[k - 1] ELSE Append(g[k - 1], s[k])
    <3>1. CASE k = 0
      BY <1>7, <3>1
    <3>2. CASE k # 0
      <4>1. k \in 1 .. n /\ g[k - 1] \in X
        BY <1>1, <3>2
      <4>2. QED
        BY <1>4, <1>7, <3>2, <4>1
    <3>3. QED
      BY <3>1, <3>2
  <2>2. QED
    BY <2>1
<1>9. kept = [k \in 0 .. n |-> IF k = 0 THEN <<>>
                               ELSE IF s[k] = o THEN kept[k - 1] ELSE Append(kept[k - 1], s[k])]
  BY <1>8
<1> HIDE DEF kept
<1>10. \A k \in 0 .. n : kept[k] \in X
  <2> DEFINE T == {k \in Nat : k <= n => kept[k] \in X}
  <2>1. 0 \in T
    BY <1>1, <1>5, <1>9
  <2>2. ASSUME NEW k \in Nat, k \in T PROVE k + 1 \in T
    <3> SUFFICES ASSUME k + 1 <= n PROVE kept[k + 1] \in X
      OBVIOUS
    <3>1. k + 1 \in 1 .. n /\ k + 1 \in 0 .. n /\ kept[k] \in X /\ (k + 1) - 1 = k
      BY <1>1, <2>2
    <3>2. kept[k + 1] = IF s[k + 1] = o THEN kept[k] ELSE Append(kept[k], s[k + 1])
      <4>1. \A j \in 0 .. n : kept[j] = IF j = 0 THEN <<>> ELSE IF s[j] = o THEN kept[j - 1]
                                        ELSE Append(kept[j - 1], s[j])
        BY <1>9, Zenon
      <4>2. k + 1 # 0
        OBVIOUS
      <4>3. QED
        BY <3>1, <4>1, <4>2
    <3>3. QED
      BY <1>2, <3>1, <3>2
  <2> HIDE DEF T
  <2>3. \A k \in Nat : k \in T
    BY <2>1, <2>2, SetInduction
  <2>4. QED
    BY <1>1, <2>3 DEF T
<1>11. QED
  BY <1>1, <1>10

\* What is left after unregist(o) is not o (Observer.hpp:134-143).
LEMMA WithoutIt ==
    ASSUME NEW o, NEW S, observers \in Seq(S)
    PROVE  Subject!Without(o) \in Seq(S \ {o})
BY KeptIsLeft DEF Subject!Without

\* Nobody is registered and nothing notified at first.
LEMMA SubjectInit == Subject!Init => SubjectInv
<1> SUFFICES ASSUME Subject!Init PROVE SubjectInv
  OBVIOUS
<1>1. SubjectTypes
  BY EventsAssumption DEF Subject!Init, SubjectTypes, Subject!Events
<1>2. InnerLoops /\ OtherEvents
  BY EventsAssumption DEF Subject!Init, InnerLoops, OtherEvents, Subject!Events
<1>3. QED
  BY <1>1, <1>2 DEF SubjectInv

\* An onEvent that only notifies leaves the vector alone: it changes between events.
LEMMA RegistStep ==
    ASSUME SubjectInv, Reentrant \subseteq {"notify"}, NEW o \in Observers, Subject!regist(o)
    PROVE  SubjectInv'
<1>1. SubjectTypes /\ InnerLoops /\ OtherEvents
  BY DEF SubjectInv
<1>2. /\ loops = <<>> /\ observers' = Append(observers, o) /\ removed' = removed \ {o}
      /\ memory' \in Nat /\ UNCHANGED <<events, loops, calls, expected, invalid>>
  BY <1>1 DEF Subject!regist, Subject!May, SubjectTypes
<1>3. observers' \in Seq(Observers \ removed')
  <2>1. observers \in Seq(Observers \ (removed \ {o}))
    <3>1. /\ observers \in [1 .. Len(observers) -> Observers \ removed]
          /\ Len(observers) \in Nat
      BY <1>1 DEF SubjectTypes
    <3>2. observers \in [1 .. Len(observers) -> Observers \ (removed \ {o})]
      BY <3>1
    <3>3. QED
      BY <3>1, <3>2
  <2>2. o \in Observers \ (removed \ {o})
    OBVIOUS
  <2>3. QED
    BY <1>2, <2>1, <2>2, AppendProperties
<1>4. SubjectTypes'
  BY <1>1, <1>2, <1>3 DEF SubjectTypes
<1>5. InnerLoops' /\ OtherEvents'
  BY <1>1, <1>2 DEF InnerLoops, OtherEvents
<1>6. QED
  BY <1>4, <1>5 DEF SubjectInv

\* Whoever is removed is no longer in the vector (Observer.hpp:134-143).
LEMMA UnregistStep ==
    ASSUME SubjectInv, Reentrant \subseteq {"notify"}, NEW o \in Observers, Subject!unregist(o)
    PROVE  SubjectInv'
<1>1. SubjectTypes /\ InnerLoops /\ OtherEvents
  BY DEF SubjectInv
<1>2. /\ loops = <<>> /\ observers' = Subject!Without(o) /\ removed' = removed \cup {o}
      /\ UNCHANGED <<memory, events, loops, calls, expected, invalid>>
  BY DEF Subject!unregist, Subject!May
<1>3. observers' \in Seq((Observers \ removed) \ {o})
  BY <1>1, <1>2, WithoutIt DEF SubjectTypes
<1>4. (Observers \ removed) \ {o} = Observers \ removed'
  BY <1>2
<1>5. SubjectTypes'
  BY <1>1, <1>2, <1>3, <1>4 DEF SubjectTypes
<1>6. InnerLoops' /\ OtherEvents'
  BY <1>1, <1>2 DEF InnerLoops, OtherEvents
<1>7. QED
  BY <1>5, <1>6 DEF SubjectInv

\* An event is notified between two, or from an onEvent (Observer.hpp:170-172).
LEMMA NotifyStep == ASSUME SubjectInv, Subject!notify PROVE SubjectInv'
<1>1. SubjectTypes /\ InnerLoops /\ OtherEvents
  BY DEF SubjectInv
<1> DEFINE n == Len(loops)
           l == [event |-> events + 1, next |-> 1, end |-> Len(observers) + 1,
                 memory |-> memory, calling |-> FALSE]
<1>2. /\ events' = events + 1 /\ events < MaxEvents /\ loops' = Append(loops, l)
      /\ expected' = [expected EXCEPT ![events + 1] = observers]
      /\ UNCHANGED <<observers, memory, calls, removed, invalid>>
  BY DEF Subject!notify
<1>3. /\ events \in Nat /\ MaxEvents \in Nat /\ events + 1 \in 1 .. MaxEvents
      /\ Len(observers) \in Nat /\ n \in Nat /\ loops \in Seq(LoopType)
      /\ observers \in Seq(Observers)
  <2>1. observers \in Seq(Observers)
    <3>1. /\ observers \in [1 .. Len(observers) -> Observers \ removed]
          /\ Len(observers) \in Nat
      BY <1>1 DEF SubjectTypes
    <3>2. observers \in [1 .. Len(observers) -> Observers]
      BY <3>1
    <3>3. QED
      BY <3>1, <3>2
  <2>2. QED
    BY <1>1, <1>2, <2>1, EventsAssumption DEF SubjectTypes
<1>4. l \in LoopType
  BY <1>1, <1>3 DEF LoopType, SubjectTypes
<1>5. /\ l.event = events + 1 /\ l.next = 1 /\ l.end = Len(observers) + 1
      /\ l.memory = memory /\ l.calling = FALSE
  OBVIOUS
<1> HIDE DEF l
<1>6. /\ loops' \in Seq(LoopType) /\ Len(loops') = n + 1 /\ loops'[n + 1] = l
      /\ \A k \in 1 .. n : loops'[k] = loops[k]
  BY <1>2, <1>3, <1>4, AppendProperties
<1>7. \A k \in 1 .. n : loops[k].calling
  <2>1. n # 0 => loops[n].calling
    <3>1. loops # <<>> => Subject!Last(loops).calling
      BY DEF Subject!notify, Subject!May
    <3>2. QED
      BY <1>3, <3>1 DEF Subject!Last
  <2>2. \A k \in 1 .. n : k # n => loops[k].calling
    BY <1>1 DEF InnerLoops
  <2>3. QED
    BY <1>3, <2>1, <2>2
<1>8. /\ expected' \in [1 .. MaxEvents -> Seq(Observers)]
      /\ expected'[events + 1] = observers
      /\ \A e \in 1 .. events : expected'[e] = expected[e]
  BY <1>1, <1>2, <1>3 DEF SubjectTypes
<1>9. SubjectTypes'
  BY <1>1, <1>2, <1>3, <1>6, <1>8 DEF SubjectTypes
<1>10. calls[events + 1] = <<>>
  BY <1>1, <1>3 DEF OtherEvents
<1>11. ASSUME NEW k \in 1 .. n
       PROVE  /\ loops[k].event \in 1 .. events /\ loops[k].event # events + 1
              /\ loops[k].memory = memory /\ loops[k].end = Len(observers) + 1
              /\ 1 <= loops[k].next /\ loops[k].next <= loops[k].end
              /\ loops[k].calling /\ loops[k].next < loops[k].end
              /\ expected[loops[k].event] = observers
              /\ Given(calls[loops[k].event], observers, loops[k].next)
              /\ \A j \in 1 .. n : loops[j].event = loops[k].event => j = k
  <2>1. loops[k].event \in Nat /\ loops[k].event >= 1
    <3>1. loops[k] \in LoopType
      BY <1>3
    <3>2. QED
      BY <1>3, <3>1 DEF LoopType
  <2>2. QED
    BY <1>1, <1>3, <1>7, <2>1 DEF InnerLoops
<1>12. InnerLoops'
  <2> SUFFICES ASSUME NEW k \in 1 .. n + 1
               PROVE  /\ loops'[k].event <= events'
                      /\ loops'[k].memory = memory' /\ loops'[k].end = Len(observers') + 1
                      /\ 1 <= loops'[k].next /\ loops'[k].next <= loops'[k].end
                      /\ loops'[k].calling => loops'[k].next < loops'[k].end
                      /\ k # n + 1 => loops'[k].calling
                      /\ expected'[loops'[k].event] = observers'
                      /\ Given(calls'[loops'[k].event], observers',
                               IF loops'[k].calling THEN loops'[k].next ELSE loops'[k].next - 1)
                      /\ \A j \in 1 .. n + 1 : loops'[j].event = loops'[k].event => j = k
    BY <1>6 DEF InnerLoops
  <2>1. \A j \in 1 .. n + 1 : j \in 1 .. n \/ j = n + 1
    BY <1>3
  <2>2. CASE k \in 1 .. n
    <3>1. loops'[k] = loops[k]
      BY <1>6, <2>2
    <3>2. Given(calls'[loops[k].event], observers', loops[k].next)
      BY <1>2, <1>11, <2>2, <3>1 DEF Given
    <3>3. \A j \in 1 .. n + 1 : loops'[j].event = loops'[k].event => j = k
      BY <1>5, <1>6, <1>11, <2>1, <2>2, <3>1
    <3>4. loops[k].event \in 1 .. events /\ loops[k].event <= events'
      BY <1>2, <1>3, <1>11, <2>2
    <3>5. expected'[loops[k].event] = observers
      BY <1>8, <1>11, <2>2, <3>4
    <3>6. QED
      BY <1>2, <1>11, <2>2, <3>1, <3>2, <3>3, <3>4, <3>5
  <2>3. CASE k = n + 1
    <3>1. loops'[k] = l
      BY <1>6, <2>3
    <3>2. Given(calls'[events + 1], observers', 0)
      BY <1>2, <1>10 DEF Given
    <3>3. \A j \in 1 .. n + 1 : loops'[j].event = loops'[k].event => j = k
      BY <1>5, <1>6, <1>11, <2>1, <2>3, <3>1
    <3>4. QED
      BY <1>2, <1>3, <1>5, <1>8, <2>3, <3>1, <3>2, <3>3
  <2>4. QED
    BY <2>1, <2>2, <2>3
<1>13. OtherEvents'
  <2>1. ASSUME NEW e \in 1 .. events', \A k \in 1 .. Len(loops') : loops'[k].event # e
        PROVE  calls'[e] = expected'[e]
    <3>1. n + 1 \in 1 .. Len(loops') /\ \A k \in 1 .. n : k \in 1 .. Len(loops')
      BY <1>3, <1>6
    <3>2. e # events + 1 /\ \A k \in 1 .. n : loops[k].event # e
      BY <1>5, <1>6, <2>1, <3>1
    <3>3. e \in 1 .. events
      BY <1>2, <1>3, <3>2
    <3>4. calls[e] = expected[e]
      BY <1>1, <3>2, <3>3 DEF OtherEvents
    <3>5. QED
      BY <1>2, <1>8, <3>3, <3>4
  <2>2. \A e \in events' + 1 .. MaxEvents : calls'[e] = <<>>
    BY <1>1, <1>2, <1>3 DEF OtherEvents
  <2>3. QED
    BY <2>1, <2>2 DEF OtherEvents
<1>14. QED
  BY <1>9, <1>12, <1>13 DEF SubjectInv

\* The next observer is called, which is there (Observer.hpp:172).
LEMMA CallNextStep == ASSUME SubjectInv, Subject!CallNext PROVE SubjectInv'
<1>1. SubjectTypes /\ InnerLoops /\ OtherEvents
  BY DEF SubjectInv
<1> DEFINE n == Len(loops)
           l == loops[n]
           e == l.event
           s == Append(calls[e], observers[l.next])
           new == [l EXCEPT !.calling = TRUE]
<1>2. /\ loops \in Seq(LoopType) /\ loops # <<>> /\ n \in Nat \ {0} /\ l \in LoopType
      /\ Subject!Loop = l
  BY <1>1, LastLoop DEF Subject!CallNext, SubjectTypes, Subject!Loop
<1>3. /\ e \in 1 .. MaxEvents /\ l.next \in Nat /\ l.calling \in BOOLEAN
  BY <1>2 DEF LoopType
<1>4. ~l.calling /\ l.next # l.end
  BY <1>2 DEF Subject!CallNext
<1>5. /\ e <= events /\ l.memory = memory /\ l.end = Len(observers) + 1 /\ 1 <= l.next
      /\ l.next <= l.end /\ expected[e] = observers /\ Given(calls[e], observers, l.next - 1)
      /\ \A j \in 1 .. n : loops[j].event = e => j = n
  BY <1>1, <1>2, <1>4 DEF InnerLoops
<1>6. Len(observers) \in Nat /\ l.next \in 1 .. Len(observers)
  BY <1>1, <1>3, <1>4, <1>5 DEF SubjectTypes
<1>7. /\ calls' = [calls EXCEPT ![e] = s] /\ Subject!SetLoop(new)
      /\ UNCHANGED <<observers, memory, events, expected, removed, invalid>>
  BY <1>2, <1>5, <1>6 DEF Subject!CallNext
<1>8. new \in LoopType
  BY <1>2 DEF LoopType
<1>9. /\ new.event = e /\ new.next = l.next /\ new.end = l.end /\ new.memory = l.memory
      /\ new.calling
  BY <1>2 DEF LoopType
<1>10. calls[e] \in Seq(Observers) /\ observers[l.next] \in Observers
  BY <1>1, <1>3, <1>6 DEF SubjectTypes
<1>11. s \in Seq(Observers) /\ Given(s, observers, l.next)
  <2>1. /\ s \in Seq(Observers) /\ Len(s) = Len(calls[e]) + 1
        /\ s[Len(calls[e]) + 1] = observers[l.next]
        /\ \A i \in 1 .. Len(calls[e]) : s[i] = calls[e][i]
    BY <1>10, AppendProperties
  <2>2. Len(calls[e]) = l.next - 1 /\ \A i \in 1 .. l.next - 1 : calls[e][i] = observers[i]
    BY <1>5 DEF Given
  <2> HIDE DEF s, l, e
  <2>3. Len(s) = l.next /\ \A i \in 1 .. l.next : s[i] = observers[i]
    BY <1>3, <2>1, <2>2
  <2>4. QED
    BY <2>1, <2>3 DEF Given
<1> HIDE DEF new, s, l, e
<1>12. /\ loops' \in Seq(LoopType) /\ Len(loops') = n
       /\ \A k \in 1 .. n : loops'[k] = IF k = n THEN new ELSE loops[k]
  BY <1>2, <1>7, <1>8, SetLastLoop
<1> HIDE DEF n
<1>13. /\ calls' \in [1 .. MaxEvents -> Seq(Observers)] /\ calls'[e] = s
       /\ \A f \in 1 .. MaxEvents : f # e => calls'[f] = calls[f]
  BY <1>1, <1>3, <1>7, <1>11 DEF SubjectTypes
<1>14. SubjectTypes'
  BY <1>1, <1>7, <1>12, <1>13 DEF SubjectTypes
<1>15. InnerLoops'
  <2> SUFFICES ASSUME NEW k \in 1 .. n
               PROVE  /\ loops'[k].event <= events'
                      /\ loops'[k].memory = memory' /\ loops'[k].end = Len(observers') + 1
                      /\ 1 <= loops'[k].next /\ loops'[k].next <= loops'[k].end
                      /\ loops'[k].calling => loops'[k].next < loops'[k].end
                      /\ k # n => loops'[k].calling
                      /\ expected'[loops'[k].event] = observers'
                      /\ Given(calls'[loops'[k].event], observers',
                               IF loops'[k].calling THEN loops'[k].next ELSE loops'[k].next - 1)
                      /\ \A j \in 1 .. n : loops'[j].event = loops'[k].event => j = k
    BY <1>12 DEF InnerLoops
  <2>1. \A j \in 1 .. n : loops'[j].event = loops[j].event
    BY <1>9, <1>12 DEF l, e
  <2>2. \A j \in 1 .. n : loops[j].event = loops[k].event => j = k
    BY <1>1 DEF InnerLoops, n
  <2>3. CASE k = n
    BY <1>5, <1>6, <1>7, <1>9, <1>11, <1>12, <1>13, <2>1, <2>2, <2>3 DEF l
  <2>4. CASE k # n
    <3>1. loops'[k] = loops[k]
      BY <1>12, <2>4
    <3>2. /\ loops[k].event <= events /\ loops[k].memory = memory
          /\ loops[k].end = Len(observers) + 1 /\ 1 <= loops[k].next
          /\ loops[k].next <= loops[k].end /\ loops[k].calling
          /\ loops[k].next < loops[k].end /\ expected[loops[k].event] = observers
          /\ Given(calls[loops[k].event], observers, loops[k].next)
      BY <1>1, <2>4 DEF InnerLoops, n
    <3>3. calls'[loops[k].event] = calls[loops[k].event]
      <4>1. loops[k].event # e
        BY <1>5, <2>4
      <4>2. loops[k] \in LoopType
        BY <1>2 DEF n
      <4>3. loops[k].event \in 1 .. MaxEvents
        BY <4>2 DEF LoopType
      <4>4. QED
        BY <1>13, <4>1, <4>3
    <3>4. QED
      BY <1>7, <2>1, <2>2, <2>4, <3>1, <3>2, <3>3
  <2>5. QED
    BY <2>3, <2>4
<1>16. OtherEvents'
  <2>1. \A k \in 1 .. n : loops'[k].event = loops[k].event
    BY <1>9, <1>12 DEF l, e
  <2>2. ASSUME NEW f \in 1 .. events', \A k \in 1 .. Len(loops') : loops'[k].event # f
        PROVE  calls'[f] = expected'[f]
    <3>1. \A k \in 1 .. n : loops[k].event # f
      BY <1>12, <2>1, <2>2
    <3>2. f # e /\ f \in 1 .. events
      BY <1>2, <1>7, <3>1 DEF l, e
    <3>3. calls[f] = expected[f]
      BY <1>1, <3>1, <3>2 DEF OtherEvents, n
    <3>4. f \in 1 .. MaxEvents
      BY <1>1, <3>2, EventsAssumption DEF SubjectTypes
    <3>5. QED
      BY <1>7, <1>13, <3>2, <3>3, <3>4
  <2>3. ASSUME NEW f \in events' + 1 .. MaxEvents PROVE calls'[f] = <<>>
    <3>1. events \in Nat /\ MaxEvents \in Nat /\ f \in events + 1 .. MaxEvents
      BY <1>1, <1>7, EventsAssumption DEF SubjectTypes
    <3>2. f \in 1 .. MaxEvents /\ f # e
      BY <1>3, <1>5, <3>1
    <3>3. QED
      BY <1>1, <1>13, <3>1, <3>2 DEF OtherEvents
  <2>4. QED
    BY <2>2, <2>3 DEF OtherEvents
<1>17. QED
  BY <1>14, <1>15, <1>16 DEF SubjectInv

\* onEvent returns to the loop.
LEMMA CallReturnsStep == ASSUME SubjectInv, Subject!CallReturns PROVE SubjectInv'
<1>1. SubjectTypes /\ InnerLoops /\ OtherEvents
  BY DEF SubjectInv
<1> DEFINE n == Len(loops)
           l == loops[n]
           new == [l EXCEPT !.calling = FALSE, !.next = @ + 1]
<1>2. /\ loops \in Seq(LoopType) /\ loops # <<>> /\ n \in Nat \ {0} /\ l \in LoopType
      /\ Subject!Loop = l
  BY <1>1, LastLoop DEF Subject!CallReturns, SubjectTypes, Subject!Loop
<1>3. l.next \in Nat /\ l.end \in Nat
  BY <1>2 DEF LoopType
<1>4. /\ l.calling /\ Subject!SetLoop(new)
      /\ UNCHANGED <<observers, memory, events, calls, expected, removed, invalid>>
  BY <1>2 DEF Subject!CallReturns
<1>5. /\ l.event <= events /\ l.memory = memory /\ l.end = Len(observers) + 1 /\ 1 <= l.next
      /\ l.next < l.end /\ expected[l.event] = observers
      /\ Given(calls[l.event], observers, l.next)
  BY <1>1, <1>2, <1>4 DEF InnerLoops
<1> HIDE DEF l
<1>6. new \in LoopType
  <2>1. l.next + 1 \in Nat /\ l \in LoopType
    BY <1>2, <1>3
  <2>2. QED
    BY <2>1 DEF LoopType
<1>7. /\ new.event = l.event /\ new.next = l.next + 1 /\ new.end = l.end
      /\ new.memory = l.memory /\ ~new.calling
  BY <1>2 DEF LoopType
<1> HIDE DEF new
<1>8. /\ loops' \in Seq(LoopType) /\ Len(loops') = n
      /\ \A k \in 1 .. n : loops'[k] = IF k = n THEN new ELSE loops[k]
  BY <1>2, <1>4, <1>6, SetLastLoop
<1> HIDE DEF n
<1>9. SubjectTypes'
  BY <1>1, <1>4, <1>8 DEF SubjectTypes
<1>10. \A j \in 1 .. n : loops'[j].event = loops[j].event
  BY <1>7, <1>8 DEF l
<1>11. InnerLoops'
  <2> SUFFICES ASSUME NEW k \in 1 .. n
               PROVE  /\ loops'[k].event <= events'
                      /\ loops'[k].memory = memory' /\ loops'[k].end = Len(observers') + 1
                      /\ 1 <= loops'[k].next /\ loops'[k].next <= loops'[k].end
                      /\ loops'[k].calling => loops'[k].next < loops'[k].end
                      /\ k # n => loops'[k].calling
                      /\ expected'[loops'[k].event] = observers'
                      /\ Given(calls'[loops'[k].event], observers',
                               IF loops'[k].calling THEN loops'[k].next ELSE loops'[k].next - 1)
                      /\ \A j \in 1 .. n : loops'[j].event = loops'[k].event => j = k
    BY <1>8 DEF InnerLoops
  <2>1. \A j \in 1 .. n : loops[j].event = loops[k].event => j = k
    BY <1>1 DEF InnerLoops, n
  <2>2. CASE k = n
    <3>1. loops'[k] = new /\ (new.next - 1) = l.next
      BY <1>3, <1>7, <1>8, <2>2
    <3>2. 1 <= new.next /\ new.next <= new.end
      BY <1>3, <1>5, <1>7
    <3>3. QED
      BY <1>4, <1>5, <1>7, <1>10, <2>1, <2>2, <3>1, <3>2
  <2>3. CASE k # n
    <3>1. loops'[k] = loops[k]
      BY <1>8, <2>3
    <3>2. /\ loops[k].event <= events /\ loops[k].memory = memory
          /\ loops[k].end = Len(observers) + 1 /\ 1 <= loops[k].next
          /\ loops[k].next <= loops[k].end /\ loops[k].calling
          /\ loops[k].next < loops[k].end /\ expected[loops[k].event] = observers
          /\ Given(calls[loops[k].event], observers, loops[k].next)
      BY <1>1, <2>3 DEF InnerLoops, n
    <3>3. QED
      BY <1>4, <1>10, <2>1, <2>3, <3>1, <3>2
  <2>4. QED
    BY <2>2, <2>3
<1>12. OtherEvents'
  BY <1>1, <1>4, <1>8, <1>10 DEF OtherEvents, n
<1>13. QED
  BY <1>9, <1>11, <1>12 DEF SubjectInv

\* notify() returns once it has called all.
LEMMA NotifyReturnsStep == ASSUME SubjectInv, Subject!NotifyReturns PROVE SubjectInv'
<1>1. SubjectTypes /\ InnerLoops /\ OtherEvents
  BY DEF SubjectInv
<1> DEFINE n == Len(loops)
           l == loops[n]
<1>2. /\ loops \in Seq(LoopType) /\ loops # <<>> /\ n \in Nat \ {0} /\ l \in LoopType
      /\ Subject!Loop = l
      /\ Subject!Front(loops) \in Seq(LoopType) /\ Len(Subject!Front(loops)) = n - 1
      /\ \A k \in 1 .. n - 1 : Subject!Front(loops)[k] = loops[k]
  BY <1>1, LastLoop DEF Subject!NotifyReturns, SubjectTypes, Subject!Loop
<1>3. l.next \in Nat /\ l.end \in Nat /\ l.event \in 1 .. MaxEvents
  BY <1>2 DEF LoopType
<1>4. /\ ~l.calling /\ l.next = l.end /\ loops' = Subject!Front(loops)
      /\ UNCHANGED <<observers, memory, events, calls, expected, removed, invalid>>
  BY <1>2 DEF Subject!NotifyReturns
<1>5. /\ l.end = Len(observers) + 1 /\ expected[l.event] = observers
      /\ Given(calls[l.event], observers, l.next - 1)
  BY <1>1, <1>2, <1>4 DEF InnerLoops
<1>6. /\ loops' \in Seq(LoopType) /\ Len(loops') = n - 1
      /\ \A k \in 1 .. n - 1 : loops'[k] = loops[k] /\ k \in 1 .. n /\ k # n
  BY <1>2, <1>4
<1>7. calls[l.event] = expected[l.event]
  <2>1. calls[l.event] \in Seq(Observers) /\ observers \in Seq(Observers \ removed)
    BY <1>1, <1>3 DEF SubjectTypes
  <2>2. Len(calls[l.event]) = Len(observers)
    BY <1>4, <1>5, <2>1 DEF Given
  <2>3. \A i \in 1 .. Len(observers) : calls[l.event][i] = observers[i]
    BY <1>4, <1>5, <2>1 DEF Given
  <2>4. QED
    BY <1>5, <2>1, <2>2, <2>3, SeqEqual
<1>8. SubjectTypes'
  BY <1>1, <1>4, <1>6 DEF SubjectTypes
<1>9. InnerLoops'
  <2> SUFFICES ASSUME NEW k \in 1 .. n - 1
               PROVE  /\ loops'[k].event <= events'
                      /\ loops'[k].memory = memory' /\ loops'[k].end = Len(observers') + 1
                      /\ 1 <= loops'[k].next /\ loops'[k].next <= loops'[k].end
                      /\ loops'[k].calling => loops'[k].next < loops'[k].end
                      /\ k # n - 1 => loops'[k].calling
                      /\ expected'[loops'[k].event] = observers'
                      /\ Given(calls'[loops'[k].event], observers',
                               IF loops'[k].calling THEN loops'[k].next ELSE loops'[k].next - 1)
                      /\ \A j \in 1 .. n - 1 : loops'[j].event = loops'[k].event => j = k
    BY <1>6 DEF InnerLoops
  <2>1. loops'[k] = loops[k] /\ k \in 1 .. n /\ k # n
    BY <1>6
  <2>2. /\ loops[k].event <= events /\ loops[k].memory = memory
        /\ loops[k].end = Len(observers) + 1 /\ 1 <= loops[k].next
        /\ loops[k].next <= loops[k].end /\ loops[k].calling
        /\ loops[k].next < loops[k].end /\ expected[loops[k].event] = observers
        /\ Given(calls[loops[k].event], observers, loops[k].next)
        /\ \A j \in 1 .. n : loops[j].event = loops[k].event => j = k
    BY <1>1, <2>1 DEF InnerLoops
  <2>3. QED
    BY <1>4, <1>6, <2>1, <2>2
<1>10. OtherEvents'
  <2>1. ASSUME NEW e \in 1 .. events, \A k \in 1 .. n - 1 : loops[k].event # e
        PROVE  calls[e] = expected[e]
    <3>1. CASE e = l.event
      BY <1>7, <3>1
    <3>2. CASE e # l.event
      <4>1. \A k \in 1 .. n : k \in 1 .. n - 1 \/ k = n
        BY <1>2
      <4>2. \A k \in 1 .. n : loops[k].event # e
        BY <2>1, <3>2, <4>1
      <4>3. QED
        BY <1>1, <4>2 DEF OtherEvents
    <3>3. QED
      BY <3>1, <3>2
  <2>2. \A e \in 1 .. events :
            (\A k \in 1 .. n - 1 : loops'[k].event # e) => calls[e] = expected[e]
    BY <1>6, <2>1
  <2>3. QED
    BY <1>1, <1>4, <1>6, <2>2 DEF OtherEvents
<1>11. QED
  BY <1>8, <1>9, <1>10 DEF SubjectInv

\* With observers that at most notify the next event, each step keeps the loops right.
LEMMA SubjectStep ==
    ASSUME SubjectInv, Reentrant \subseteq {"notify"}, Subject!Next PROVE SubjectInv'
BY RegistStep, UnregistStep, NotifyStep, CallNextStep, CallReturnsStep, NotifyReturnsStep
   DEF Subject!Next

\* A step of another object changes nothing.
LEMMA SubjectStutter == ASSUME SubjectInv, UNCHANGED observerVars PROVE SubjectInv'
BY DEF SubjectInv, SubjectTypes, InnerLoops, OtherEvents, observerVars

\* What the loops have done is what is promised of each event.
LEMMA LoopsCall == ASSUME SubjectInv PROVE Subject!EachObserverCalled
<1>1. SubjectTypes /\ InnerLoops /\ OtherEvents
  BY DEF SubjectInv
<1>2. ASSUME NEW e \in 1 .. events, Subject!InLoop(e)
      PROVE  Subject!IsPrefix(calls[e], expected[e])
  <2>1. PICK k \in 1 .. Len(loops) : loops[k].event = e
    BY <1>2 DEF Subject!InLoop
  <2>2. loops[k] \in LoopType
    BY <1>1 DEF SubjectTypes
  <2>3. loops[k].next \in Nat /\ loops[k].end \in Nat /\ loops[k].calling \in BOOLEAN
    BY <2>2 DEF LoopType
  <2> DEFINE m == IF loops[k].calling THEN loops[k].next ELSE loops[k].next - 1
             c == calls[e]
             x == expected[e]
  <2>4. /\ Given(c, observers, m) /\ x = observers
        /\ loops[k].end = Len(observers) + 1 /\ 1 <= loops[k].next
        /\ loops[k].next <= loops[k].end
        /\ loops[k].calling => loops[k].next < loops[k].end
    BY <1>1, <2>1 DEF InnerLoops
  <2>5. c \in Seq(Observers) /\ x \in Seq(Observers) /\ Len(x) \in Nat
    <3>1. e \in 1 .. MaxEvents
      BY <1>1, EventsAssumption DEF SubjectTypes
    <3>2. QED
      BY <1>1, <3>1 DEF SubjectTypes
  <2>6. m \in Nat /\ m <= Len(x)
    BY <2>3, <2>4, <2>5
  <2> HIDE DEF m, c, x
  <2>7. Len(c) = m /\ \A i \in 1 .. m : c[i] = x[i]
    BY <2>4 DEF Given
  <2>8. SubSeq(c, 1, Len(c)) = SubSeq(x, 1, Len(c))
    <3> DEFINE u == SubSeq(c, 1, m)
               v == SubSeq(x, 1, m)
    <3>1. /\ u \in Seq(Observers) /\ Len(u) = IF 1 <= m THEN m - 1 + 1 ELSE 0
          /\ \A i \in 1 .. m - 1 + 1 : u[i] = c[1 + i - 1]
      <4>1. \A i \in 1 .. m : c[i] \in Observers
        BY <2>5, <2>7
      <4>2. QED
        BY <2>6, <4>1, SubSeqProperties
    <3>2. /\ v \in Seq(Observers) /\ Len(v) = IF 1 <= m THEN m - 1 + 1 ELSE 0
          /\ \A i \in 1 .. m - 1 + 1 : v[i] = x[1 + i - 1]
      <4>1. \A i \in 1 .. m : x[i] \in Observers
        BY <2>5, <2>6
      <4>2. QED
        BY <2>6, <4>1, SubSeqProperties
    <3> HIDE DEF u, v
    <3>3. Len(u) = m /\ Len(v) = m /\ \A i \in 1 .. m : u[i] = v[i]
      BY <2>6, <2>7, <3>1, <3>2
    <3>4. u = v
      BY <3>1, <3>2, <3>3, SeqEqual
    <3>5. QED
      BY <2>7, <3>4 DEF u, v
  <2>9. QED
    BY <2>6, <2>7, <2>8 DEF Subject!IsPrefix, c, x
<1>3. ASSUME NEW e \in 1 .. events, ~Subject!InLoop(e) PROVE calls[e] = expected[e]
  BY <1>1, <1>3 DEF Subject!InLoop, OtherEvents
<1>4. \A k \in 1 .. Len(observers) : observers[k] \notin removed
  BY <1>1 DEF SubjectTypes
<1>5. QED
  BY <1>1, <1>2, <1>3, <1>4 DEF Subject!EachObserverCalled, SubjectTypes

-----------------------------------------------------------------------------

\* The invariants hold in every reachable state.
LEMMA Steps ==
    ASSUME ActiveInv, [Next]_vars
    PROVE  ActiveInv' /\ (~OtherSetter /\ PlainInv => PlainInv')
<1>1. [Active!Next]_activeVars /\ [Plain!Next]_plainVars
  BY DEF Next, vars
<1>2. QED
  BY <1>1, ActiveStep, PlainStep

\* A step of one object is none of the others, each of which keeps its invariant.
LEMMA ContainerSteps ==
    ASSUME [Next]_vars
    PROVE  /\ ~PopFresh /\ DequeInv => DequeInv'
           /\ ~PushesOwn /\ QueueInv => QueueInv'
           /\ Reentrant \subseteq {"notify"} /\ SubjectInv => SubjectInv'
<1>1. /\ Deque!Next \/ UNCHANGED dequeVars
      /\ Queue!Next \/ UNCHANGED queueVars
      /\ Subject!Next \/ UNCHANGED observerVars
  BY DEF Next, vars
<1>2. QED
  BY <1>1, DequeStep, DequeStutter, QueueStep, QueueStutter, SubjectStep, SubjectStutter

\* What is notified is executed once, in order, or still to be executed, through any
\* number of stops and runs; only after a spurious wakeup, or a run() that overtakes
\* the worker, a task is taken out of an empty vector (Runnable.hpp:253-303).
THEOREM NotifiedInOrder == Spec => []ExecutedInOrder
<1>1. Init => ActiveInv
  BY ActiveInit DEF Init
<1>2. ActiveInv /\ [Next]_vars => ActiveInv'
  BY Steps
<1>3. ActiveInv => ExecutedInOrder
  BY DEF ActiveInv, WokenForReason, ExecutedInOrder, Active!NoEmptyTake
<1>4. QED
  BY <1>1, <1>2, <1>3, PTL DEF Spec

\* One thread at a time calls __work(), that in _t, whose future is not ready and which
\* has the name of the object: also when a run() overtakes a stopped thread, and
\* until the object has gone (Runnable.hpp:67-143).
THEOREM OneWorker ==
    ASSUME ~OtherSetter
    PROVE  Spec => []WorkerIsHandled
<1>1. Init => ActiveInv /\ PlainInv
  BY ActiveInit, PlainInit DEF Init
<1>2. ActiveInv /\ PlainInv /\ [Next]_vars => (ActiveInv /\ PlainInv)'
  BY Steps
<1>3. PlainInv => WorkerIsHandled
  <2> SUFFICES ASSUME PlainInv PROVE WorkerIsHandled
    OBVIOUS
  <2>1. ASSUME NEW i \in 1 .. MaxThreads, tpc[i] \in {"check", "work"}
        PROVE  /\ i = handle /\ i \notin ready /\ upc # "gone"
               /\ upc = "idle" /\ looping => given[i] = name
    BY <2>1 DEF PlainInv, OthersJoined, NamePassedOn, Works
  <2>2. QED
    BY <2>1 DEF WorkerIsHandled, Plain!WorkerIsHandled, Plain!Threads
<1>4. QED
  BY <1>1, <1>2, <1>3, PTL DEF Spec

\* An owner that does not pop before its first push, and any number of thieves, return
\* each item once, whatever steps they are at when the array is replaced or the last
\* item is left; a queue of a fixed size keeps just the latest items, short of a user
\* that pushes what it refers to in the queue itself
\* (LockFreeWorkQueue.hpp:110-196, SizedQueue.hpp:57-62).
THEOREM ItemsTakenOnce ==
    ASSUME ~PopFresh, ~PushesOwn
    PROVE  Spec => []EachItemOnce
<1>1. Init => DequeInv /\ QueueInv
  BY DequeInit, QueueInit DEF Init
<1>2. DequeInv /\ QueueInv /\ [Next]_vars => (DequeInv /\ QueueInv)'
  BY ContainerSteps
<1>3. DequeInv /\ QueueInv => EachItemOnce
  BY PlacedOnce, NumberedKept DEF EachItemOnce
<1>4. QED
  BY <1>1, <1>2, <1>3, PTL DEF Spec

\* Any number of observers that at most notify a next event are called once for each
\* event and registration, in their order, through loops inside loops; nobody is called
\* who has been removed (Observer.hpp:121-173).
THEOREM ObserversCalled ==
    ASSUME Reentrant \subseteq {"notify"}
    PROVE  Spec => []EachObserverCalled
<1>1. Init => SubjectInv
  BY SubjectInit DEF Init
<1>2. SubjectInv /\ [Next]_vars => SubjectInv'
  BY ContainerSteps
<1>3. SubjectInv => EachObserverCalled
  BY LoopsCall DEF EachObserverCalled
<1>4. QED
  BY <1>1, <1>2, <1>3, PTL DEF Spec
=============================================================================
