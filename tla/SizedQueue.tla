----------------------------- MODULE SizedQueue -----------------------------
(***************************************************************************)
(* SizedQueue, a queue that drops its oldest item when one too many is     *)
(* pushed.                                                                 *)
(*                                                                         *)
(* Items are told apart by the order of their pushes.  Taking an item from *)
(* an empty queue is the caller's mistake and left out.                    *)
(***************************************************************************)
EXTENDS Naturals, Sequences, Functions

CONSTANTS
    Size,        \* the template argument _size
    MaxPushes,   \* bound on the pushes
    PushesOwn    \* whether the user pushes what front() or back() refer to

VARIABLES
    q,        \* the queue
    pushed,   \* all items pushed, in order (history)
    popped,   \* those that pop_front() took (history)
    dropped   \* those that made room (history)

vars == <<q, pushed, popped, dropped>>

Garbage == 0

Init == q = <<>> /\ pushed = <<>> /\ popped = <<>> /\ dropped = <<>>

\* Mutant of MakeRoom: the queue holds one item more.
MakeRoomLate == IF Len(q) > Size THEN Tail(q) ELSE q

\* emplace_back(): the oldest item goes, should the queue be full.
MakeRoom == IF Len(q) = Size THEN Tail(q) ELSE q

Emplace(meant, x) ==
    /\ Len(pushed) < MaxPushes
    /\ q' = Append(MakeRoom, x)
    /\ dropped' = IF MakeRoom = q THEN dropped ELSE Append(dropped, Head(q))
    /\ pushed' = Append(pushed, meant)
    /\ UNCHANGED popped

Push == Emplace(Len(pushed) + 1, Len(pushed) + 1)

\* push_back(front()): in a full queue the item is destroyed before it is copied.
PushFront ==
    /\ PushesOwn /\ q # <<>>
    /\ \E x \in IF Len(q) = Size THEN {Head(q), Garbage} ELSE {Head(q)} : Emplace(Head(q), x)

PopFront ==
    /\ q # <<>>
    /\ q' = Tail(q)
    /\ popped' = Append(popped, Head(q))
    /\ UNCHANGED <<pushed, dropped>>

Next == Push \/ PushFront \/ PopFront

Spec == Init /\ [][Next]_vars

-----------------------------------------------------------------------------

\* The queue holds the latest items, at most Size of them, and an item is dropped
\* only for the one Size places after it (SizedQueue.hpp:57-60).
LatestKept ==
    /\ Len(q) <= Size
    /\ q = SubSeq(pushed, Len(pushed) - Len(q) + 1, Len(pushed))
    /\ Len(popped) + Len(dropped) + Len(q) = Len(pushed)
    /\ \A i, j \in DOMAIN popped : i < j => popped[i] < popped[j]
    /\ \A d \in Range(dropped) : d + Size <= Len(pushed)

\* What the code does not keep to: SizedQueue.hpp:54 takes its argument by
\* reference, also one to its own oldest item, and stores what is left of it.
OwnItemsKept == Garbage \notin Range(q)
=============================================================================
