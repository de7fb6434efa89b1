-------------------------- MODULE LockFreeWorkQueue --------------------------
(***************************************************************************)
(* v2::LockFreeWorkQueue (LockFreeWorkQueue.hpp): a Chase-Lev deque.  One  *)
(* owner pushes and pops at the bottom, thieves steal at the top, without  *)
(* a lock; the circular array is replaced by one of twice its size when it *)
(* is three quarters full, and a thief may still look at the old one.      *)
(*                                                                         *)
(* Every access to _top, _bottom, _array and the array is a step, and the  *)
(* steps are sequentially consistent: the fences of pop() and steal() order *)
(* the store of one and the load of the other, and the release fence of    *)
(* push() orders the item and its index.  Indices have IndexModulus values *)
(* (size_t).  The counters for monitoring are left out.                    *)
(***************************************************************************)
EXTENDS Naturals, Sequences, FiniteSets

CONSTANTS
    Thieves,
    MaxItems,       \* bound on the pushes; the items are 1 .. MaxItems
    InitialSize,    \* the constructor's argument
    IndexModulus,   \* 2^w of the indices, more than MaxItems + 1
    PopFresh        \* the owner may pop before it has ever pushed

VARIABLES
    top, bottom,   \* _top and _bottom
    arrays,        \* the arrays made so far; _array is the last one
    opc,           \* where the owner is
    obottom, otop, \* its locals bottom and top
    pushed,        \* the number of items pushed
    result,        \* what the owner's pop() has read
    tpc,           \* tpc[t]: where thief t is
    ttop, tarray, tresult,   \* the thieves' locals top, array and result
    taken          \* the items returned, in order (history)

ownerVars == <<opc, obottom, otop, pushed, result>>
thiefVars == <<tpc, ttop, tarray, tresult>>
vars == <<top, bottom, arrays, ownerVars, thiefVars, taken>>

\* Memory of new T[size] that nothing has been put into
Garbage == 0

\* The smallest power of two that is not below n
nextPowerOf2(n) ==
    CHOOSE p \in 1 .. 2 * n + 1 :
        /\ p >= n
        /\ \E k \in 0 .. n : p = 2 ^ k
        /\ \A k \in 0 .. n : 2 ^ k >= n => p <= 2 ^ k

\* A circular array: its size is that of its domain.
New(size) == [i \in 0 .. size - 1 |-> Garbage]
Size(a) == Cardinality(DOMAIN a)
Get(a, index) == a[index % Size(a)]
Put(a, index, item) == [a EXCEPT ![index % Size(a)] = item]

\* Mutant of Resize: the items keep the places they had in the old array.
ResizeInPlace(a, b, t) ==
    [i \in 0 .. 2 * Size(a) - 1 |-> IF i < Size(a) THEN a[i] ELSE Garbage]

\* CircularArray::resize: the items of top .. bottom-1, at their new places
Resize(a, b, t) ==
    LET size == 2 * Size(a)
    IN  [i \in 0 .. size - 1 |->
            IF \E j \in t .. b - 1 : j % size = i
            THEN Get(a, CHOOSE j \in t .. b - 1 : j % size = i)
            ELSE Garbage]

Array == arrays[Len(arrays)]
PutArray(index, item) == [arrays EXCEPT ![Len(arrays)] = Put(@, index, item)]

Init ==
    /\ top = 0 /\ bottom = 0
    /\ arrays = <<New(nextPowerOf2(InitialSize))>>
    /\ opc = "idle"
    /\ obottom = 0 /\ otop = 0
    /\ pushed = 0
    /\ result = Garbage
    /\ tpc = [t \in Thieves |-> "idle"]
    /\ ttop = [t \in Thieves |-> 0]
    /\ tarray = [t \in Thieves |-> 1]
    /\ tresult = [t \in Thieves |-> Garbage]
    /\ taken = <<>>

OGoto(from, to) == opc = from /\ opc' = to
TGoto(t, from, to) == tpc[t] = from /\ tpc' = [tpc EXCEPT ![t] = to]

-----------------------------------------------------------------------------
(* The owner: push                                                         *)

\* The loads of _bottom and _top
PushLoad ==
    /\ OGoto("idle", "grow")
    /\ pushed < MaxItems
    /\ obottom' = bottom /\ otop' = top
    /\ UNCHANGED <<top, bottom, arrays, pushed, result, thiefVars, taken>>

\* if (bottom - top >= _size * 3 / 4) the array is replaced.
PushGrow ==
    /\ OGoto("grow", "put")
    /\ arrays' = IF obottom - otop >= (Size(Array) * 3) \div 4
                 THEN Append(arrays, Resize(Array, obottom, otop))
                 ELSE arrays
    /\ UNCHANGED <<top, bottom, obottom, otop, pushed, result, thiefVars, taken>>

PushPut ==
    /\ OGoto("put", "publish")
    /\ arrays' = PutArray(obottom, pushed + 1)
    /\ UNCHANGED <<top, bottom, obottom, otop, pushed, result, thiefVars, taken>>

\* _bottom.store(bottom + 1)
PushPublish ==
    /\ OGoto("publish", "idle")
    /\ bottom' = (obottom + 1) % IndexModulus
    /\ pushed' = pushed + 1
    /\ UNCHANGED <<top, arrays, obottom, otop, result, thiefVars, taken>>

-----------------------------------------------------------------------------
(* The owner: pop                                                          *)

\* bottom = _bottom - 1, stored before _top is read; zero wraps around.
PopReserve ==
    /\ OGoto("idle", "top")
    /\ pushed = 0 => PopFresh
    /\ obottom' = (bottom + IndexModulus - 1) % IndexModulus
    /\ bottom' = obottom'
    /\ UNCHANGED <<top, arrays, otop, pushed, result, thiefVars, taken>>

PopTop ==
    /\ OGoto("top", IF top <= obottom THEN "get" ELSE "restore")
    /\ otop' = top
    /\ UNCHANGED <<top, bottom, arrays, obottom, pushed, result, thiefVars, taken>>

\* Mutant of PopGet: the last item is taken without the race for it.
PopGetLast ==
    /\ opc = "get"
    /\ taken' = Append(taken, Get(Array, obottom))
    /\ result' = Get(Array, obottom)
    /\ opc' = IF otop = obottom THEN "restore" ELSE "idle"
    /\ UNCHANGED <<top, bottom, arrays, obottom, otop, pushed, thiefVars>>

\* result = array->get(bottom): it is the owner's, unless it is the last one.
PopGet ==
    /\ opc = "get"
    /\ result' = Get(Array, obottom)
    /\ IF otop = obottom
          THEN opc' = "race" /\ taken' = taken
          ELSE opc' = "idle" /\ taken' = Append(taken, result')
    /\ UNCHANGED <<top, bottom, arrays, obottom, otop, pushed, thiefVars>>

\* _top.compare_exchange_strong(top, top + 1)
PopRace ==
    /\ OGoto("race", "restore")
    /\ IF top = otop
          THEN top' = (otop + 1) % IndexModulus /\ taken' = Append(taken, result)
          ELSE UNCHANGED <<top, taken>>
    /\ UNCHANGED <<bottom, arrays, obottom, otop, pushed, result, thiefVars>>

\* _bottom.store(bottom + 1)
PopRestore ==
    /\ OGoto("restore", "idle")
    /\ bottom' = (obottom + 1) % IndexModulus
    /\ UNCHANGED <<top, arrays, obottom, otop, pushed, result, thiefVars, taken>>

Owner ==
    \/ PushLoad \/ PushGrow \/ PushPut \/ PushPublish
    \/ PopReserve \/ PopTop \/ PopGet \/ PopRace \/ PopRestore

-----------------------------------------------------------------------------
(* A thief: steal                                                          *)

StealTop(t) ==
    /\ TGoto(t, "idle", "bottom")
    /\ ttop' = [ttop EXCEPT ![t] = top]
    /\ UNCHANGED <<top, bottom, arrays, ownerVars, tarray, tresult, taken>>

StealBottom(t) ==
    /\ TGoto(t, "bottom", IF ttop[t] < bottom THEN "array" ELSE "idle")
    /\ UNCHANGED <<top, bottom, arrays, ownerVars, ttop, tarray, tresult, taken>>

StealArray(t) ==
    /\ TGoto(t, "array", "get")
    /\ tarray' = [tarray EXCEPT ![t] = Len(arrays)]
    /\ UNCHANGED <<top, bottom, arrays, ownerVars, ttop, tresult, taken>>

StealGet(t) ==
    /\ TGoto(t, "get", "race")
    /\ tresult' = [tresult EXCEPT ![t] = Get(arrays[tarray[t]], ttop[t])]
    /\ UNCHANGED <<top, bottom, arrays, ownerVars, ttop, tarray, taken>>

StealRace(t) ==
    /\ TGoto(t, "race", "idle")
    /\ IF top = ttop[t]
          THEN top' = (top + 1) % IndexModulus /\ taken' = Append(taken, tresult[t])
          ELSE UNCHANGED <<top, taken>>
    /\ UNCHANGED <<bottom, arrays, ownerVars, ttop, tarray, tresult>>

Thief(t) ==
    StealTop(t) \/ StealBottom(t) \/ StealArray(t) \/ StealGet(t) \/ StealRace(t)

Next == Owner \/ \E t \in Thieves : Thief(t)

Spec == Init /\ [][Next]_vars

-----------------------------------------------------------------------------
(* Properties                                                              *)

TypeOK ==
    /\ {top, bottom, obottom, otop} \subseteq 0 .. IndexModulus - 1
    /\ opc \in {"idle", "grow", "put", "publish", "top", "get", "race", "restore"}
    /\ pushed \in 0 .. MaxItems
    /\ result \in 0 .. MaxItems
    /\ tpc \in [Thieves -> {"idle", "bottom", "array", "get", "race"}]
    /\ ttop \in [Thieves -> 0 .. IndexModulus - 1]
    /\ tarray \in [Thieves -> 1 .. Len(arrays)]
    /\ tresult \in [Thieves -> 0 .. MaxItems]
    /\ taken \in Seq(0 .. MaxItems)

\* Every item that has been pushed has been returned once, or lies in its place
\* between _top and _bottom of the array in use; nothing else is returned, while
\* the owner and thieves race for the last item and the array is replaced under
\* them (LockFreeWorkQueue.hpp:110-196).
Takes(i) == Cardinality({k \in 1 .. Len(taken) : taken[k] = i})
Queued == {Get(Array, k) : k \in top .. bottom - 1}
EachItemOnce ==
    /\ \A k \in 1 .. Len(taken) : taken[k] \in 1 .. pushed
    /\ \A i \in 1 .. pushed : Takes(i) <= 1
    /\ opc = "idle" => \A i \in 1 .. pushed : Takes(i) = 1 <=> i \notin Queued
=============================================================================
