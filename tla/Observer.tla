------------------------------ MODULE Observer ------------------------------
(***************************************************************************)
(* common::Subject (Observer.hpp): a vector of observers that are called   *)
(* one after the other for each event, on the thread that notifies.        *)
(*                                                                         *)
(* notify() iterates over the vector itself.  An observer may call the     *)
(* subject from its onEvent: the vector is then changed under the loop.    *)
(* An iterator of a vector that has moved is a fault; so is one that has   *)
(* come to an element behind the end.                                      *)
(***************************************************************************)
EXTENDS Naturals, Sequences, SequencesExt

CONSTANTS
    Observers,
    MaxObservers,   \* bound on the registrations at one time
    MaxEvents,      \* bound on the notifications
    Reentrant       \* what onEvent may call: "notify", "regist", "unregist"

VARIABLES
    observers,    \* _observers
    capacity,     \* of the vector
    memory,       \* how often the vector has moved to new memory
    events,       \* the number of notifications
    loops,        \* the calls of notify() in progress, the innermost last
    calls,        \* calls[e]: the observers called for event e (history)
    expected,     \* expected[e]: the observers when e was notified (history)
    removed,      \* who has been removed and not registered since (history)
    fault         \* an invalid iterator has been used

vars == <<observers, capacity, memory, events, loops, calls, expected, removed, fault>>

Events == 1 .. MaxEvents

Init ==
    /\ observers = <<>>
    /\ capacity = 0
    /\ memory = 0
    /\ events = 0
    /\ loops = <<>>
    /\ calls = [e \in Events |-> <<>>]
    /\ expected = [e \in Events |-> <<>>]
    /\ removed = {}
    /\ fault = FALSE

\* The subject is called between notifications, or from onEvent.
May(call) == loops # <<>> => call \in Reentrant /\ Last(loops).calling

\* _observers.emplace_back: a full vector moves to twice the memory.
regist(o) ==
    /\ May("regist")
    /\ Len(observers) < MaxObservers
    /\ observers' = Append(observers, o)
    /\ IF Len(observers) = capacity
          THEN /\ capacity' = IF capacity = 0 THEN 1 ELSE 2 * capacity
               /\ memory' = memory + 1
          ELSE UNCHANGED <<capacity, memory>>
    /\ removed' = removed \ {o}
    /\ UNCHANGED <<events, loops, calls, expected, fault>>

\* Mutant of Without: the first registration only.
WithoutFirst(o) ==
    IF \E k \in 1 .. Len(observers) : observers[k] = o
    THEN RemoveAt(observers, CHOOSE k \in 1 .. Len(observers) :
            observers[k] = o /\ \A j \in 1 .. k - 1 : observers[j] # o)
    ELSE observers

\* std::remove_if and erase: what is not o moves up, in its order.
Without(o) ==
    LET kept[k \in 0 .. Len(observers)] ==
            IF k = 0 THEN <<>>
            ELSE IF observers[k] = o THEN kept[k - 1] ELSE Append(kept[k - 1], observers[k])
    IN  kept[Len(observers)]

unregist(o) ==
    /\ May("unregist")
    /\ observers' = Without(o)
    /\ removed' = removed \cup {o}
    /\ UNCHANGED <<capacity, memory, events, loops, calls, expected, fault>>

\* notify(): begin() and end() are evaluated once.
notify ==
    /\ May("notify")
    /\ events < MaxEvents
    /\ events' = events + 1
    /\ loops' = Append(loops, [event |-> events', next |-> 1, end |-> Len(observers) + 1,
                               memory |-> memory, calling |-> FALSE])
    /\ expected' = [expected EXCEPT ![events'] = observers]
    /\ UNCHANGED <<observers, capacity, memory, calls, removed, fault>>

Loop == Last(loops)
SetLoop(loop) == loops' = Append(Front(loops), loop)

\* for(auto observer : _observers): the element is copied, then called.
CallNext ==
    /\ loops # <<>> /\ ~Loop.calling
    /\ Loop.next # Loop.end
    /\ IF Loop.memory # memory \/ Loop.next > Len(observers)
          THEN fault' = TRUE /\ UNCHANGED <<loops, calls>>
          ELSE /\ calls' = [calls EXCEPT ![Loop.event] = Append(@, observers[Loop.next])]
               /\ SetLoop([Loop EXCEPT !.calling = TRUE])
               /\ fault' = fault
    /\ UNCHANGED <<observers, capacity, memory, events, expected, removed>>

\* onEvent returns.
CallReturns ==
    /\ loops # <<>> /\ Loop.calling
    /\ SetLoop([Loop EXCEPT !.calling = FALSE, !.next = @ + 1])
    /\ UNCHANGED <<observers, capacity, memory, events, calls, expected, removed, fault>>

NotifyReturns ==
    /\ loops # <<>> /\ ~Loop.calling
    /\ Loop.next = Loop.end
    /\ loops' = Front(loops)
    /\ UNCHANGED <<observers, capacity, memory, events, calls, expected, removed, fault>>

Next ==
    /\ ~fault
    /\ \/ \E o \in Observers : regist(o) \/ unregist(o)
       \/ notify \/ CallNext \/ CallReturns \/ NotifyReturns

Spec == Init /\ [][Next]_vars

-----------------------------------------------------------------------------
(* Properties                                                              *)

TypeOK ==
    /\ Len(observers) <= MaxObservers /\ Len(observers) <= capacity
    /\ \A k \in 1 .. Len(observers) : observers[k] \in Observers
    /\ events \in 0 .. MaxEvents
    /\ Len(loops) <= events
    /\ fault \in BOOLEAN

\* Each event is given to the observers that were registered when it was
\* notified, in their order and once for each registration, also when an onEvent
\* notifies the next event before it returns; nobody is called who has been
\* removed (Observer.hpp:121-173).
InLoop(e) == \E k \in 1 .. Len(loops) : loops[k].event = e
EachObserverCalled ==
    /\ ~fault
    /\ \A e \in 1 .. events :
          IF InLoop(e) THEN IsPrefix(calls[e], expected[e])
                       ELSE calls[e] = expected[e]
    /\ \A k \in 1 .. Len(observers) : observers[k] \notin removed
=============================================================================
