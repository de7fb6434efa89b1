------------------------------ MODULE Message ------------------------------
(***************************************************************************)
(* Message<DataType>, a channel over a System V message queue (Linux).     *)
(*                                                                         *)
(* Objects, of the same or of different processes, find the queue by a key *)
(* that ftok() makes from a file.  The kernel never gives an identifier to *)
(* a second queue.  DataType is a structure of bytes: of a std::string the *)
(* code would send what points to the characters.                          *)
(***************************************************************************)
EXTENDS Naturals, Sequences

CONSTANTS
    Objects,     \* the Message objects
    FileOf,      \* [Objects -> files], the first argument of create()
    Missing,     \* the files there are not, for which ftok() returns -1
    SizeOf,      \* [Objects -> Nat], sizeof(DataType)
    Capacity,    \* messages a queue of the kernel holds
    MaxQueues,   \* bound on the queues that are made ...
    MaxSends     \* ... and on the messages sent

VARIABLES
    id,         \* [Objects -> 0 .. MaxQueues]: _id, 0 for -1 and before create()
    created,    \* the objects create() has made
    keyOf,      \* the keys of the kernel's queues, in the order they were made
    live,       \* the queues not removed
    content,    \* their messages, each with its number and its size
    sent,       \* how many messages send() was asked to send
    accepted,   \* the messages in each queue for which send() returned true (history)
    received    \* what recv() returned from it, the default value aside (history)

vars == <<id, created, keyOf, live, content, sent, accepted, received>>
kernel == <<keyOf, live, content>>

Queues == DOMAIN keyOf
None == "none"
Key(o) == IF FileOf[o] \in Missing THEN None ELSE FileOf[o]

Init ==
    /\ id = [o \in Objects |-> 0]
    /\ created = {}
    /\ keyOf = <<>> /\ live = {} /\ content = <<>>
    /\ sent = 0
    /\ accepted = <<>> /\ received = <<>>

\* __create(): msgget() finds the queue of the key or makes it, or fails.
CreateFinds(o) ==
    /\ o \notin created
    /\ \E k \in live : keyOf[k] = Key(o) /\ id' = [id EXCEPT ![o] = k]
    /\ created' = created \cup {o}
    /\ UNCHANGED <<kernel, sent, accepted, received>>

CreateMakes(o) ==
    /\ o \notin created /\ \A k \in live : keyOf[k] # Key(o)
    /\ Len(keyOf) < MaxQueues
    /\ id' = [id EXCEPT ![o] = Len(keyOf) + 1]
    /\ created' = created \cup {o}
    /\ keyOf' = Append(keyOf, Key(o))
    /\ live' = live \cup {Len(keyOf) + 1}
    /\ content' = Append(content, <<>>)
    /\ accepted' = Append(accepted, <<>>)
    /\ received' = Append(received, <<>>)
    /\ UNCHANGED sent

CreateFails(o) ==
    /\ o \notin created /\ \A k \in live : keyOf[k] # Key(o)
    /\ created' = created \cup {o}
    /\ UNCHANGED <<id, kernel, sent, accepted, received>>

\* send(): msgsnd() waits for room ...
Send(o) ==
    LET message == [n |-> sent + 1, size |-> SizeOf[o]]
    IN  /\ id[o] \in live /\ sent < MaxSends
        /\ Len(content[id[o]]) < Capacity
        /\ sent' = sent + 1
        /\ content' = [content EXCEPT ![id[o]] = Append(@, message)]
        /\ accepted' = [accepted EXCEPT ![id[o]] = Append(@, message)]
        /\ UNCHANGED <<id, created, keyOf, live, received>>

\* ... and fails when interrupted, or when the queue is removed: false is returned.
SendFails(o) ==
    /\ o \in created /\ sent < MaxSends
    /\ id[o] \in live => Len(content[id[o]]) = Capacity
    /\ sent' = sent + 1
    /\ UNCHANGED <<id, created, kernel, accepted, received>>

\* Mutant of Recv: the size is not looked at.
RecvAnySize(o) ==
    /\ id[o] \in live /\ content[id[o]] # <<>>
    /\ content' = [content EXCEPT ![id[o]] = Tail(@)]
    /\ received' = [received EXCEPT ![id[o]] =
          Append(@, [Head(content[id[o]]) EXCEPT !.size = SizeOf[o]])]
    /\ UNCHANGED <<id, created, keyOf, live, sent, accepted>>

\* recv() of a message that fits.  One that is shorter than DataType is taken and
\* the default value returned; one that is longer stays and makes msgrcv() fail.
Recv(o) ==
    /\ id[o] \in live /\ content[id[o]] # <<>>
    /\ LET message == Head(content[id[o]])
       IN  /\ message.size <= SizeOf[o]
           /\ received' = IF message.size = SizeOf[o]
                          THEN [received EXCEPT ![id[o]] = Append(@, message)] ELSE received
    /\ content' = [content EXCEPT ![id[o]] = Tail(@)]
    /\ UNCHANGED <<id, created, keyOf, live, sent, accepted>>

\* close(): the queue is removed with all it holds, for all its objects.
Close(o) ==
    /\ id[o] \in live
    /\ live' = live \ {id[o]}
    /\ content' = [content EXCEPT ![id[o]] = <<>>]
    /\ UNCHANGED <<id, created, keyOf, sent, accepted, received>>

Next ==
    \E o \in Objects :
        \/ CreateFinds(o) \/ CreateMakes(o) \/ CreateFails(o)
        \/ Send(o) \/ SendFails(o) \/ Recv(o) \/ Close(o)

Spec == Init /\ [][Next]_vars

-----------------------------------------------------------------------------
(* Properties                                                              *)

\* recv() returns messages as they were sent, in order and each once, and none that
\* send() has called a failure (Message.hpp:58-101).
ReceivedAsSent ==
    \A k \in Queues : \E f \in [DOMAIN received[k] -> DOMAIN accepted[k]] :
        /\ \A i, j \in DOMAIN received[k] : i < j => f[i] < f[j]
        /\ \A i \in DOMAIN received[k] : received[k][i] = accepted[k][f[i]]

-----------------------------------------------------------------------------
(* What the code does not keep to                                          *)

\* Objects of different types on one queue lose messages of each other.
NothingSkipped ==
    \A k \in live : accepted[k] = received[k] \o content[k]

\* test_Message.cpp:36 creates a message for a file nobody makes: all such objects
\* share the queue of the key -1.
FilesApart ==
    \A o1, o2 \in Objects : id[o1] = id[o2] /\ id[o1] \in live => FileOf[o1] = FileOf[o2]
=============================================================================
