----------------------------- MODULE MCMessages -----------------------------
(* What carries messages, one of which a behaviour is about: the framing of  *)
(* AsyncTcp, the loops of AsyncUdp, the System V queues of Message and the   *)
(* bytes of event frames.                                                    *)
EXTENDS Naturals, Sequences

CONSTANTS
    Messages, Size, HeaderModulus, MaxGarbage, OneAtATime,
    Loops, Sends, MaxDatagrams, Reopens, WaitsLoops,
    Objects, FileOf, Missing, SizeOf, Capacity, MaxQueues, MaxSends,
    Byte, Topics, Types, Payloads, Foreign,
    m1, m2, m3, o1, o2, o3

ASSUME FramingAssumption == Size \in [Messages -> Nat] /\ HeaderModulus \in Nat \ {0}
ASSUME DatagramsAssumption == MaxDatagrams \in Nat
ASSUME QueuesAssumption == SizeOf \in [Objects -> Nat] /\ {Capacity, MaxQueues, MaxSends} \subseteq Nat
ASSUME FramesAssumption ==
    Byte \in Nat \ {0} /\ Topics \subseteq Nat /\ Payloads \subseteq Seq(Nat)

VARIABLES
    subject,
    sent, written, stream, open, phase, need, delivered, error, peerOpen,
    udpOpen, opened, alive, wire, arrived, buffer, sender, lpc, copy, given, lost, spc, fault,
    id, created, keyOf, live, content, sends, accepted, received,
    frame, raw, read, stage

tcpVars == <<sent, written, stream, open, phase, need, delivered, error, peerOpen>>
udpVars == <<udpOpen, opened, alive, wire, arrived, buffer, sender, lpc, copy, given, lost,
             spc, fault>>
queueVars == <<id, created, keyOf, live, content, sends, accepted, received>>
frameVars == <<frame, raw, read, stage>>

\* Messages of no, one and two units
ThreeMessages == {m1, m2, m3}
UpToTwoUnits == [m \in Messages |-> CASE m = m1 -> 0 [] m = m2 -> 1 [] m = m3 -> 2]

\* o3 uses a file of its own, and o2 a larger type.
ThreeObjects == {o1, o2, o3}
OneFileApart == [o \in Objects |-> IF o = o3 THEN "g" ELSE "f"]
OneLargerType == [o \in Objects |-> IF o = o2 THEN 2 ELSE 1]

ShortPayloads == {<<>>, <<1>>, <<0, 3>>}
ShortOrNot == {<<>>, <<1, 2>>, <<1, 2, 0>>}

Tcp == INSTANCE TcpFraming
Udp == INSTANCE AsyncUdp WITH open <- udpOpen, delivered <- given
Queue == INSTANCE Message WITH sent <- sends
Event == INSTANCE EventFrame

Init ==
    /\ Tcp!Init /\ Udp!Init /\ Queue!Init
    /\ subject \in {"tcp", "udp", "queue", "frame"}
    /\ IF subject = "frame" THEN Event!Init
                            ELSE frame = <<>> /\ raw = <<>> /\ read = <<>> /\ stage = "new"

Next ==
    /\ UNCHANGED subject
    /\ \/ subject = "tcp" /\ Tcp!Next /\ UNCHANGED <<udpVars, queueVars, frameVars>>
       \/ subject = "udp" /\ Udp!Next /\ UNCHANGED <<tcpVars, queueVars, frameVars>>
       \/ subject = "queue" /\ Queue!Next /\ UNCHANGED <<tcpVars, udpVars, frameVars>>
       \/ subject = "frame" /\ Event!Next /\ UNCHANGED <<tcpVars, udpVars, queueVars>>

Spec ==
    /\ Init /\ [][Next]_<<subject, tcpVars, udpVars, queueVars, frameVars>>
    /\ Tcp!Fairness

-----------------------------------------------------------------------------

\* Frames that come in pieces are delivered whole and in order
\* (AsyncTcp.cpp:70-134).
DeliversInOrder == Tcp!DeliversInOrder

\* What is sent arrives, unless the sender disconnects (AsyncTcp.cpp:70-134).
SentIsDelivered == Tcp!SentIsDelivered

\* A receiver hears of a disconnect, also in the middle of a frame
\* (AsyncTcp.cpp:79-108).
DisconnectIsTold == Tcp!DisconnectIsTold

\* What is received is what was sent, each message once: the datagrams of one
\* receive loop with their senders, across close() and open(), the messages of a
\* queue whose objects disagree on their type, and the fields of a frame
\* (AsyncUdp.cpp:65-87, Message.hpp:58-101, EventFrame.hpp:58-86).
ReceivedAsSent == Udp!DatagramsIntact /\ Queue!ReceivedAsSent /\ Event!ReadAsMade
=============================================================================
