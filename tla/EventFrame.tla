----------------------------- MODULE EventFrame -----------------------------
(***************************************************************************)
(* The frames of the event protocol as bytes: topic in two, type in one,   *)
(* and the payload.                                                        *)
(***************************************************************************)
EXTENDS Naturals, Sequences

CONSTANTS
    Byte,       \* 256 in the code: the number of values of a byte
    Topics, Types, Payloads,   \* the frames a program sends
    Foreign     \* messages of another program, which may be short

VARIABLES
    frame,    \* <<the frame to be sent>>, <<>> for a message of another program
    raw,      \* the bytes on their way
    read,     \* <<the frame they were read as>>, <<>> before
    stage     \* "new", "raw", "read", or "undefined" when too few bytes were read

vars == <<frame, raw, read, stage>>

Frame(topic, type, payload) == [topic |-> topic, type |-> type, payload |-> payload]

\* Mutant of make: the bytes of the topic in the other order.
makeLittleEndian(f) == <<f.topic % Byte, f.topic \div Byte, f.type>> \o f.payload

\* make()
make(f) == <<f.topic \div Byte, f.topic % Byte, f.type>> \o f.payload

\* parse() of three bytes or more
parse(bytes) == Frame(bytes[1] * Byte + bytes[2], bytes[3], SubSeq(bytes, 4, Len(bytes)))

Init ==
    /\ frame \in {<<Frame(t, y, p)>> : t \in Topics, y \in Types, p \in Payloads} \cup {<<>>}
    /\ raw = <<>> /\ read = <<>>
    /\ stage = "new"

Make ==
    /\ stage = "new" /\ stage' = "raw"
    /\ IF frame = <<>> THEN raw' \in Foreign ELSE raw' = make(frame[1])
    /\ UNCHANGED <<frame, read>>

Parse ==
    /\ stage = "raw" /\ Len(raw) >= 3
    /\ read' = <<parse(raw)>>
    /\ stage' = "read"
    /\ UNCHANGED <<frame, raw>>

\* With fewer than three bytes the assertion stops the program, or, where it is
\* compiled away, what follows in memory is read.
ParseShort ==
    /\ stage = "raw" /\ Len(raw) < 3
    /\ stage' = "undefined"
    /\ UNCHANGED <<frame, raw, read>>

Next == Make \/ Parse \/ ParseShort

Spec == Init /\ [][Next]_vars

-----------------------------------------------------------------------------

\* A frame is read as it was made (EventFrame.hpp:58-86).
ReadAsMade == stage = "read" /\ frame # <<>> => read = frame

\* What the code leaves to its peers: EventFrame.hpp:54 "must be at least 3 bytes long", and
\* AsyncEventTransport.cpp:105 and AsyncEventBroker.cpp:55 read whatever has come.
LongEnough == stage # "undefined"
=============================================================================
