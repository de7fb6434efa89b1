----------------------------- MODULE TcpFraming -----------------------------
(***************************************************************************)
(* The length-prefix framing of AsyncTcpSocket (AsyncTcp.cpp): send() at   *)
(* one end of a connection and the receive() loop at the other.            *)
(*                                                                         *)
(* A frame is a header, here one unit, and the units of the payload.       *)
(* async_write passes a frame to the stream in pieces; two async_writes    *)
(* that are in progress at the same time interleave their pieces.          *)
(***************************************************************************)
EXTENDS Naturals, Sequences, SequencesExt

CONSTANTS
    Messages,        \* the messages, each sent once
    Size,            \* Size[m]: the number of units of the payload of m
    HeaderModulus,   \* 2^32, the range of the uint32_t in the header
    MaxGarbage,      \* bound on the length found in a header that is none
    OneAtATime       \* whether send() is called only after the last onSend

VARIABLES
    sent,       \* the messages passed to send(), in order
    written,    \* written[m]: the units of m's frame that are in the stream
    stream,     \* the units on their way: <<m, 0>> is m's header
    open,       \* the sender's socket is open
    phase,      \* what the receive loop reads
    need,       \* the length of the payload it reads
    delivered,  \* the payloads passed to onReceive, in order
    error,      \* the error passed to the receiver's onError
    peerOpen    \* the receiver's socket is open

sendVars == <<sent, written, open>>
receiveVars == <<phase, need, delivered, error, peerOpen>>
vars == <<sendVars, stream, receiveVars>>

FrameLen(m) == Size[m] + 1
Payload(m) == [i \in 1 .. Size[m] |-> <<m, i>>]
Writing == {m \in ToSet(sent) : written[m] < FrameLen(m)}

Init ==
    /\ sent = <<>>
    /\ written = [m \in Messages |-> 0]
    /\ stream = <<>>
    /\ open = TRUE
    /\ phase = "header"
    /\ need = 0
    /\ delivered = <<>>
    /\ error = "none"
    /\ peerOpen = TRUE

-----------------------------------------------------------------------------
(* The sender                                                              *)

\* send(): async_write begins.
Send(m) ==
    /\ open
    /\ m \notin ToSet(sent)
    /\ OneAtATime => Writing = {}
    /\ sent' = Append(sent, m)
    /\ UNCHANGED <<written, open, stream, receiveVars>>

\* async_write_some passes some more units of m's frame.
WriteSome(m) ==
    /\ open
    /\ m \in Writing
    /\ \E n \in written[m] + 1 .. FrameLen(m) :
          /\ stream' = stream \o [i \in 1 .. n - written[m] |-> <<m, written[m] + i - 1>>]
          /\ written' = [written EXCEPT ![m] = n]
    /\ UNCHANGED <<sent, open, receiveVars>>

\* disconnect(): the writes in progress are abandoned.
Disconnect ==
    /\ open
    /\ open' = FALSE
    /\ UNCHANGED <<sent, written, stream, receiveVars>>

-----------------------------------------------------------------------------
(* The receive loop                                                        *)

\* Mutant of ReadHeader: the header counts itself.
ReadHeaderWhole ==
    /\ phase = "header" /\ stream # <<>>
    /\ stream' = Tail(stream)
    /\ need' = Size[Head(stream)[1]] + 1
    /\ phase' = "payload"
    /\ UNCHANGED <<sendVars, delivered, error, peerOpen>>

\* async_read of the header: any unit that comes next is taken for one.
ReadHeader ==
    /\ phase = "header" /\ stream # <<>>
    /\ stream' = Tail(stream)
    /\ LET u == Head(stream)
       IN  need' \in IF u[2] = 0 THEN {Size[u[1]] % HeaderModulus} ELSE 0 .. MaxGarbage
    /\ phase' = "payload"
    /\ UNCHANGED <<sendVars, delivered, error, peerOpen>>

\* Mutant of ReadPayload: async_read_some, whatever has arrived.
ReadPayloadSome ==
    /\ phase = "payload" /\ stream # <<>> /\ phase' = "header"
    /\ \E n \in 1 .. Len(stream) :
          /\ n <= need
          /\ delivered' = Append(delivered, SubSeq(stream, 1, n))
          /\ stream' = SubSeq(stream, n + 1, Len(stream))
    /\ need' = 0
    /\ UNCHANGED <<sendVars, error, peerOpen>>

\* Mutant of ReadPayload: the loop is not continued.
ReadPayloadOnce ==
    /\ phase = "payload" /\ Len(stream) >= need /\ phase' = "stopped"
    /\ delivered' = Append(delivered, SubSeq(stream, 1, need))
    /\ stream' = SubSeq(stream, need + 1, Len(stream))
    /\ need' = 0
    /\ UNCHANGED <<sendVars, error, peerOpen>>

\* async_read of the payload: onReceive, then receive() again.
ReadPayload ==
    /\ phase = "payload" /\ Len(stream) >= need /\ phase' = "header"
    /\ delivered' = Append(delivered, SubSeq(stream, 1, need))
    /\ stream' = SubSeq(stream, need + 1, Len(stream))
    /\ need' = 0
    /\ UNCHANGED <<sendVars, error, peerOpen>>

\* The stream ends before a header: the socket is closed and onError called.
HeaderEof ==
    /\ phase = "header" /\ ~open /\ stream = <<>> /\ phase' = "stopped"
    /\ error' = "CONNECTION_LOST"
    /\ peerOpen' = FALSE
    /\ UNCHANGED <<sendVars, stream, need, delivered>>

\* Mutant of PayloadEof: the error is only logged.
PayloadEofSilent ==
    /\ phase = "payload" /\ ~open /\ Len(stream) < need /\ phase' = "stopped"
    /\ need' = 0
    /\ UNCHANGED <<sendVars, stream, delivered, error, peerOpen>>

\* The stream ends within a payload: onError is called and the socket stays open.
PayloadEof ==
    /\ phase = "payload" /\ ~open /\ Len(stream) < need /\ phase' = "stopped"
    /\ error' = "RECEIVE_FAILURE"
    /\ need' = 0
    /\ UNCHANGED <<sendVars, stream, delivered, peerOpen>>

Receive == ReadHeader \/ ReadPayload \/ HeaderEof \/ PayloadEof

-----------------------------------------------------------------------------

Next ==
    \/ \E m \in Messages : Send(m) \/ WriteSome(m)
    \/ Disconnect
    \/ Receive

Spec == Init /\ [][Next]_vars

\* A write in progress and the receive loop go on while there is something to
\* write and to read.  Nobody has to send or disconnect.
Fairness ==
    /\ \A m \in Messages : WF_vars(WriteSome(m))
    /\ WF_vars(Receive)

FairSpec == Spec /\ Fairness

-----------------------------------------------------------------------------
(* Properties                                                              *)

\* Every variable keeps its type; a payload is expected only while it is read,
\* and is never longer than the longest message.
TypeOK ==
    /\ sent \in Seq(Messages)
    /\ written \in [Messages -> Nat] /\ \A m \in Messages : written[m] <= FrameLen(m)
    /\ stream \in Seq(Messages \X Nat)
    /\ open \in BOOLEAN
    /\ phase \in {"header", "payload", "stopped"}
    /\ IF phase = "payload" THEN \E m \in Messages : need <= Size[m] ELSE need = 0
    /\ delivered \in Seq(Seq(Messages \X Nat))
    /\ error \in {"none", "CONNECTION_LOST", "RECEIVE_FAILURE"}
    /\ peerOpen \in BOOLEAN

\* What onReceive is passed is the payloads of the messages, whole and in the
\* order of send(), if the sender waits for each onSend (AsyncTcp.cpp:70-134).
DeliversInOrder ==
    IsPrefix(delivered, [i \in DOMAIN sent |-> Payload(sent[i])])

\* A message is delivered unless the sender disconnects (AsyncTcp.cpp:70-134).
SentIsDelivered ==
    \A m \in Messages :
        m \in ToSet(sent) ~> (Payload(m) \in ToSet(delivered) \/ ~open)

\* The receiver is told once the sender has disconnected, also in the middle of
\* a frame (AsyncTcp.cpp:79-90, 104-108).
DisconnectIsTold == ~open ~> error # "none"

-----------------------------------------------------------------------------
(* What the comments say and the code does not do                          *)

\* AsyncTcp.hpp:86-87 "Reads a 4-byte length-prefix header first, then reads
\* exactly that many bytes, guaranteeing message boundaries": nothing there
\* asks that one send() ends before the next, or limits its size.
MessageBoundaries ==
    \A d \in DOMAIN delivered : \E m \in Messages : delivered[d] = Payload(m)
=============================================================================
