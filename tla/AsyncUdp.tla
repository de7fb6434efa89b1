------------------------------ MODULE AsyncUdp ------------------------------
(***************************************************************************)
(* AsyncUdpSocket (AsyncUdp.cpp): datagrams are received into one buffer   *)
(* and one endpoint of the object by a handler that arms itself again, on  *)
(* the threads of the IOContext.  Opening, closing and sending are the     *)
(* user's, on any thread.                                                  *)
(*                                                                         *)
(* A datagram is the number of its arrival; the buffer and the endpoint    *)
(* hold that number for what it carries and for who has sent it.  Of       *)
(* asio only this is used: an operation completes once, with success, an   *)
(* error, or operation_aborted if the socket is closed while it waits; on  *)
(* a socket that is closed it fails at once.                               *)
(***************************************************************************)
EXTENDS Naturals, Sequences, SequencesExt

CONSTANTS
    Loops,         \* the calls of receive() the user may make
    Sends,         \* the calls of send() the user may make
    MaxDatagrams,  \* bound on the datagrams that arrive
    Reopens,       \* the user may open the socket again after close()
    WaitsLoops     \* the user drops the object only when the loops have ended

VARIABLES
    open,       \* the socket is open
    opened,     \* it has been opened
    alive,      \* the object exists
    wire,       \* the datagrams in the socket's queue
    arrived,    \* how many have arrived
    buffer, sender,   \* _buffer and _senderEndpoint
    lpc,        \* lpc[l]: where the receive loop l is
    copy,       \* copy[l]: recvBuffer of its handler
    delivered,  \* what onReceive has been called with, in order (history)
    lost,       \* what close() has found in the queue (history)
    spc,        \* spc[k]: what has become of send k
    fault       \* what went wrong, if anything

loopVars == <<lpc, copy, delivered, lost>>
vars == <<open, opened, alive, wire, arrived, buffer, sender, loopVars, spc, fault>>

Init ==
    /\ open = FALSE
    /\ opened = FALSE
    /\ alive = TRUE
    /\ wire = <<>>
    /\ arrived = 0
    /\ buffer = 0 /\ sender = 0
    /\ lpc = [l \in Loops |-> "none"]
    /\ copy = [l \in Loops |-> 0]
    /\ delivered = <<>>
    /\ lost = {}
    /\ spc = [k \in Sends |-> "none"]
    /\ fault = "none"

\* What an operation that is begun now waits for: on a socket that is not open
\* it has failed already.
Begun == IF open THEN "armed" ELSE "error"

-----------------------------------------------------------------------------
(* The user                                                                *)

Open ==
    /\ alive /\ ~open
    /\ opened => Reopens
    /\ open' = TRUE /\ opened' = TRUE
    /\ UNCHANGED <<alive, wire, arrived, buffer, sender, loopVars, spc, fault>>

\* _socket.close(): what waits is aborted, what has completed is not.
Closed ==
    /\ open' = FALSE
    /\ wire' = <<>>
    /\ lost' = lost \cup ToSet(wire)
    /\ lpc' = [l \in Loops |-> IF lpc[l] = "armed" THEN "aborted" ELSE lpc[l]]
    /\ spc' = [k \in Sends |-> IF spc[k] = "armed" THEN "error" ELSE spc[k]]

Close ==
    /\ alive /\ open
    /\ Closed
    /\ UNCHANGED <<opened, alive, arrived, buffer, sender, copy, delivered, fault>>

\* receive(), called by the user
Receive(l) ==
    /\ alive /\ open
    /\ lpc[l] = "none"
    /\ lpc' = [lpc EXCEPT ![l] = Begun]
    /\ UNCHANGED <<open, opened, alive, wire, arrived, buffer, sender, copy, delivered, lost, spc, fault>>

\* send(): the data is copied, and the handler does not use the object.
Send(k) ==
    /\ alive /\ spc[k] = "none"
    /\ spc' = [spc EXCEPT ![k] = Begun]
    /\ UNCHANGED <<open, opened, alive, wire, arrived, buffer, sender, loopVars, fault>>

\* The last reference is dropped: ~AsyncUdpSocketImpl() closes.
Destroy ==
    /\ alive
    /\ WaitsLoops => \A l \in Loops : lpc[l] \in {"none", "ended"}
    /\ alive' = FALSE
    /\ Closed
    /\ UNCHANGED <<opened, arrived, buffer, sender, copy, delivered, fault>>

-----------------------------------------------------------------------------
(* The network and asio                                                    *)

Arrive ==
    /\ open /\ arrived < MaxDatagrams
    /\ arrived' = arrived + 1
    /\ wire' = Append(wire, arrived')
    /\ UNCHANGED <<open, opened, alive, buffer, sender, loopVars, spc, fault>>

\* A receive operation completes with a datagram, which is in the buffer then.
Complete(l) ==
    /\ lpc[l] = "armed" /\ wire # <<>>
    /\ wire' = Tail(wire)
    /\ buffer' = Head(wire) /\ sender' = Head(wire)
    /\ lpc' = [lpc EXCEPT ![l] = "copy"]
    /\ UNCHANGED <<open, opened, alive, arrived, copy, delivered, lost, spc, fault>>

\* It fails: for instance a datagram sent before was not wanted.
Fail(l) ==
    /\ lpc[l] = "armed"
    /\ lpc' = [lpc EXCEPT ![l] = "error"]
    /\ UNCHANGED <<open, opened, alive, wire, arrived, buffer, sender, copy, delivered, lost, spc, fault>>

Sent(k) ==
    /\ spc[k] = "armed"
    /\ \E to \in {"sent", "error"} : spc' = [spc EXCEPT ![k] = to]
    /\ UNCHANGED <<open, opened, alive, wire, arrived, buffer, sender, loopVars, fault>>

-----------------------------------------------------------------------------
(* The handlers.  One that uses the object after its end is a fault.       *)

Uses == fault' = IF alive THEN fault ELSE "freed object"

\* recvBuffer(_buffer.begin(), _buffer.begin() + bytes)
Copy(l) ==
    /\ lpc[l] = "copy"
    /\ copy' = [copy EXCEPT ![l] = buffer]
    /\ lpc' = [lpc EXCEPT ![l] = "call"]
    /\ Uses
    /\ UNCHANGED <<open, opened, alive, wire, arrived, buffer, sender, delivered, lost, spc>>

\* Mutant of OnReceive: the operation has been begun again before the call, and
\* may have written the next endpoint.
OnReceiveArmed(l) ==
    /\ lpc[l] = "call"
    /\ \E from \in {sender} \cup ToSet(wire) :
          delivered' = Append(delivered, <<copy[l], from>>)
    /\ lpc' = [lpc EXCEPT ![l] = "return"]
    /\ Uses
    /\ UNCHANGED <<open, opened, alive, wire, arrived, buffer, sender, copy, lost, spc>>

\* onReceive(recvBuffer, _senderEndpoint)
OnReceive(l) ==
    /\ lpc[l] = "call"
    /\ delivered' = Append(delivered, <<copy[l], sender>>)
    /\ lpc' = [lpc EXCEPT ![l] = "return"]
    /\ Uses
    /\ UNCHANGED <<open, opened, alive, wire, arrived, buffer, sender, copy, lost, spc>>

\* It returns, or onError does: receive() again, whatever the error was ...
Rearm(l) ==
    /\ lpc[l] \in {"return", "error"}
    /\ lpc' = [lpc EXCEPT ![l] = Begun]
    /\ Uses
    /\ UNCHANGED <<open, opened, alive, wire, arrived, buffer, sender, copy, delivered, lost, spc>>

\* ... except for operation_aborted.
End(l) ==
    /\ lpc[l] = "aborted"
    /\ lpc' = [lpc EXCEPT ![l] = "ended"]
    /\ UNCHANGED <<open, opened, alive, wire, arrived, buffer, sender, copy, delivered, lost, spc, fault>>

Handler(l) == Copy(l) \/ OnReceive(l) \/ Rearm(l) \/ End(l)

\* onSend or onError
Told(k) ==
    /\ spc[k] \in {"sent", "error"}
    /\ spc' = [spc EXCEPT ![k] = "told"]
    /\ UNCHANGED <<open, opened, alive, wire, arrived, buffer, sender, loopVars, fault>>

Next ==
    /\ fault = "none"
    /\ \/ Open \/ Close \/ Destroy \/ Arrive
       \/ \E l \in Loops : Receive(l) \/ Complete(l) \/ Fail(l) \/ Handler(l)
       \/ \E k \in Sends : Send(k) \/ Sent(k) \/ Told(k)

Spec == Init /\ [][Next]_vars

\* The IOContext runs handlers.
FairSpec == Spec /\ \A l \in Loops : WF_vars(fault = "none" /\ Handler(l))

-----------------------------------------------------------------------------
(* Properties                                                              *)

TypeOK ==
    /\ {open, opened, alive} \subseteq BOOLEAN
    /\ {buffer, sender} \subseteq 0 .. arrived
    /\ lpc \in [Loops -> {"none", "armed", "copy", "call", "return", "error",
                          "aborted", "ended"}]
    /\ copy \in [Loops -> 0 .. arrived]
    /\ spc \in [Sends -> {"none", "armed", "sent", "error", "told"}]

\* A single loop gives each datagram to onReceive once, in the order of arrival
\* and with its own sender, although all share one buffer and one endpoint, and the
\* loop may go on with a socket that is closed and opened again; only what
\* close() finds in the queue is lost (AsyncUdp.cpp:65-87).
InHand ==
    {buffer : l \in {m \in Loops : lpc[m] = "copy"}}
        \cup {copy[l] : l \in {m \in Loops : lpc[m] = "call"}}
DatagramsIntact ==
    /\ \A k \in 1 .. Len(delivered) :
          /\ delivered[k][1] = delivered[k][2]
          /\ k > 1 => delivered[k - 1][1] < delivered[k][1]
    /\ 1 .. arrived = ToSet(wire) \cup InHand \cup lost
                        \cup {delivered[k][1] : k \in 1 .. Len(delivered)}

-----------------------------------------------------------------------------
(* What the comments say and the code does not do                          *)

\* AsyncUdp.hpp:48 "a continuous receive loop until close() is called or a fatal
\* error occurs": a handler that has completed before close() arms the loop again,
\* on a closed socket, where each turn fails at once and begins the next one.
ClosedLoopEnds ==
    \A l \in Loops : (~open /\ lpc[l] # "none") ~> (open \/ lpc[l] = "ended")

\* AsyncUdp.hpp:90 "Also called automatically from the destructor", which cancels
\* what waits: a handler that runs or has completed still has the raw this.
NoFreedObject == fault = "none"
=============================================================================
