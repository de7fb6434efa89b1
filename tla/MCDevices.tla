------------------------------ MODULE MCDevices ------------------------------
(* Uart, Socket and CH341, one of which a behaviour is about: the devices    *)
(* share nothing, and the two that are not the subject stay as they were     *)
(* made.                                                                     *)
EXTENDS Integers

CONSTANTS
    Systems, Stricts, Requested, ChunkSize,
    Servers, Clients, Numbers, MaxPrepares, Retries,
    Addresses, Slaves, AskedSpeeds, Reopens,
    MaxBytes, MaxWaiting   \* the bounds MaxBytes of Uart and of Socket

VARIABLES
    subject,
    system, strict, isOpen, fd, opening, alive, aborted, wire, arrived, stored, dropped,
    wrote, reading, match, last,
    present, sockets, upc, conn, holder, prepares, bytes, lost, cut, strays,
    checked, address, asked, handle, opened, device, speed, user, bus, acked, refused, failed

uartVars == <<system, strict, isOpen, fd, opening, alive, aborted, wire, arrived, stored,
              dropped, wrote, reading, match, last>>
socketVars == <<present, sockets, upc, conn, holder, prepares, bytes, lost, cut, strays>>
ch341Vars == <<checked, address, asked, handle, opened, device, speed, user, bus, acked,
               refused, failed>>

Uart == INSTANCE Uart WITH Mode <- {"READ", "WRITE"}
Socket == INSTANCE Socket WITH alive <- present, fd <- sockets, MaxBytes <- MaxWaiting
CH341 == INSTANCE CH341 WITH
            Speeds <- AskedSpeeds, strict <- checked, isOpen <- opened, upc <- user, aborted <- failed

\* A socket is a server or a client, descriptors are numbered from 0, and the
\* program's other descriptors are no socket's.
ASSUME SocketsAssumption ==
    /\ Servers \cap Clients = {} /\ Numbers \in Nat
    /\ {Socket!Free, Socket!Other} \cap Socket!Sockets = {}

Init ==
    /\ Uart!Init /\ Socket!Init /\ CH341!Init
    /\ subject \in {"uart", "socket", "ch341"}
    /\ subject # "uart" => system = "linux" /\ ~strict
    /\ subject # "ch341" => ~checked /\ asked = 0 /\ address = CHOOSE a \in Addresses : TRUE

Next ==
    /\ UNCHANGED subject
    /\ \/ subject = "uart" /\ Uart!Next /\ UNCHANGED <<socketVars, ch341Vars>>
       \/ subject = "socket" /\ Socket!Next /\ UNCHANGED <<uartVars, ch341Vars>>
       \/ subject = "ch341" /\ CH341!Next /\ UNCHANGED <<uartVars, socketVars>>

Spec == Init /\ [][Next]_<<subject, uartVars, socketVars, ch341Vars>>

-----------------------------------------------------------------------------

\* readline() stops at the first terminator, in whatever pieces the bytes come,
\* and its line is what it has looked at (Uart.cpp:299-386).
LineUpToTerminator == Uart!LineUpToTerminator

\* Whichever step of an open() fails, nothing stays open, and neither does a
\* transaction on the I2C bus (Uart.cpp:153-266, Socket.cpp:189-299,
\* CH341.cpp:59-77, 122-163).
NothingLeftOpen ==
    /\ Uart!NothingLeftOpen
    /\ Socket!NothingLeftOpen
    /\ CH341!NothingLeftOpen
=============================================================================
