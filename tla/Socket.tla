------------------------------- MODULE Socket -------------------------------
(***************************************************************************)
(* common::communication::Socket (Socket.cpp), the Linux build: blocking   *)
(* TCP servers and clients, each with the number of its descriptor in _fd  *)
(* and that of its connection in _conn.  The kernel's table says who has   *)
(* opened the descriptor that a number stands for; numbers are reused, the *)
(* lowest first, also by the rest of the program.                          *)
(*                                                                         *)
(* Of the bytes only their number matters.  Each system call may fail.     *)
(***************************************************************************)
EXTENDS Integers, FiniteSets, FiniteSetsExt

CONSTANTS
    Servers, Clients,   \* the sockets
    Numbers,            \* bound: the descriptors are 0 .. Numbers - 1
    MaxBytes,           \* bound on the bytes that wait on a connection
    MaxPrepares,        \* bound on the calls of prepare(), per socket
    Retries             \* the user may call open() again after it has thrown

Sockets == Servers \cup Clients
Free == "free"
Other == "other"    \* the rest of the program

VARIABLES
    alive,      \* alive[s]: the user has a reference to socket s
    upc,        \* upc[s]: where its user is in open()
    fd, conn,   \* fd[s], conn[s]: _fd and _conn
    holder,     \* holder[n]: who has opened descriptor n, Free if nobody
    prepares,   \* prepares[s]: the calls of prepare() (history)
    bytes,      \* bytes[s]: the bytes that wait on its connection
    lost,       \* bytes a read has taken and not reported (history)
    cut,        \* a send has passed on only a part (history)
    strays      \* closes of a descriptor that somebody else has opened (history)

vars == <<alive, upc, fd, conn, holder, prepares, bytes, lost, cut, strays>>

Descriptors == 0 .. Numbers - 1
FreeNumbers == {n \in Descriptors : holder[n] = Free}

Init ==
    /\ alive = [s \in Sockets |-> TRUE]
    /\ upc = [s \in Sockets |-> "new"]
    /\ fd = [s \in Sockets |-> -1]
    /\ conn = [s \in Sockets |-> -1]
    /\ holder \in {[n \in Descriptors |-> IF n = 0 THEN h ELSE Free] : h \in {Free, Other}}
    /\ prepares = [s \in Sockets |-> 0]
    /\ bytes = [s \in Sockets |-> 0]
    /\ lost = 0
    /\ cut = FALSE
    /\ strays = 0

UGoto(s, from, to) == upc[s] = from /\ upc' = [upc EXCEPT ![s] = to]

\* The table after ::close(n), a number that may be nobody's by now
Closed(n) == IF n \in Descriptors THEN [holder EXCEPT ![n] = Free] ELSE holder
CountStray(s, n) ==
    strays' = IF n \in Descriptors /\ holder[n] \notin {s, Free}
              THEN strays + 1 ELSE strays

\* close(): the descriptor only, never the connection; the numbers stay.
close(s) == holder' = Closed(fd[s]) /\ CountStray(s, fd[s])

-----------------------------------------------------------------------------
(* prepare() and open()                                                    *)

\* socket() gives the lowest free number, or -1; prepare() takes 0 for a
\* failure, and -1 for a descriptor.
prepare(s) ==
    /\ alive[s] /\ upc[s] \in {"new", "prepared", "open", "failed"}
    /\ prepares[s] < MaxPrepares
    /\ prepares' = [prepares EXCEPT ![s] = @ + 1]
    /\ \E n \in {-1} \cup (IF FreeNumbers = {} THEN {} ELSE {Min(FreeNumbers)}) :
          /\ fd' = [fd EXCEPT ![s] = n]
          /\ holder' = IF n <= 0 THEN holder ELSE [holder EXCEPT ![n] = s]
          /\ upc' = [upc EXCEPT ![s] = IF n = 0 THEN "failed" ELSE "prepared"]
    /\ UNCHANGED <<alive, conn, bytes, lost, cut, strays>>

\* A step of open() that fails: close() and throw.
Fails(s, from) ==
    /\ UGoto(s, from, "failed")
    /\ close(s)
    /\ UNCHANGED <<alive, fd, conn, prepares, bytes, lost, cut>>

\* A system call on a number that is nobody's, or -1, cannot succeed.
Valid(n) == n \in Descriptors /\ holder[n] # Free

Succeeds(s, from, to) ==
    /\ UGoto(s, from, to)
    /\ Valid(fd[s])
    /\ UNCHANGED <<alive, fd, conn, holder, prepares, bytes, lost, cut, strays>>

Enter(s) ==
    /\ alive[s]
    /\ \/ upc[s] = "prepared"
       \/ upc[s] = "failed" /\ Retries
    /\ upc' = [upc EXCEPT ![s] = IF s \in Servers THEN "setsockopt" ELSE "address"]
    /\ UNCHANGED <<alive, fd, conn, holder, prepares, bytes, lost, cut, strays>>

\* Mutant of Listen: its failure does not close.
ListenKeeps(s) ==
    \/ Succeeds(s, "listen", "accept")
    \/ /\ UGoto(s, "listen", "failed")
       /\ UNCHANGED <<alive, fd, conn, holder, prepares, bytes, lost, cut, strays>>

Options(s) == Succeeds(s, "setsockopt", "bind") \/ Fails(s, "setsockopt")
Bind(s) == Succeeds(s, "bind", "listen") \/ Fails(s, "bind")
Listen(s) == Succeeds(s, "listen", "accept") \/ Fails(s, "listen")

\* accept() waits for a client; what it returns goes to _conn at once.
Accept(s) ==
    \/ /\ UGoto(s, "accept", "open")
       /\ Valid(fd[s]) /\ FreeNumbers # {}
       /\ conn' = [conn EXCEPT ![s] = Min(FreeNumbers)]
       /\ holder' = [holder EXCEPT ![Min(FreeNumbers)] = s]
       /\ UNCHANGED <<alive, fd, prepares, bytes, lost, cut, strays>>
    \/ /\ UGoto(s, "accept", "failed")
       /\ conn' = [conn EXCEPT ![s] = -1]
       /\ close(s)
       /\ UNCHANGED <<alive, fd, prepares, bytes, lost, cut>>

\* inet_pton; its failure throws and closes nothing.
Address(s) ==
    /\ UGoto(s, "address", "connect") \/ UGoto(s, "address", "failed")
    /\ UNCHANGED <<alive, fd, conn, holder, prepares, bytes, lost, cut, strays>>

Connect(s) ==
    \/ /\ UGoto(s, "connect", "open")
       /\ Valid(fd[s])
       /\ conn' = [conn EXCEPT ![s] = fd[s]]
       /\ UNCHANGED <<alive, fd, holder, prepares, bytes, lost, cut, strays>>
    \/ Fails(s, "connect")

Open(s) ==
    Enter(s) \/ Options(s) \/ Bind(s) \/ Listen(s) \/ Accept(s) \/ Address(s) \/ Connect(s)

-----------------------------------------------------------------------------
(* The open connection                                                     *)

Ready(s) == alive[s] /\ upc[s] = "open"

\* The peer sends.
Arrive(s) ==
    /\ upc[s] = "open" /\ conn[s] \in Descriptors /\ holder[conn[s]] = s
    /\ bytes[s] < MaxBytes
    /\ bytes' = [bytes EXCEPT ![s] = @ + 1]
    /\ UNCHANGED <<alive, upc, fd, conn, holder, prepares, lost, cut, strays>>

\* ::read takes some of the bytes.  At the end of the stream read() throws; an
\* error is returned as a huge count.
Take(s, reported) ==
    \E n \in 1 .. bytes[s] :
        /\ bytes' = [bytes EXCEPT ![s] = @ - n]
        /\ lost' = IF reported THEN lost ELSE lost + n

read(s) ==
    /\ Ready(s)
    /\ Take(s, TRUE)
    /\ UNCHANGED <<alive, upc, fd, conn, holder, prepares, cut, strays>>

\* The read with a time-out: select(), then read(), whose result is dropped.
readTimed(s) ==
    /\ Ready(s) /\ lost < MaxBytes
    /\ Take(s, FALSE)
    /\ UNCHANGED <<alive, upc, fd, conn, holder, prepares, cut, strays>>

\* ::send, which a signal may interrupt when it has passed on only a part; only an
\* error makes send() throw.
send(s) ==
    /\ Ready(s)
    /\ \E part \in BOOLEAN : cut' = (cut \/ part)
    /\ UNCHANGED <<alive, upc, fd, conn, holder, prepares, bytes, lost, strays>>

\* close(), called by the user
Close(s) ==
    /\ alive[s] /\ upc[s] \in {"prepared", "open", "failed"}
    /\ close(s)
    /\ upc' = [upc EXCEPT ![s] = "closed"]
    /\ UNCHANGED <<alive, fd, conn, prepares, bytes, lost, cut>>

\* Mutant of Drop: the deleter deletes and does not close.
DropOnly(s) ==
    /\ alive[s] /\ upc[s] \in {"new", "prepared", "open", "failed", "closed"}
    /\ alive' = [alive EXCEPT ![s] = FALSE]
    /\ UNCHANGED <<upc, fd, conn, holder, prepares, bytes, lost, cut, strays>>

\* The last reference goes: the deleter closes, and deletes nothing.
Drop(s) ==
    /\ alive[s] /\ upc[s] \in {"new", "prepared", "open", "failed", "closed"}
    /\ alive' = [alive EXCEPT ![s] = FALSE]
    /\ close(s)
    /\ UNCHANGED <<upc, fd, conn, prepares, bytes, lost, cut>>

\* Another part of the program opens and closes descriptors of its own.
OtherOpens ==
    /\ FreeNumbers # {}
    /\ holder' = [holder EXCEPT ![Min(FreeNumbers)] = Other]
    /\ UNCHANGED <<alive, upc, fd, conn, prepares, bytes, lost, cut, strays>>

OtherCloses ==
    /\ \E n \in Descriptors \ {0} :
          holder[n] = Other /\ holder' = [holder EXCEPT ![n] = Free]
    /\ UNCHANGED <<alive, upc, fd, conn, prepares, bytes, lost, cut, strays>>

Next ==
    /\ strays < 2
    /\ \/ \E s \in Sockets : \/ prepare(s) \/ Open(s) \/ Arrive(s) \/ read(s)
                             \/ readTimed(s) \/ send(s) \/ Close(s) \/ Drop(s)
       \/ OtherOpens \/ OtherCloses

Spec == Init /\ [][Next]_vars

-----------------------------------------------------------------------------
(* Properties                                                              *)

TypeOK ==
    /\ alive \in [Sockets -> BOOLEAN]
    /\ upc \in [Sockets -> {"new", "prepared", "setsockopt", "bind", "listen", "accept",
                            "address", "connect", "open", "failed", "closed"}]
    /\ fd \in [Sockets -> {-1} \cup Descriptors]
    /\ conn \in [Sockets -> {-1} \cup Descriptors]
    /\ holder \in [Descriptors -> Sockets \cup {Free, Other}]
    /\ bytes \in [Sockets -> 0 .. MaxBytes]

Held(s) == {n \in Descriptors : holder[n] = s}

\* A socket that has been prepared once and whose open() has thrown behind the
\* address keeps no descriptor open; once its user has dropped it, a server has
\* at most its connection open and a client nothing (Socket.cpp:189-299).
NothingLeftOpen ==
    \A s \in Sockets : prepares[s] <= 1 =>
        /\ s \in Servers /\ upc[s] = "failed" => Held(s) = {}
        /\ ~alive[s] => Held(s) \subseteq {conn[s]} \ (IF s \in Clients THEN {fd[s]} ELSE {})

-----------------------------------------------------------------------------
(* What one would expect and the code does not do                          *)

\* close() closes what the socket has opened, and only once: _fd keeps its
\* number, and the deleter closes it again (Socket.cpp:90-98, 290-299).
NoStrayClose == strays = 0

\* A timed read reports the bytes it has taken (Socket.cpp:128-149).
ReadsAreReported == lost = 0

\* send() passes on all it is given (Socket.cpp:156-175).
SendsAreWhole == ~cut

\* The connection of a server ends with its socket (Socket.cpp:90-98).
ConnectionCloses == \A s \in Servers : ~alive[s] => Held(s) = {}
=============================================================================
