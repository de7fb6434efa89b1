-------------------------------- MODULE Uart --------------------------------
(***************************************************************************)
(* The serial port of Uart.cpp, in its builds for Linux and Windows, with  *)
(* and without STRICT_MODE: its life from open() to the destructor, read(),*)
(* write() and readline(), which looks for a terminator in whatever pieces *)
(* the system hands out.                                                   *)
(*                                                                         *)
(* A byte is one of those that some terminator contains, or "other".  On   *)
(* Linux the port is opened with O_NDELAY, so read(2) never waits: with    *)
(* nothing on the line it fails, and it may fail at any other time.  On    *)
(* Windows ReadFile gives one byte at a time; with nothing on the line it  *)
(* succeeds, after a time-out, and is called again.  What a call does on a *)
(* port that has never been opened without STRICT_MODE is left out.        *)
(***************************************************************************)
EXTENDS Integers, Sequences, SequencesExt

CONSTANTS
    Systems,     \* the builds considered, among "linux" and "windows"
    Stricts,     \* the values of STRICT_MODE_ENABLED considered
    Mode,        \* the flags given to the constructor: "READ", "WRITE"
    Requested,   \* the speed given to the constructor
    ChunkSize,   \* the size of a buffer, that of readline() being 255
    MaxBytes     \* bound on the bytes that arrive

VARIABLES
    system, strict,   \* the build
    isOpen,     \* _isOpen
    fd,         \* what the kernel has behind _fd: access and speed, or nothing
    opening,    \* where open() is on Windows
    alive,      \* the object exists
    aborted,    \* an assertion has failed
    wire,       \* the bytes that have arrived and not been read
    arrived,    \* how many have arrived in all
    stored,     \* how many a read() that goes on has stored, -1 if none does
    dropped,    \* how many read() has taken and not stored (history)
    wrote,      \* what the last write() returned
    reading,    \* the terminator the running readline() looks for
    match,      \* its locals endIdx and line, and all it has looked at (seen)
    last        \* what the last readline() returned, and why

buildVars == <<system, strict>>
portVars == <<isOpen, fd, opening, alive, aborted>>
wireVars == <<wire, arrived, stored, dropped, wrote>>
lineVars == <<reading, match, last>>
vars == <<buildVars, portVars, wireVars, lineVars>>

Bytes == {"NUL", "LF", "CR", "other"}
EndOfLine ==
    [NULL_END |-> <<"NUL">>, LINE_FEED |-> <<"LF">>, CARRIAGE_RETURN |-> <<"CR", "LF">>]
EscapeSequence == DOMAIN EndOfLine

Speeds == {9600, 19200, 38400, 57600, 115200}

\* Baudrate: a number that is none of the speeds stands for the first one.
ToSpeed(rate) == IF rate \in Speeds THEN rate ELSE 9600

\* On Linux open() asks for both directions with neither flag as with both.
Access ==
    IF system = "linux" /\ Mode = {} THEN {"READ", "WRITE"} ELSE Mode

NoFd == [access |-> {}, speed |-> 0]
Nothing == [endIdx |-> 0, line |-> <<>>, seen |-> <<>>]
NoLine == [end |-> "none", complete |-> FALSE, line |-> <<>>, seen |-> <<>>]

Init ==
    /\ system \in Systems /\ strict \in Stricts
    /\ isOpen = FALSE
    /\ fd = NoFd
    /\ opening = "no"
    /\ alive = TRUE
    /\ aborted = FALSE
    /\ wire = <<>>
    /\ arrived = 0
    /\ stored = -1
    /\ dropped = 0
    /\ wrote = FALSE
    /\ reading = "none"
    /\ match = Nothing
    /\ last = NoLine

-----------------------------------------------------------------------------
(* The port                                                                *)

Idle == alive /\ opening = "no" /\ stored = -1 /\ reading = "none"

\* open() on Linux: a second one is refused, and open(2) may fail.
Open ==
    /\ system = "linux"
    /\ Idle /\ ~isOpen
    /\ isOpen' = TRUE
    /\ fd' = [access |-> Access, speed |-> ToSpeed(Requested)]
    /\ UNCHANGED <<buildVars, opening, alive, aborted, wireVars, lineVars>>

\* open() on Windows: CreateFile, which may fail ...
CreateFile ==
    /\ system = "windows"
    /\ Idle /\ ~isOpen
    /\ opening' = "GetCommState"
    /\ fd' = [access |-> Access, speed |-> 0]
    /\ UNCHANGED <<buildVars, isOpen, alive, aborted, wireVars, lineVars>>

\* Mutant of Configure: a failure of the last call does not close the handle.
ConfigureKeeps ==
    /\ \/ opening = "GetCommState" /\ opening' = "SetCommState" /\ UNCHANGED <<fd, isOpen>>
       \/ opening = "SetCommState" /\ opening' = "SetCommTimeouts" /\ isOpen' = isOpen
             /\ fd' = [fd EXCEPT !.speed = ToSpeed(Requested)]
       \/ opening = "SetCommTimeouts" /\ opening' = "no" /\ isOpen' = TRUE /\ fd' = fd
       \/ opening = "SetCommTimeouts" /\ opening' = "no" /\ UNCHANGED <<isOpen, fd>>
    /\ UNCHANGED <<buildVars, alive, aborted, wireVars, lineVars>>

\* ... and three more calls, each of which closes the handle if it fails.
Configure ==
    /\ \/ opening = "GetCommState" /\ opening' = "SetCommState" /\ UNCHANGED <<fd, isOpen>>
       \/ opening = "SetCommState" /\ opening' = "SetCommTimeouts" /\ isOpen' = isOpen
             /\ fd' = [fd EXCEPT !.speed = ToSpeed(Requested)]
       \/ opening = "SetCommTimeouts" /\ opening' = "no" /\ isOpen' = TRUE /\ fd' = fd
       \/ opening # "no" /\ opening' = "no" /\ isOpen' = isOpen /\ fd' = NoFd
    /\ UNCHANGED <<buildVars, alive, aborted, wireVars, lineVars>>

\* The system may discard what has not been read.
Close ==
    /\ Idle /\ isOpen
    /\ isOpen' = FALSE
    /\ fd' = NoFd
    /\ wire' \in {wire, <<>>}
    /\ UNCHANGED <<buildVars, opening, alive, aborted, arrived, stored, dropped, wrote, lineVars>>

\* ~UartImpl(): in STRICT_MODE an assertion, otherwise nothing.
Destroy ==
    /\ Idle
    /\ alive' = FALSE
    /\ aborted' = (strict /\ isOpen)
    /\ UNCHANGED <<buildVars, isOpen, fd, opening, wireVars, lineVars>>

\* In STRICT_MODE a second open(), and each other call on a port that is not
\* open, fails an assertion.
Misuse ==
    /\ strict /\ Idle
    /\ aborted' = TRUE
    /\ UNCHANGED <<buildVars, isOpen, fd, opening, alive, wireVars, lineVars>>

\* The other end sends a byte; nobody keeps it for a port that is not open.
Arrive(b) ==
    /\ fd # NoFd /\ arrived < MaxBytes
    /\ wire' = Append(wire, b)
    /\ arrived' = arrived + 1
    /\ UNCHANGED <<buildVars, portVars, stored, dropped, wrote, lineVars>>

\* read() on Linux: one read(2) into the caller's buffer, here of ChunkSize.
Read ==
    /\ system = "linux"
    /\ Idle /\ isOpen /\ "READ" \in fd.access
    /\ \E n \in 1 .. Len(wire) :
          /\ n <= ChunkSize
          /\ wire' = SubSeq(wire, n + 1, Len(wire))
    /\ UNCHANGED <<buildVars, portVars, arrived, stored, dropped, wrote, lineVars>>

\* read() on Windows: ReadFile until it fails, or gives a byte for which the
\* buffer has no room.
CallRead ==
    /\ system = "windows"
    /\ Idle /\ isOpen
    /\ stored' = 0
    /\ UNCHANGED <<buildVars, portVars, wire, arrived, dropped, wrote, lineVars>>

ReadFile ==
    /\ stored >= 0
    /\ \/ /\ wire # <<>> /\ "READ" \in fd.access
          /\ wire' = Tail(wire)
          /\ IF stored < ChunkSize
                THEN stored' = stored + 1 /\ dropped' = dropped
                ELSE stored' = -1 /\ dropped' = dropped + 1
       \/ stored' = -1 /\ UNCHANGED <<wire, dropped>>
    /\ UNCHANGED <<buildVars, portVars, arrived, wrote, lineVars>>

\* write(): some of the bytes are sent (on Windows: WriteFile succeeds) or not.
Write ==
    /\ Idle /\ isOpen
    /\ wrote' \in {result \in BOOLEAN : result => "WRITE" \in fd.access}
    /\ UNCHANGED <<buildVars, portVars, wire, arrived, stored, dropped, lineVars>>

-----------------------------------------------------------------------------
(* readline()                                                              *)

\* One turn of the loop over a chunk.  It is left at the end of the
\* terminator: what follows in the chunk is not looked at.
MatchByte(st, b) ==
    LET end == EndOfLine[reading]
        again == st.line \o SubSeq(end, 1, st.endIdx)
        next == [st EXCEPT !.seen = Append(@, b)]
    IN  CASE st.endIdx = Len(end) -> st
          [] st.endIdx < Len(end) /\ b = end[st.endIdx + 1] ->
                [next EXCEPT !.endIdx = @ + 1, !.line = Append(@, b)]
          [] OTHER ->
                IF st.endIdx > 0 /\ b = end[1]
                THEN [next EXCEPT !.endIdx = 1, !.line = again]
                ELSE [next EXCEPT !.endIdx = 0, !.line = Append(again, b)]

Return(st, complete) ==
    /\ last' = [end |-> reading, complete |-> complete, line |-> st.line, seen |-> st.seen]
    /\ reading' = "none"
    /\ match' = Nothing

CallReadline(escape) ==
    /\ Idle /\ isOpen
    /\ reading' = escape
    /\ match' = Nothing
    /\ last' = NoLine
    /\ UNCHANGED <<buildVars, portVars, wireVars>>

\* The loop over the first n bytes that a call gives
Scan(found, n) ==
    LET st[k \in 0 .. n] == IF k = 0 THEN found ELSE MatchByte(st[k - 1], wire[k])
    IN  st[n]

\* What a call of read(2) or ReadFile may give, as a number of bytes
Pieces == {n \in 1 .. Len(wire) : n <= IF system = "linux" THEN ChunkSize ELSE 1}

\* Mutant of ReadChunk: every chunk begins a new search.
ReadChunkForgets ==
    /\ reading # "none" /\ "READ" \in fd.access
    /\ \E n \in Pieces :
          LET st == Scan([match EXCEPT !.endIdx = 0], n)
          IN  /\ wire' = SubSeq(wire, n + 1, Len(wire))
              /\ IF st.endIdx = Len(EndOfLine[reading])
                 THEN Return(st, TRUE)
                 ELSE match' = st /\ UNCHANGED <<reading, last>>
    /\ UNCHANGED <<buildVars, portVars, arrived, stored, dropped, wrote>>

ReadChunk ==
    /\ reading # "none" /\ "READ" \in fd.access
    /\ \E n \in Pieces :
          LET st == Scan(match, n)
          IN  /\ wire' = SubSeq(wire, n + 1, Len(wire))
              /\ IF st.endIdx = Len(EndOfLine[reading])
                 THEN Return(st, TRUE)
                 ELSE match' = st /\ UNCHANGED <<reading, last>>
    /\ UNCHANGED <<buildVars, portVars, arrived, stored, dropped, wrote>>

\* The call fails: what there is of a line is returned.
GiveUp ==
    /\ reading # "none"
    /\ Return(match, FALSE)
    /\ UNCHANGED <<buildVars, portVars, wireVars>>

-----------------------------------------------------------------------------

Next ==
    /\ ~aborted
    /\ \/ Open \/ CreateFile \/ Configure \/ Close \/ Destroy \/ Misuse
       \/ Read \/ CallRead \/ ReadFile \/ Write
       \/ \E b \in Bytes : Arrive(b)
       \/ \E escape \in EscapeSequence : CallReadline(escape)
       \/ ReadChunk
       \/ GiveUp

Spec == Init /\ [][Next]_vars

-----------------------------------------------------------------------------
(* Properties                                                              *)

Occurs(end, s) == \E i \in 1 .. Len(s) - Len(end) + 1 : SubSeq(s, i, i + Len(end) - 1) = end

\* A carriage return that begins no terminator, and is followed by a byte that
\* does not begin one either.
Stray(end, s, i) ==
    Len(end) = 2 /\ i < Len(s) /\ s[i] = end[1] /\ s[i + 1] \notin {end[1], end[2]}

\* The bytes s with every stray carriage return doubled.
Doubled(end, s) ==
    FlattenSeq([i \in DOMAIN s |-> IF Stray(end, s, i) THEN <<s[i], s[i]>> ELSE <<s[i]>>])

\* In whatever pieces the bytes come, readline() stops at the first terminator
\* and not before, and its line is all it has looked at, but for a stray
\* carriage return (Uart.cpp:354-385).
LineUpToTerminator ==
    /\ reading # "none" =>
          LET end == EndOfLine[reading]
          IN  ~Occurs(end, match.seen) /\ match.line = Doubled(end, match.seen)
    /\ last.end # "none" =>
          LET end == EndOfLine[last.end]
          IN  /\ last.line = Doubled(end, last.seen)
              /\ last.complete <=> IsSuffix(end, last.seen)
              /\ last.seen # <<>> => ~Occurs(end, Front(last.seen))

\* An open() that fails leaves no handle open, and close() none either; a port
\* is open for as long as it says so (Uart.cpp:153-266).
NothingLeftOpen == opening = "no" => (fd # NoFd <=> isOpen)

-----------------------------------------------------------------------------
(* What the comments say and the code does not do                          *)

\* Uart.hpp:109 "The received line data including the escape sequence
\* characters": line 372 of Uart.cpp appends what line 365 has appended.
LineIsWhatCame == last.line = last.seen

\* Uart.hpp:85 "Reads one byte at a time until no more data is available or
\* buffer is full": the byte that finds the buffer full is lost.
ReadKeepsBytes == dropped = 0

\* Uart.hpp:71 "The destructor will automatically close open connections."
DestructorCloses == ~alive => fd = NoFd
=============================================================================
