-------------------------------- MODULE CH341 --------------------------------
(***************************************************************************)
(* The I2C master behind a CH341 USB adapter (CH341.cpp), on Windows.  The *)
(* vendor's library does what it is told or fails; of the device this      *)
(* matters: whether it is open, its speed, and whether a transaction has   *)
(* been started on the bus and not stopped.  A slave acknowledges the byte *)
(* that holds its address.                                                 *)
(***************************************************************************)
EXTENDS Naturals

CONSTANTS
    Addresses,   \* the addresses a user may ask for, as bytes
    Slaves,      \* the addresses, of seven bits, of the slaves on the bus
    Speeds,      \* the speeds a user may ask for, among 0 .. 3
    Reopens      \* the user may open a device that is open

VARIABLES
    strict,      \* STRICT_MODE_ENABLED
    address, asked,   \* _info: _devAddr and _speed
    isOpen,      \* _isOpen
    handle,      \* _handle: "unset", "invalid" or "valid"
    device,      \* the device is open, and at which speed
    speed,
    upc,         \* where the user is: in open(), in read(), or what they gave
    bus,         \* the bus: "idle" or "started"
    acked,       \* the slave has acknowledged its address
    refused,     \* a stop condition could not be sent (history)
    aborted      \* an assertion has failed

infoVars == <<strict, address, asked>>
vars == <<infoVars, isOpen, handle, device, speed, upc, bus, acked, refused, aborted>>

\* I2C(): an address of eight bits is refused in STRICT_MODE only.
Init ==
    /\ strict \in BOOLEAN
    /\ address \in Addresses
    /\ asked \in Speeds
    /\ isOpen = FALSE
    /\ handle = "unset"
    /\ device = FALSE
    /\ speed = 1
    /\ upc = "new"
    /\ bus = "idle"
    /\ acked = FALSE
    /\ refused = FALSE
    /\ aborted = (strict /\ address >= 128)

UGoto(from, to) == upc \in from /\ upc' = to
Settled == {"new", "opened", "not opened", "closed", "read", "not read"}

-----------------------------------------------------------------------------
(* open() and close()                                                      *)

\* _handle = CH341OpenDevice(_info._devIndex), whatever it is now
OpenDevice ==
    /\ handle = "valid" => Reopens
    /\ \/ UGoto(Settled, "set stream") /\ handle' = "valid" /\ device' = TRUE
       \/ UGoto(Settled, "not opened") /\ handle' = "invalid" /\ device' = device
    /\ UNCHANGED <<infoVars, isOpen, speed, bus, acked, refused, aborted>>

\* The bits of the speed that CH341SetStream is given: speed | 0x03
SpeedMode == 3

\* close(); a handle that has not been set is some value or other.
CloseDevice ==
    \/ handle \in {"valid", "unset"} /\ device' = FALSE /\ handle' = "invalid"
    \/ handle \in {"invalid", "unset"} /\ UNCHANGED <<device, handle>>

\* Mutant of SetStream: its failure does not close.
SetStreamKeeps ==
    /\ \/ UGoto({"set stream"}, "opened") /\ speed' = SpeedMode
       \/ UGoto({"set stream"}, "not opened") /\ speed' = speed
    /\ UNCHANGED <<infoVars, isOpen, handle, device, bus, acked, refused, aborted>>

SetStream ==
    /\ \/ UGoto({"set stream"}, "opened") /\ speed' = SpeedMode
          /\ UNCHANGED <<device, handle>>
       \/ UGoto({"set stream"}, "not opened") /\ speed' = speed
          /\ CloseDevice
    /\ UNCHANGED <<infoVars, isOpen, bus, acked, refused, aborted>>

Close ==
    /\ UGoto(Settled, "closed")
    /\ CloseDevice
    /\ UNCHANGED <<infoVars, isOpen, speed, bus, acked, refused, aborted>>

-----------------------------------------------------------------------------
(* read(); write() does nothing.  Any call of the library may fail, and on *)
(* a device that is not open each one does.                                *)

\* if(!_isOpen) assert(false), in STRICT_MODE
Read ==
    /\ UGoto(Settled, "start")
    /\ aborted' = (strict /\ ~isOpen)
    /\ acked' = FALSE
    /\ UNCHANGED <<infoVars, isOpen, handle, device, speed, bus, refused>>

IssueStart ==
    /\ \/ UGoto({"start"}, "ack") /\ device /\ bus' = "started"
       \/ UGoto({"start"}, "not read") /\ bus' = bus
    /\ UNCHANGED <<infoVars, isOpen, handle, device, speed, acked, refused, aborted>>

\* Mutant of CheckAck: without an acknowledgement read() returns at once.
CheckAckReturns ==
    /\ \/ UGoto({"ack"}, "stop") /\ acked' = TRUE
       \/ UGoto({"ack"}, "not read") /\ acked' = FALSE
    /\ UNCHANGED <<infoVars, isOpen, handle, device, speed, bus, refused, aborted>>

\* check_ack(): the address is shifted by one bit, in a byte.
CheckAck ==
    /\ UGoto({"ack"}, "stop")
    /\ \/ acked' = (device /\ (2 * address) % 256 \in {2 * s : s \in Slaves})
       \/ acked' = FALSE
    /\ UNCHANGED <<infoVars, isOpen, handle, device, speed, bus, refused, aborted>>

\* issue_stop(): nobody looks at its result.
IssueStop ==
    /\ UGoto({"stop"}, IF acked THEN "stream" ELSE "not read")
    /\ \/ device /\ bus' = "idle" /\ refused' = refused
       \/ bus' = bus /\ refused' = TRUE
    /\ UNCHANGED <<infoVars, isOpen, handle, device, speed, acked, aborted>>

\* check_dev()
CheckDev == IssueStart \/ CheckAck \/ IssueStop

\* CH341StreamI2C: a whole transaction of its own
StreamI2C ==
    /\ UGoto({"stream"}, "not read") \/ (device /\ UGoto({"stream"}, "read"))
    /\ UNCHANGED <<infoVars, isOpen, handle, device, speed, bus, acked, refused, aborted>>

\* The adapter is pulled out.
Unplug ==
    /\ device' = FALSE
    /\ bus' = "idle"
    /\ UNCHANGED <<infoVars, isOpen, handle, speed, upc, acked, refused, aborted>>

Next ==
    /\ ~aborted
    /\ \/ OpenDevice \/ SetStream \/ Close
       \/ Read \/ CheckDev \/ StreamI2C
       \/ Unplug

Spec == Init /\ [][Next]_vars

-----------------------------------------------------------------------------
(* Properties                                                              *)

TypeOK ==
    /\ {strict, isOpen, device, acked, refused, aborted} \subseteq BOOLEAN
    /\ address \in Addresses /\ {asked, speed} \subseteq 0 .. 3
    /\ handle \in {"unset", "invalid", "valid"}
    /\ upc \in Settled \cup {"set stream", "start", "ack", "stop", "stream"}
    /\ bus \in {"idle", "started"}

\* An open() that fails behind CH341OpenDevice leaves the device closed, and
\* read() leaves no transaction on the bus, unless the stop condition itself
\* could not be sent; it reads only behind an acknowledgement
\* (CH341.cpp:59-77, 122-163).
NothingLeftOpen ==
    /\ handle = "invalid" /\ upc \in {"not opened", "closed"} => ~device
    /\ upc = "not opened" => handle = "invalid"
    /\ bus = "started" => upc \in {"ack", "stop"} \/ refused
    /\ upc \in {"stream", "read"} => acked

-----------------------------------------------------------------------------
(* What the comments say and the code does not do                          *)

\* CH341.hpp:44-47 give four speeds: the device gets the highest, as the speed
\* asked for is or-ed with 0x03 (CH341.cpp:68).
SpeedIsAsked == upc = "opened" => speed = asked

\* CH341.cpp:93-96 "Not opened": _isOpen is never set, and in STRICT_MODE read()
\* fails its assertion on a device that is open.
OpenDeviceIsOpen == aborted /\ address < 128 => ~device
=============================================================================
