------------------------------ MODULE EventBus ------------------------------
(***************************************************************************)
(* The publish/subscribe bus: EventPublisher and EventSubscriber (Event,   *)
(* communication/impl), their TcpTransport (AsyncEventTransport.cpp) and   *)
(* the broker with its sessions and its topic registry                     *)
(* (AsyncEventBroker.cpp), over AsyncTcpSocket (AsyncTcp.cpp).             *)
(*                                                                         *)
(* A connection is one AsyncTcpSocket of a client and the session the      *)
(* broker gives it: two streams of whole frames, in order.  publish() and  *)
(* disconnect() are posted on the strand of their transport; connect(),    *)
(* subscribe() and the handlers of asio are not.  A session handles one    *)
(* frame at a time.  The module is that of a build without STRICT_MODE.    *)
(***************************************************************************)
EXTENDS Naturals, Sequences, SequencesExt

CONSTANTS
    Publishers, Subscribers,
    Events,        \* the payloads, each published once
    TopicOf,       \* the topic of each client
    Acking,        \* the subscribers that pass an onSubscribed handler
    Restarts,      \* whether the broker may be stopped and run again
    MaxConns,      \* bound on the sockets created
    StrandBound    \* bound on the tasks that wait on a strand

Clients == Publishers \cup Subscribers
Conns == 1 .. MaxConns
NoConn == 0

ASSUME ClientsAssumption == Acking \subseteq Subscribers /\ Publishers \cap Subscribers = {}
ASSUME BoundsAssumption == MaxConns \in Nat /\ StrandBound \in Nat /\ Restarts \in BOOLEAN

VARIABLES
    socket,     \* socket[c]: the connection of TcpTransport::_socket, or null
    connected,  \* connected[c]: TcpTransport::_connected
    strand,     \* strand[c]: the tasks posted on the strand, in order
    owners,     \* the clients that created the sockets so far, in order
    link,       \* link[k]: the client's end of connection k
    up, down,   \* up[k], down[k]: the frames on their way to and from the broker
    listening,  \* the broker accepts connections
    sess,       \* sess[k]: where the session of k is
    event,      \* event[k]: the event the session of k routes
    todo,       \* todo[k]: the sessions it has yet to send it to
    registry,   \* TopicRegistry::_sessions
    fault,      \* what went wrong, if anything
    wants,      \* wants[c]: the last call was regist() or subscribe() (history)
    posted,     \* posted[p]: the events passed to publish(), in order (history)
    sent,       \* sent[k]: the events written to k, in order (history)
    acked,      \* the connections whose onSubscribed was called (history)
    got,        \* got[k]: the events handed to the handler of k (history)
    owed        \* <<e, k>>: e was written when k was subscribed (history)

clientVars == <<socket, connected, strand, wants>>
linkVars == <<owners, link>>
brokerVars == <<listening, sess, event, todo, registry>>
historyVars == <<posted, sent, acked, got, owed>>
vars == <<clientVars, linkVars, up, down, brokerVars, fault, historyVars>>

Regist == "REGIST"
Ack == "ACK"
Tasks == {"disconnect", "clear"}    \* on a strand, with the events to publish

ASSUME EventsAssumption == Events \cap ({Regist, Ack} \cup Tasks) = {}

Links == {"unused", "connecting", "established", "greeting", "open", "closed", "stale"}
Sessions == {"none", "read", "ack", "route", "gone"}

Init ==
    /\ socket = [c \in Clients |-> NoConn]
    /\ connected = [c \in Clients |-> FALSE]
    /\ strand = [c \in Clients |-> <<>>]
    /\ owners = <<>>
    /\ link = [k \in Conns |-> "unused"]
    /\ up = [k \in Conns |-> <<>>]
    /\ down = [k \in Conns |-> <<>>]
    /\ listening = TRUE
    /\ sess = [k \in Conns |-> "none"]
    /\ event = [k \in Conns |-> Ack]
    /\ todo = [k \in Conns |-> {}]
    /\ registry = {}
    /\ fault = "none"
    /\ wants = [c \in Clients |-> FALSE]
    /\ posted = [p \in Publishers |-> <<>>]
    /\ sent = [k \in Conns |-> <<>>]
    /\ acked = {}
    /\ got = [k \in Conns |-> <<>>]
    /\ owed = {}

Created == DOMAIN owners
SubscriberConns == {k \in Created : owners[k] \in Subscribers}
Posted == UNION {ToSet(posted[p]) : p \in Publishers}
LinkStep(k, from, to) == link[k] = from /\ link' = [link EXCEPT ![k] = to]

-----------------------------------------------------------------------------
(* The user of a client                                                    *)

\* regist() and subscribe(): nothing happens if the transport is connected or
\* has a socket, otherwise a socket is created and starts to connect.
Connect(c) ==
    /\ wants' = [wants EXCEPT ![c] = TRUE]
    /\ \/ /\ connected[c] \/ socket[c] # NoConn
          /\ UNCHANGED <<socket, linkVars>>
       \/ LET k == Len(owners) + 1
          IN  /\ ~connected[c] /\ socket[c] = NoConn
              /\ k <= MaxConns
              /\ socket' = [socket EXCEPT ![c] = k]
              /\ owners' = Append(owners, c)
              /\ LinkStep(k, "unused", "connecting")
    /\ UNCHANGED <<connected, strand, up, down, brokerVars, fault, historyVars>>

Post(c, task) ==
    /\ Len(strand[c]) < StrandBound
    /\ strand' = [strand EXCEPT ![c] = Append(@, task)]

\* unregist(), unsubscribe() and the destructors
Disconnect(c) ==
    /\ Post(c, "disconnect")
    /\ wants' = [wants EXCEPT ![c] = FALSE]
    /\ UNCHANGED <<socket, connected, linkVars, up, down, brokerVars, fault, historyVars>>

Publish(p, e) ==
    /\ e \notin Posted
    /\ posted' = [posted EXCEPT ![p] = Append(@, e)]
    /\ Post(p, e)
    /\ UNCHANGED <<socket, connected, wants, linkVars, up, down, brokerVars, fault,
                   sent, acked, got, owed>>

-----------------------------------------------------------------------------
(* The tasks on the strand of a client                                     *)

\* The event of a publish task is written, or dropped: the transport is not
\* connected, or the write fails because the connection is gone.
Write(p, e) ==
    IF ~connected[p] \/ (socket[p] # NoConn /\ link[socket[p]] \in {"connecting", "closed"})
        THEN UNCHANGED <<up, fault, sent, owed>>
    ELSE IF socket[p] = NoConn
        THEN fault' = "null socket" /\ UNCHANGED <<up, sent, owed>>
    ELSE /\ up' = [up EXCEPT ![socket[p]] = Append(@, e)]
         /\ sent' = [sent EXCEPT ![socket[p]] = Append(@, e)]
         /\ owed' = owed \cup {<<e, k>> : k \in
                {j \in acked : link[j] = "open" /\ TopicOf[owners[j]] = TopicOf[p]}}
         /\ UNCHANGED fault

\* Mutant of StrandPublish: posted on the io_context, not on the strand.
StrandPublishUnordered(p) ==
    /\ \E i \in DOMAIN strand[p] :
          /\ strand[p][i] \in Events
          /\ Write(p, strand[p][i])
          /\ strand' = [strand EXCEPT ![p] = RemoveAt(@, i)]
    /\ UNCHANGED <<socket, connected, wants, linkVars, down, brokerVars, posted, acked, got>>

StrandPublish(p) ==
    /\ strand[p] # <<>> /\ Head(strand[p]) \in Events
    /\ Write(p, Head(strand[p]))
    /\ strand' = [strand EXCEPT ![p] = Tail(@)]
    /\ UNCHANGED <<socket, connected, wants, linkVars, down, brokerVars, posted, acked, got>>

\* The client's end of k is closed: a read that has completed may still be
\* handed over, and frames the broker has not read are lost if any were unread
\* here (the connection is reset).
Close(k) ==
    /\ \E n \in 0 .. Len(down[k]) :
          n <= 1 /\ down' = [down EXCEPT ![k] = SubSeq(@, 1, n)]
    /\ \E n \in 0 .. Len(up[k]) :
          /\ down[k] = <<>> => n = Len(up[k])
          /\ up' = [up EXCEPT ![k] = SubSeq(@, 1, n)]

\* disconnect(): _socket->disconnect(); _socket.reset() ...  A connect handler
\* that has been queued, or runs, is left without the socket it refers to.
StrandDisconnect(c) ==
    LET k == socket[c]
    IN  /\ strand[c] # <<>> /\ Head(strand[c]) = "disconnect"
        /\ IF k = NoConn
              THEN /\ strand' = [strand EXCEPT ![c] = Tail(@)]
                   /\ UNCHANGED <<socket, link, up, down>>
              ELSE /\ strand' = [strand EXCEPT ![c][1] = "clear"]
                   /\ socket' = [socket EXCEPT ![c] = NoConn]
                   /\ link' = [link EXCEPT ![k] =
                          IF @ \in {"established", "greeting"} THEN "stale" ELSE "closed"]
                   /\ Close(k)
        /\ UNCHANGED <<connected, wants, owners, brokerVars, fault, historyVars>>

\* ... _connected.store(false)
StrandClear(c) ==
    /\ strand[c] # <<>> /\ Head(strand[c]) = "clear"
    /\ strand' = [strand EXCEPT ![c] = Tail(@)]
    /\ connected' = [connected EXCEPT ![c] = FALSE]
    /\ UNCHANGED <<socket, wants, linkVars, up, down, brokerVars, fault, historyVars>>

-----------------------------------------------------------------------------
(* The network and the handlers of the client's socket, not on the strand  *)

\* The broker's listener accepts, and onAccept establishes a session.
Accept(k) ==
    /\ listening
    /\ LinkStep(k, "connecting", "established")
    /\ sess' = [sess EXCEPT ![k] = "read"]
    /\ UNCHANGED <<clientVars, owners, up, down, listening, event, todo, registry,
                   fault, historyVars>>

\* The connection fails: the transport keeps its socket.
Refuse(k) ==
    /\ ~listening
    /\ LinkStep(k, "connecting", "closed")
    /\ UNCHANGED <<clientVars, owners, up, down, brokerVars, fault, historyVars>>

\* The connection breaks, and frames on their way are lost.  Nothing resets
\* _connected.
Break(k) ==
    /\ LinkStep(k, "open", "closed")
    /\ \E n \in 0 .. Len(down[k]) : down' = [down EXCEPT ![k] = SubSeq(@, 1, n)]
    /\ \E n \in 0 .. Len(up[k]) : up' = [up EXCEPT ![k] = SubSeq(@, 1, n)]
    /\ UNCHANGED <<clientVars, owners, brokerVars, fault, historyVars>>

\* The connect handler: _connected.store(true) ...
Connected(k) ==
    /\ LinkStep(k, "established", IF k \in SubscriberConns THEN "greeting" ELSE "open")
    /\ connected' = [connected EXCEPT ![owners[k]] = TRUE]
    /\ UNCHANGED <<socket, strand, wants, owners, up, down, brokerVars, fault, historyVars>>

\* Mutant of Greet: what is sent is the acknowledgement.
GreetAck(k) ==
    /\ LinkStep(k, "greeting", "open")
    /\ up' = [up EXCEPT ![k] = Append(@, Ack)]
    /\ UNCHANGED <<clientVars, owners, down, brokerVars, fault, historyVars>>

\* ... and for a subscriber _socket->send(REGIST) and _socket->receive.
Greet(k) ==
    /\ LinkStep(k, "greeting", "open")
    /\ up' = [up EXCEPT ![k] = Append(@, Regist)]
    /\ UNCHANGED <<clientVars, owners, down, brokerVars, fault, historyVars>>

\* The connect handler of a socket that is gone uses it.
StaleHandler(k) ==
    /\ LinkStep(k, "stale", "closed")
    /\ fault' = "stale socket"
    /\ UNCHANGED <<clientVars, owners, up, down, brokerVars, historyVars>>

\* The receive loop of a subscriber: ACK calls onSubscribed, which may be
\* null, DATA calls onMessage.
Receive(k) ==
    /\ k \in SubscriberConns
    /\ link[k] \in {"open", "closed"}
    /\ down[k] # <<>>
    /\ down' = [down EXCEPT ![k] = Tail(@)]
    /\ IF Head(down[k]) \in Events
          THEN /\ got' = [got EXCEPT ![k] = Append(@, Head(down[k]))]
               /\ UNCHANGED <<acked, fault>>
          ELSE /\ acked' = acked \cup {k}
               /\ fault' = IF owners[k] \in Acking THEN fault ELSE "null handler"
               /\ UNCHANGED got
    /\ UNCHANGED <<clientVars, linkVars, up, brokerVars, posted, sent, owed>>

-----------------------------------------------------------------------------
(* The broker                                                              *)

\* stop() and run(): sessions are left alone.
BrokerSwitch ==
    /\ Restarts
    /\ listening' = ~listening
    /\ UNCHANGED <<clientVars, linkVars, up, down, sess, event, todo, registry,
                   fault, historyVars>>

\* route() holds the registry's lock shared, regist() and unregist() alone.
NobodyRoutes == \A k \in Conns : sess[k] # "route"

Reads(k) == sess[k] = "read" /\ up[k] # <<>>
Consume(k) == up' = [up EXCEPT ![k] = Tail(@)]
SGoto(k, from, to) == sess[k] = from /\ sess' = [sess EXCEPT ![k] = to]

\* Mutant of OnSubscribe: acknowledged before it is registered.
OnSubscribeAckFirst(k) ==
    /\ \/ /\ Reads(k) /\ Head(up[k]) = Regist
          /\ Consume(k)
          /\ SGoto(k, "read", "ack")
          /\ down' = [down EXCEPT ![k] = Append(@, Ack)]
          /\ UNCHANGED registry
       \/ /\ SGoto(k, "ack", "read")
          /\ NobodyRoutes
          /\ registry' = registry \cup {k}
          /\ UNCHANGED <<up, down>>
    /\ UNCHANGED <<clientVars, linkVars, listening, event, todo, fault, historyVars>>

\* REGIST: registry->regist(topic, session), then session->send(ACK).
OnSubscribe(k) ==
    /\ \/ /\ Reads(k) /\ Head(up[k]) = Regist
          /\ NobodyRoutes
          /\ Consume(k)
          /\ SGoto(k, "read", "ack")
          /\ registry' = registry \cup {k}
          /\ UNCHANGED down
       \/ /\ SGoto(k, "ack", "read")
          /\ down' = [down EXCEPT ![k] = Append(@, Ack)]
          /\ UNCHANGED <<up, registry>>
    /\ UNCHANGED <<clientVars, linkVars, listening, event, todo, fault, historyVars>>

\* DATA: route() sends the event to every session of the topic ...
OnEvent(k) ==
    /\ Reads(k) /\ Head(up[k]) \in Events
    /\ Consume(k)
    /\ SGoto(k, "read", "route")
    /\ event' = [event EXCEPT ![k] = Head(up[k])]
    /\ todo' = [todo EXCEPT ![k] =
           {j \in registry : TopicOf[owners[j]] = TopicOf[owners[k]]}]
    /\ UNCHANGED <<clientVars, linkVars, down, listening, registry, fault, historyVars>>

\* Mutant of RouteSend: a send that fails is tried again, under the lock.
RouteSendRetry(k) ==
    /\ sess[k] = "route"
    /\ \E j \in todo[k] :
          /\ link[j] = "open"
          /\ down' = [down EXCEPT ![j] = Append(@, event[k])]
          /\ todo' = [todo EXCEPT ![k] = @ \ {j}]
    /\ UNCHANGED <<clientVars, linkVars, up, listening, sess, event, registry,
                   fault, historyVars>>

\* ... one after the other; a write to a closed connection fails and is logged.
RouteSend(k) ==
    /\ sess[k] = "route"
    /\ \E j \in todo[k] :
          /\ down' = IF link[j] = "closed"
                        THEN down
                        ELSE [down EXCEPT ![j] = Append(@, event[k])]
          /\ todo' = [todo EXCEPT ![k] = @ \ {j}]
    /\ UNCHANGED <<clientVars, linkVars, up, listening, sess, event, registry,
                   fault, historyVars>>

RouteEnd(k) ==
    /\ todo[k] = {}
    /\ SGoto(k, "route", "read")
    /\ event' = [event EXCEPT ![k] = Ack]
    /\ UNCHANGED <<clientVars, linkVars, up, down, listening, todo, registry,
                   fault, historyVars>>

\* Mutant of OnUnsubscribe: the session ends and stays in the registry.
OnUnsubscribeSilent(k) ==
    /\ link[k] \in {"closed", "stale"} /\ up[k] = <<>>
    /\ SGoto(k, "read", "gone")
    /\ UNCHANGED <<clientVars, linkVars, up, down, listening, event, todo, registry,
                   fault, historyVars>>

\* The read fails at the end of the stream: registry->unregist(session), and
\* the session ends with its last handler.
OnUnsubscribe(k) ==
    /\ link[k] \in {"closed", "stale"} /\ up[k] = <<>>
    /\ NobodyRoutes
    /\ SGoto(k, "read", "gone")
    /\ registry' = registry \ {k}
    /\ UNCHANGED <<clientVars, linkVars, up, down, listening, event, todo,
                   fault, historyVars>>

Session(k) == OnSubscribe(k) \/ OnEvent(k) \/ RouteSend(k) \/ RouteEnd(k) \/ OnUnsubscribe(k)

-----------------------------------------------------------------------------

StrandStep(c) ==
    (c \in Publishers /\ StrandPublish(c)) \/ StrandDisconnect(c) \/ StrandClear(c)
Handler(k) == Accept(k) \/ Refuse(k) \/ Connected(k) \/ Greet(k) \/ StaleHandler(k)

Running == fault = "none"

Next ==
    /\ Running
    /\ \/ \E c \in Clients : Connect(c) \/ Disconnect(c) \/ StrandStep(c)
       \/ \E p \in Publishers, e \in Events : Publish(p, e)
       \/ \E k \in Created : Handler(k) \/ Break(k) \/ Receive(k) \/ Session(k)
       \/ BrokerSwitch

Spec == Init /\ [][Next]_vars

\* The threads of the io_context run what is queued, in the order of each
\* strand and each stream.  Nobody has to call anything, nothing has to break.
FairSpec ==
    /\ Spec
    /\ \A c \in Clients : WF_vars(Running /\ StrandStep(c))
    /\ \A k \in Conns :
          /\ WF_vars(Running /\ k \in Created /\ Handler(k))
          /\ WF_vars(Running /\ k \in Created /\ Receive(k))
          /\ WF_vars(Running /\ k \in Created /\ Session(k))

-----------------------------------------------------------------------------
(* Properties                                                              *)

\* Every variable keeps its type; only subscribers' sessions are registered or
\* acknowledged, and a session's todo is empty unless it routes.
TypeOK ==
    /\ socket \in [Clients -> Conns \cup {NoConn}]
    /\ connected \in [Clients -> BOOLEAN]
    /\ strand \in [Clients -> Seq(Events \cup Tasks)]
    /\ owners \in Seq(Clients)
    /\ link \in [Conns -> Links]
    /\ up \in [Conns -> Seq(Events \cup {Regist})]
    /\ down \in [Conns -> Seq(Events \cup {Ack})]
    /\ listening \in BOOLEAN
    /\ sess \in [Conns -> Sessions]
    /\ event \in [Conns -> Events \cup {Ack}]
    /\ todo \in [Conns -> SUBSET SubscriberConns]
    /\ \A k \in Conns : sess[k] # "route" => todo[k] = {}
    /\ registry \subseteq SubscriberConns
    /\ acked \subseteq SubscriberConns
    /\ wants \in [Clients -> BOOLEAN]
    /\ posted \in [Publishers -> Seq(Events)]
    /\ sent \in [Conns -> Seq(Events)]
    /\ got \in [Conns -> Seq(Events)]
    /\ owed \subseteq Events \X Conns

\* A subscriber is handed what was written to one connection of a publisher in
\* the order in which it was published, each event at most once, through the
\* strand and the broker's sessions (AsyncEventTransport.cpp:66-83,
\* AsyncEventBroker.cpp:51-112).  There is no order between two connections.
Rank(p, e) == CHOOSE i \in DOMAIN posted[p] : posted[p][i] = e
FifoPerConnection ==
    \A k, j \in Created : \A m, n \in DOMAIN got[k] :
        m < n /\ {got[k][m], got[k][n]} \subseteq ToSet(sent[j])
            => Rank(owners[j], got[k][m]) < Rank(owners[j], got[k][n])

\* The registry holds no session that has ended: no weak_ptr in it is expired
\* (AsyncEventBroker.cpp:72-112).
RegistryHoldsLive == \A k \in registry : sess[k] \in {"ack", "read", "route"}

\* An event written after the subscriber's onSubscribed was called reaches its
\* handler, unless one of the two connections ends (Event.hpp:108-109,
\* AsyncEventBroker.cpp:136-140).
Ended(e, k) ==
    link[k] # "open" \/ \E j \in Conns : e \in ToSet(sent[j]) /\ link[j] # "open"
AckedDelivery ==
    \A e \in Events, k \in Conns :
        (<<e, k>> \in owed) ~> (e \in ToSet(got[k]) \/ Ended(e, k) \/ ~Running)

\* A session whose client is gone leaves the registry, although it needs the
\* lock that routing sessions share (AsyncEventBroker.hpp:39).
ClosedSessionLeaves ==
    \A k \in Conns :
        (sess[k] # "none" /\ link[k] = "closed") ~>
            ((sess[k] = "gone" /\ k \notin registry) \/ ~Running)

-----------------------------------------------------------------------------
(* What the comments say and the code does not do                          *)

\* EventTransport.hpp:70 "Optional. Called when the broker sends an ACK.
\* Defaults to nullptr": a null handler is not called.
NoNullHandlerCall == fault # "null handler"

\* AsyncEventTransport.hpp:43 "All socket operations are dispatched through an
\* asio::strand to prevent data races": no handler uses a socket that the
\* strand has released.
NoReleasedSocketUse == fault \notin {"null socket", "stale socket"}

\* Event.hpp:63 "Connects to the broker and makes the publisher ready to send":
\* a publisher whose last call was regist() gets connected.
RegistConnects ==
    \A p \in Publishers : (<>[](wants[p] /\ Running)) => []<>connected[p]
=============================================================================
