-------------------------- MODULE EventBusProofs --------------------------
(***************************************************************************)
(* Safety of EventBus for all sets of publishers, subscribers and events   *)
(* and for any number of connections.                                      *)
(*                                                                         *)
(* The order of delivery is established stage by stage: on the strand, on  *)
(* the stream to the broker, in the session that routes an event, on the   *)
(* stream to the subscriber and in its handler.  What is at one stage is   *)
(* in order, and after what has passed it.                                 *)
(***************************************************************************)
EXTENDS EventBus, TLAPS

-----------------------------------------------------------------------------
(* Types                                                                   *)

\* A transport uses a socket of its own.
OwnSocket ==
    /\ Len(owners) <= MaxConns
    /\ \A c \in Clients : socket[c] # NoConn =>
           socket[c] \in Created /\ owners[socket[c]] = c

\* A session begins when its connection does, and REGIST is sent by subscribers.
Beginnings ==
    \A k \in Conns :
        /\ link[k] \in {"unused", "connecting"} => sess[k] = "none"
        /\ link[k] = "greeting" => k \in SubscriberConns
        /\ Regist \in ToSet(up[k]) => k \in SubscriberConns

TypeInv == TypeOK /\ OwnSocket /\ Beginnings

-----------------------------------------------------------------------------
(* Order                                                                   *)

\* e was passed to publish() before f, by the same publisher; P is posted.
Before(P, e, f) ==
    \E p \in Publishers : \E m, n \in DOMAIN P[p] : m < n /\ P[p][m] = e /\ P[p][n] = f
AllBefore(P, S, T) == \A e \in S, f \in T : Before(P, e, f)
InOrder(P, s, S) ==
    \A m, n \in DOMAIN s : m < n /\ {s[m], s[n]} \subseteq S => Before(P, s[m], s[n])

EventsOf(s) == ToSet(s) \cap Events

PostedOnce ==
    \A p, q \in Publishers : \A m \in DOMAIN posted[p], n \in DOMAIN posted[q] :
        posted[p][m] = posted[q][n] => p = q /\ m = n

\* What waits on a strand was posted by its publisher, in this order, and is
\* after what was written.
StrandOrder ==
    \A p \in Publishers :
        /\ EventsOf(strand[p]) \subseteq ToSet(posted[p])
        /\ InOrder(posted, strand[p], Events)
        /\ \A k \in Created : owners[k] = p =>
               AllBefore(posted, ToSet(sent[k]), EventsOf(strand[p]))

\* An event is written to one connection, of the publisher that posted it.
SentOnce ==
    \A k \in Conns : \A e \in ToSet(sent[k]) :
        /\ k \in Created /\ owners[k] \in Publishers
        /\ e \in ToSet(posted[owners[k]])
        /\ \A j \in Conns : e \in ToSet(sent[j]) => j = k

\* What is on its way to the broker was written in this order, and is after
\* what the session routes.
UpOrder ==
    \A k \in Conns :
        /\ EventsOf(up[k]) \subseteq ToSet(sent[k])
        /\ InOrder(posted, up[k], Events)
        /\ sess[k] = "route" => /\ event[k] \in ToSet(sent[k])
                                /\ AllBefore(posted, {event[k]}, EventsOf(up[k]))

\* What was sent to the subscriber of k.
Routed(k) == EventsOf(down[k]) \cup ToSet(got[k])

\* What was sent to a subscriber had been written by a publisher, and is before
\* what its session routes and before what is on its way to the broker.
RoutedFirst ==
    \A k \in Conns :
        /\ \A e \in Routed(k) : \E j \in Conns : e \in ToSet(sent[j])
        /\ \A j \in Conns : \A e \in Routed(k) \cap ToSet(sent[j]) :
               /\ AllBefore(posted, {e}, EventsOf(up[j]))
               /\ sess[j] = "route" => \/ Before(posted, e, event[j])
                                       \/ e = event[j] /\ k \notin todo[j]

\* What is on its way to a subscriber is in order, and after what its handler
\* got; both as far as it comes from one connection.
DownOrder ==
    \A k, j \in Conns :
        /\ InOrder(posted, got[k], ToSet(sent[j]))
        /\ InOrder(posted, down[k], ToSet(sent[j]))
        /\ AllBefore(posted, ToSet(got[k]) \cap ToSet(sent[j]),
                             ToSet(down[k]) \cap ToSet(sent[j]))

OrderInv == PostedOnce /\ StrandOrder /\ SentOnce /\ UpOrder /\ RoutedFirst /\ DownOrder

USE ClientsAssumption, BoundsAssumption, EventsAssumption

-----------------------------------------------------------------------------
(* Streams                                                                 *)

\* What a completed read takes from a stream was in it ...
LEMMA Shorter ==
    ASSUME NEW S, NEW s \in Seq(S), s # <<>>
    PROVE  /\ Tail(s) \in Seq(S) /\ Head(s) \in S /\ Head(s) \in ToSet(s)
           /\ ToSet(Tail(s)) \subseteq ToSet(s)
BY DEF ToSet

\* ... and what is left of it when its connection breaks ...
LEMMA Prefix ==
    ASSUME NEW S, NEW s \in Seq(S), NEW n \in 0 .. Len(s)
    PROVE  SubSeq(s, 1, n) \in Seq(S) /\ ToSet(SubSeq(s, 1, n)) \subseteq ToSet(s)
<1>1. /\ SubSeq(s, 1, n) \in Seq(S)
      /\ \A i \in DOMAIN SubSeq(s, 1, n) : i \in DOMAIN s /\ SubSeq(s, 1, n)[i] = s[i]
  OBVIOUS
<1>2. QED
  BY <1>1 DEF ToSet

\* ... while a write adds what it writes.
LEMMA Longer ==
    ASSUME NEW S, NEW s \in Seq(S), NEW e \in S
    PROVE  Append(s, e) \in Seq(S) /\ ToSet(Append(s, e)) = ToSet(s) \cup {e}
<1>1. /\ Append(s, e) \in Seq(S) /\ DOMAIN Append(s, e) = 1 .. (Len(s) + 1)
      /\ Append(s, e)[Len(s) + 1] = e
      /\ \A i \in DOMAIN s : Append(s, e)[i] = s[i]
  OBVIOUS
<1>2. QED
  BY <1>1 DEF ToSet

\* t has no events that s does not have, nor in another order.
Within(t, s) ==
    /\ EventsOf(t) \subseteq EventsOf(s)
    /\ \A m, n \in DOMAIN t : m < n /\ {t[m], t[n]} \subseteq Events =>
           \E i, j \in DOMAIN s : i < j /\ s[i] = t[m] /\ s[j] = t[n]

\* A stream is within itself ...
LEMMA WithinItself ==
    ASSUME NEW s PROVE Within(s, s)
BY DEF Within

\* ... and so is what a read leaves of it, ...
LEMMA WithoutHead ==
    ASSUME NEW S, NEW s \in Seq(S), s # <<>>
    PROVE  Within(Tail(s), s)
<1>1. \A i \in DOMAIN Tail(s) : i + 1 \in DOMAIN s /\ Tail(s)[i] = s[i + 1] /\ i \in Nat
  OBVIOUS
<1>2. ASSUME NEW m \in DOMAIN Tail(s), NEW n \in DOMAIN Tail(s), m < n
      PROVE  \E i, j \in DOMAIN s : i < j /\ s[i] = Tail(s)[m] /\ s[j] = Tail(s)[n]
  <2>1. m + 1 < n + 1
    BY <1>1, <1>2
  <2>2. QED
    BY <1>1, <2>1
<1>3. QED
  BY <1>2, Shorter DEF Within, EventsOf

\* ... what a broken connection leaves of it, ...
LEMMA CutShort ==
    ASSUME NEW S, NEW s \in Seq(S), NEW n \in 0 .. Len(s)
    PROVE  Within(SubSeq(s, 1, n), s)
<1>1. \A i \in DOMAIN SubSeq(s, 1, n) : i \in DOMAIN s /\ SubSeq(s, 1, n)[i] = s[i]
  OBVIOUS
<1>2. QED
  BY <1>1, Prefix DEF Within, EventsOf

\* ... the stream with REGIST, ACK or a task after it ...
LEMMA NothingAdded ==
    ASSUME NEW S, NEW s \in Seq(S), NEW x \in S, x \notin Events
    PROVE  Within(Append(s, x), s)
<1>1. /\ DOMAIN Append(s, x) = 1 .. (Len(s) + 1) /\ DOMAIN s = 1 .. Len(s) /\ Len(s) \in Nat
      /\ Append(s, x)[Len(s) + 1] = x
      /\ \A i \in DOMAIN s : Append(s, x)[i] = s[i]
  OBVIOUS
<1>2. \A i \in DOMAIN Append(s, x) : Append(s, x)[i] \in Events =>
          i \in DOMAIN s /\ Append(s, x)[i] = s[i]
  BY <1>1
<1>3. QED
  BY <1>2, Longer DEF Within, EventsOf

\* ... and the strand whose first task becomes another one.
LEMMA NothingReplaced ==
    ASSUME NEW S, NEW s \in Seq(S), s # <<>>, NEW x \in S, x \notin Events
    PROVE  Within([s EXCEPT ![1] = x], s)
<1>1. \A i \in DOMAIN s : [s EXCEPT ![1] = x][i] \in Events => [s EXCEPT ![1] = x][i] = s[i]
  OBVIOUS
<1>2. DOMAIN [s EXCEPT ![1] = x] = DOMAIN s
  OBVIOUS
<1>3. QED
  BY <1>1, <1>2 DEF Within, EventsOf, ToSet

\* So what was in order still is.
LEMMA WithinInOrder ==
    ASSUME NEW P, NEW T, T \subseteq Events, NEW s, NEW t, Within(t, s), InOrder(P, s, T)
    PROVE  InOrder(P, t, T)
BY DEF Within, InOrder

\* The head of a stream in order is before the rest ...
LEMMA HeadFirst ==
    ASSUME NEW P, NEW S, NEW T, NEW s \in Seq(S), s # <<>>, InOrder(P, s, T), Head(s) \in T
    PROVE  AllBefore(P, {Head(s)}, ToSet(Tail(s)) \cap T)
<1> SUFFICES ASSUME NEW f \in ToSet(Tail(s)) \cap T PROVE Before(P, Head(s), f)
  BY DEF AllBefore
<1>1. PICK i \in DOMAIN Tail(s) : f = Tail(s)[i]
  BY DEF ToSet
<1>2. i \in Nat \ {0} /\ i + 1 \in DOMAIN s /\ Tail(s)[i] = s[i + 1]
  OBVIOUS
<1>3. 1 \in DOMAIN s /\ s[1] = Head(s) /\ 1 < i + 1
  BY <1>2
<1>4. QED
  BY <1>1, <1>2, <1>3 DEF InOrder

\* ... and a stream stays in order if what is appended is after all of it.
LEMMA LongerInOrder ==
    ASSUME NEW P, NEW S, NEW T, NEW s \in Seq(S), NEW e \in S, InOrder(P, s, T),
           e \in T => AllBefore(P, ToSet(s) \cap T, {e})
    PROVE  InOrder(P, Append(s, e), T)
<1>1. /\ DOMAIN Append(s, e) = 1 .. (Len(s) + 1) /\ DOMAIN s = 1 .. Len(s) /\ Len(s) \in Nat
      /\ Append(s, e)[Len(s) + 1] = e
      /\ \A i \in DOMAIN s : Append(s, e)[i] = s[i]
  OBVIOUS
<1> SUFFICES ASSUME NEW m \in 1 .. (Len(s) + 1), NEW n \in 1 .. (Len(s) + 1), m < n,
                    {Append(s, e)[m], Append(s, e)[n]} \subseteq T
             PROVE  Before(P, Append(s, e)[m], Append(s, e)[n])
  BY <1>1 DEF InOrder
<1>2. m \in DOMAIN s
  BY <1>1
<1>3. CASE n = Len(s) + 1
  BY <1>1, <1>2, <1>3 DEF AllBefore, ToSet
<1>4. CASE n # Len(s) + 1
  <2>1. n \in DOMAIN s
    BY <1>1, <1>4
  <2>2. QED
    BY <1>1, <1>2, <2>1 DEF InOrder
<1>5. QED
  BY <1>3, <1>4

\* A part of what is in order is in order.
LEMMA PartInOrder ==
    ASSUME NEW P, NEW s, NEW S, NEW T, InOrder(P, s, S), ToSet(s) \cap T \subseteq S
    PROVE  InOrder(P, s, T)
BY DEF InOrder, ToSet

-----------------------------------------------------------------------------
(* Types                                                                   *)

\* A step keeps the types: one case for each handler, call and session step.
LEMMA TypeStep == TypeInv /\ Next => TypeInv'
<1> SUFFICES ASSUME TypeInv, Next PROVE TypeInv'
  OBVIOUS
<1>1. /\ SubscriberConns \subseteq Created /\ Created \subseteq Conns
      /\ UNCHANGED owners => UNCHANGED <<Created, SubscriberConns>>
  <2>1. owners \in Seq(Clients) /\ Len(owners) <= MaxConns
    BY DEF TypeInv, TypeOK, OwnSocket
  <2>2. SubscriberConns \subseteq Created /\ Created \subseteq Conns
    BY <2>1 DEF Created, SubscriberConns, Conns
  <2>3. ASSUME UNCHANGED owners PROVE UNCHANGED <<Created, SubscriberConns>>
    BY <2>3 DEF Created, SubscriberConns
  <2>4. QED
    BY <2>2, <2>3
<1> USE DEF TypeInv, Links, Sessions, NoConn, Tasks, LinkStep, clientVars, linkVars,
            brokerVars, historyVars, Reads, Consume, SGoto
<1>2. ASSUME NEW c \in Clients, Connect(c) PROVE TypeInv'
  <2>1. CASE UNCHANGED <<socket, linkVars>>
    BY <1>1, <1>2, <2>1 DEF Connect, TypeOK, OwnSocket, Beginnings
  <2>2. CASE ~UNCHANGED <<socket, linkVars>>
    <3> DEFINE n == Len(owners) + 1
    <3>1. /\ n \in Conns /\ link[n] = "unused"
          /\ socket' = [socket EXCEPT ![c] = n]
          /\ owners' = Append(owners, c)
          /\ link' = [link EXCEPT ![n] = "connecting"]
          /\ wants' = [wants EXCEPT ![c] = TRUE]
          /\ UNCHANGED <<connected, strand, up, down, brokerVars, fault, historyVars>>
      BY <1>2, <2>2 DEF Connect, TypeOK, Conns, LinkStep, linkVars
    <3>2. /\ owners \in Seq(Clients) /\ Len(owners) \in Nat
          /\ owners' \in Seq(Clients) /\ Len(owners') = n /\ owners'[n] = c
          /\ \A j \in 1 .. Len(owners) : owners'[j] = owners[j]
      BY <3>1 DEF TypeOK
    <3>3. /\ Created \subseteq Created' /\ n \in Created'
          /\ \A j \in Created : owners'[j] = owners[j]
          /\ SubscriberConns \subseteq SubscriberConns'
      BY <3>2 DEF Created, SubscriberConns
    <3>4. TypeOK'
      BY <3>1, <3>2, <3>3 DEF TypeOK
    <3>5. OwnSocket'
      <4>1. Len(owners') <= MaxConns
        BY <3>1, <3>2 DEF Conns
      <4>2. QED
        BY <3>1, <3>2, <3>3, <4>1 DEF OwnSocket, TypeOK
    <3>6. Beginnings'
      BY <3>1, <3>2, <3>3 DEF Beginnings, TypeOK
    <3>7. QED
      BY <3>4, <3>5, <3>6
  <2>3. QED
    BY <2>1, <2>2
<1>3. ASSUME NEW c \in Clients, Disconnect(c) PROVE TypeInv'
  <2>1. TypeOK'
    BY <1>1, <1>3 DEF Disconnect, Post, TypeOK
  <2>2. OwnSocket' /\ Beginnings'
    BY <1>1, <1>3 DEF Disconnect, Post, TypeOK, OwnSocket, Beginnings
  <2>3. QED
    BY <2>1, <2>2
<1>4. ASSUME NEW p \in Publishers, NEW e \in Events, Publish(p, e) PROVE TypeInv'
  <2>1. /\ posted' = [posted EXCEPT ![p] = Append(@, e)]
        /\ strand' = [strand EXCEPT ![p] = Append(@, e)]
        /\ UNCHANGED <<socket, connected, wants, linkVars, up, down, brokerVars, fault,
                       sent, acked, got, owed>>
    BY <1>4 DEF Publish, Post
  <2>2. posted' \in [Publishers -> Seq(Events)]
    BY <2>1 DEF TypeOK
  <2>3. strand' \in [Clients -> Seq(Events \cup Tasks)]
    BY <2>1 DEF TypeOK, Clients
  <2>4. TypeOK'
    BY <1>1, <2>1, <2>2, <2>3 DEF TypeOK
  <2>5. OwnSocket' /\ Beginnings'
    BY <1>1, <2>1 DEF OwnSocket, Beginnings
  <2>6. QED
    BY <2>4, <2>5
<1>5. ASSUME NEW p \in Publishers, StrandPublish(p) PROVE TypeInv'
  <2> DEFINE e == Head(strand[p])
             n == socket[p]
  <2>1. /\ e \in Events /\ Write(p, e)
        /\ strand' = [strand EXCEPT ![p] = Tail(strand[p])]
        /\ strand[p] # <<>>
        /\ UNCHANGED <<socket, connected, wants, linkVars, down, brokerVars, posted, acked, got>>
    BY <1>5 DEF StrandPublish
  <2>2. Tail(strand[p]) \in Seq(Events \cup Tasks)
    BY <2>1 DEF TypeOK, Clients
  <2>3. strand' \in [Clients -> Seq(Events \cup Tasks)]
    BY <2>1, <2>2 DEF TypeOK
  <2>4. CASE UNCHANGED <<up, sent, owed>>
    BY <1>1, <2>1, <2>3, <2>4 DEF TypeOK, OwnSocket, Beginnings
  <2>5. CASE ~UNCHANGED <<up, sent, owed>>
    <3>1. /\ n # NoConn
          /\ up' = [up EXCEPT ![n] = Append(@, e)]
          /\ sent' = [sent EXCEPT ![n] = Append(@, e)]
          /\ owed' = owed \cup {<<e, k>> : k \in
                {j \in acked : link[j] = "open" /\ TopicOf[owners[j]] = TopicOf[p]}}
      BY <2>1, <2>5 DEF Write
    <3>2. n \in Conns /\ acked \subseteq Conns
      BY <1>1, <3>1 DEF TypeOK, Clients
    <3>3. owed' \subseteq Events \X Conns
      BY <2>1, <3>1, <3>2 DEF TypeOK
    <3>4. /\ Append(up[n], e) \in Seq(Events \cup {Regist})
          /\ ToSet(Append(up[n], e)) = ToSet(up[n]) \cup {e}
      <4>1. up[n] \in Seq(Events \cup {Regist}) /\ e \in Events \cup {Regist}
        BY <2>1, <3>2 DEF TypeOK
      <4>2. QED
        BY <4>1, Longer
    <3>5. Append(sent[n], e) \in Seq(Events)
      BY <2>1, <3>2 DEF TypeOK
    <3>6. TypeOK'
      BY <1>1, <2>1, <2>3, <3>1, <3>2, <3>3, <3>4, <3>5 DEF TypeOK
    <3>7. OwnSocket'
      BY <1>1, <2>1, <3>1 DEF OwnSocket
    <3>8. Regist # e
      BY <2>1
    <3>9. Beginnings'
      BY <1>1, <2>1, <3>1, <3>2, <3>4, <3>8 DEF Beginnings, TypeOK
    <3>10. QED
      BY <3>6, <3>7, <3>9
  <2>6. QED
    BY <2>4, <2>5
<1>6. ASSUME NEW c \in Clients, StrandDisconnect(c) PROVE TypeInv'
  <2> DEFINE k == socket[c]
  <2>1. /\ strand[c] # <<>>
        /\ UNCHANGED <<connected, wants, owners, brokerVars, fault, historyVars>>
    BY <1>6 DEF StrandDisconnect
  <2>2. Tail(strand[c]) \in Seq(Events \cup Tasks)
        /\ [strand[c] EXCEPT ![1] = "clear"] \in Seq(Events \cup Tasks)
    BY <2>1 DEF TypeOK
  <2>3. CASE k = NoConn
    <3>1. strand' = [strand EXCEPT ![c] = Tail(@)] /\ UNCHANGED <<socket, link, up, down>>
      BY <1>6, <2>3 DEF StrandDisconnect
    <3>2. TypeOK'
      BY <1>1, <2>1, <2>2, <3>1 DEF TypeOK
    <3>3. OwnSocket' /\ Beginnings'
      BY <1>1, <2>1, <3>1 DEF OwnSocket, Beginnings
    <3>4. QED
      BY <3>2, <3>3
  <2>4. CASE k # NoConn
    <3>1. /\ strand' = [strand EXCEPT ![c][1] = "clear"]
          /\ socket' = [socket EXCEPT ![c] = NoConn]
          /\ \E l \in {"stale", "closed"} : link' = [link EXCEPT ![k] = l]
          /\ Close(k)
      BY <1>6, <2>4 DEF StrandDisconnect
    <3>2. k \in Conns
      BY <2>4 DEF TypeOK
    <3>3. PICK n \in 0 .. Len(down[k]) : down' = [down EXCEPT ![k] = SubSeq(@, 1, n)]
      BY <3>1 DEF Close
    <3>4. PICK m \in 0 .. Len(up[k]) : up' = [up EXCEPT ![k] = SubSeq(@, 1, m)]
      BY <3>1 DEF Close
    <3>5. /\ SubSeq(down[k], 1, n) \in Seq(Events \cup {Ack})
          /\ SubSeq(up[k], 1, m) \in Seq(Events \cup {Regist})
          /\ ToSet(SubSeq(up[k], 1, m)) \subseteq ToSet(up[k])
      BY <3>2, Prefix DEF TypeOK
    <3>6. TypeOK'
      BY <1>1, <2>1, <2>2, <3>1, <3>2, <3>3, <3>4, <3>5 DEF TypeOK
    <3>7. OwnSocket'
      BY <1>1, <2>1, <3>1 DEF OwnSocket, TypeOK
    <3>8. Beginnings'
      BY <1>1, <2>1, <3>1, <3>2, <3>4, <3>5 DEF Beginnings, TypeOK
    <3>9. QED
      BY <3>6, <3>7, <3>8
  <2>5. QED
    BY <2>3, <2>4
<1>7. ASSUME NEW c \in Clients, StrandClear(c) PROVE TypeInv'
  <2>1. TypeOK'
    BY <1>1, <1>7 DEF StrandClear, TypeOK
  <2>2. OwnSocket' /\ Beginnings'
    BY <1>1, <1>7 DEF StrandClear, TypeOK, OwnSocket, Beginnings
  <2>3. QED
    BY <2>1, <2>2
<1>8. ASSUME NEW k \in Created, Accept(k) PROVE TypeInv'
  <2>1. k \in Conns /\ sess[k] = "none" /\ todo[k] = {}
    BY <1>1, <1>8 DEF Accept, TypeOK, Beginnings
  <2>2. TypeOK'
    BY <1>1, <1>8, <2>1 DEF Accept, TypeOK
  <2>3. OwnSocket' /\ Beginnings'
    BY <1>1, <1>8, <2>1 DEF Accept, TypeOK, OwnSocket, Beginnings
  <2>4. QED
    BY <2>2, <2>3
<1>9. ASSUME NEW k \in Created, Refuse(k) PROVE TypeInv'
  <2>1. TypeOK'
    BY <1>1, <1>9 DEF Refuse, TypeOK
  <2>2. OwnSocket' /\ Beginnings'
    BY <1>1, <1>9 DEF Refuse, TypeOK, OwnSocket, Beginnings
  <2>3. QED
    BY <2>1, <2>2
<1>10. ASSUME NEW k \in Created, Connected(k) PROVE TypeInv'
  <2>1. TypeOK'
    BY <1>1, <1>10 DEF Connected, TypeOK
  <2>2. OwnSocket' /\ Beginnings'
    BY <1>1, <1>10 DEF Connected, TypeOK, OwnSocket, Beginnings
  <2>3. QED
    BY <2>1, <2>2
<1>11. ASSUME NEW k \in Created, Greet(k) PROVE TypeInv'
  <2>1. k \in Conns /\ k \in SubscriberConns
    BY <1>1, <1>11 DEF Greet, Beginnings
  <2>2. /\ Append(up[k], Regist) \in Seq(Events \cup {Regist})
        /\ ToSet(Append(up[k], Regist)) = ToSet(up[k]) \cup {Regist}
    <3>1. up[k] \in Seq(Events \cup {Regist}) /\ Regist \in Events \cup {Regist}
      BY <2>1 DEF TypeOK
    <3>2. QED
      BY <3>1, Longer
  <2>3. TypeOK'
    BY <1>1, <1>11, <2>1, <2>2 DEF Greet, TypeOK
  <2>4. OwnSocket' /\ Beginnings'
    BY <1>1, <1>11, <2>1, <2>2 DEF Greet, TypeOK, OwnSocket, Beginnings
  <2>5. QED
    BY <2>3, <2>4
<1>12. ASSUME NEW k \in Created, StaleHandler(k) PROVE TypeInv'
  <2>1. TypeOK'
    BY <1>1, <1>12 DEF StaleHandler, TypeOK
  <2>2. OwnSocket' /\ Beginnings'
    BY <1>1, <1>12 DEF StaleHandler, TypeOK, OwnSocket, Beginnings
  <2>3. QED
    BY <2>1, <2>2
<1>13. ASSUME NEW k \in Created, Break(k) PROVE TypeInv'
  <2>1. k \in Conns
    BY <1>1
  <2>2. PICK n \in 0 .. Len(down[k]) : down' = [down EXCEPT ![k] = SubSeq(@, 1, n)]
    BY <1>13 DEF Break
  <2>3. PICK m \in 0 .. Len(up[k]) : up' = [up EXCEPT ![k] = SubSeq(@, 1, m)]
    BY <1>13 DEF Break
  <2>4. /\ SubSeq(down[k], 1, n) \in Seq(Events \cup {Ack})
        /\ SubSeq(up[k], 1, m) \in Seq(Events \cup {Regist})
        /\ ToSet(SubSeq(up[k], 1, m)) \subseteq ToSet(up[k])
    BY <2>1, Prefix DEF TypeOK
  <2>5. TypeOK'
    BY <1>1, <1>13, <2>1, <2>2, <2>3, <2>4 DEF Break, TypeOK
  <2>6. OwnSocket'
    BY <1>1, <1>13 DEF Break, OwnSocket
  <2>7. Beginnings'
    BY <1>1, <1>13, <2>1, <2>3, <2>4 DEF Break, Beginnings, TypeOK
  <2>8. QED
    BY <2>5, <2>6, <2>7
<1>14. ASSUME NEW k \in Created, Receive(k) PROVE TypeInv'
  <2>1. /\ k \in Conns /\ k \in SubscriberConns
        /\ down[k] # <<>> /\ down' = [down EXCEPT ![k] = Tail(@)]
        /\ UNCHANGED <<clientVars, linkVars, up, brokerVars, posted, sent, owed>>
    BY <1>1, <1>14 DEF Receive
  <2>2. Tail(down[k]) \in Seq(Events \cup {Ack})
    BY <2>1 DEF TypeOK
  <2>3. down' \in [Conns -> Seq(Events \cup {Ack})]
    BY <2>1, <2>2 DEF TypeOK
  <2>4. got' \in [Conns -> Seq(Events)] /\ acked' \subseteq SubscriberConns
    <3>1. CASE Head(down[k]) \in Events
      <4>1. got' = [got EXCEPT ![k] = Append(@, Head(down[k]))] /\ UNCHANGED acked
        BY <1>14, <3>1 DEF Receive
      <4>2. Append(got[k], Head(down[k])) \in Seq(Events)
        BY <2>1, <3>1 DEF TypeOK
      <4>3. QED
        BY <4>1, <4>2 DEF TypeOK
    <3>2. CASE Head(down[k]) \notin Events
      <4>1. acked' = acked \cup {k} /\ UNCHANGED got
        BY <1>14, <3>2 DEF Receive
      <4>2. QED
        BY <2>1, <4>1 DEF TypeOK
    <3>3. QED
      BY <3>1, <3>2
  <2>5. TypeOK'
    BY <1>1, <2>1, <2>3, <2>4 DEF TypeOK
  <2>6. OwnSocket' /\ Beginnings'
    BY <1>1, <2>1 DEF OwnSocket, Beginnings
  <2>7. QED
    BY <2>5, <2>6
<1>15. ASSUME BrokerSwitch PROVE TypeInv'
  <2>1. TypeOK'
    BY <1>1, <1>15 DEF BrokerSwitch, TypeOK
  <2>2. OwnSocket' /\ Beginnings'
    BY <1>1, <1>15 DEF BrokerSwitch, TypeOK, OwnSocket, Beginnings
  <2>3. QED
    BY <2>1, <2>2
<1>16. ASSUME NEW k \in Created, OnSubscribe(k) PROVE TypeInv'
  <2>1. /\ k \in Conns
        /\ up[k] # <<>> => /\ Tail(up[k]) \in Seq(Events \cup {Regist})
                          /\ ToSet(Tail(up[k])) \subseteq ToSet(up[k])
                          /\ Head(up[k]) \in ToSet(up[k])
    BY <1>1, Shorter DEF TypeOK
  <2>2. Append(down[k], Ack) \in Seq(Events \cup {Ack})
    BY <2>1, Longer DEF TypeOK
  <2>3. CASE sess[k] = "read"
    <3>1. /\ up[k] # <<>> /\ Head(up[k]) = Regist
          /\ up' = [up EXCEPT ![k] = Tail(@)]
          /\ sess' = [sess EXCEPT ![k] = "ack"]
          /\ registry' = registry \cup {k}
          /\ UNCHANGED <<clientVars, linkVars, down, listening, event, todo, fault, historyVars>>
      BY <1>16, <2>3 DEF OnSubscribe
    <3>2. k \in SubscriberConns
      BY <2>1, <3>1 DEF Beginnings
    <3>3. TypeOK'
      BY <1>1, <2>1, <2>3, <3>1, <3>2 DEF TypeOK
    <3>4. OwnSocket' /\ Beginnings'
      BY <1>1, <2>1, <2>3, <3>1 DEF OwnSocket, Beginnings, TypeOK
    <3>5. QED
      BY <3>3, <3>4
  <2>4. CASE sess[k] # "read"
    <3>1. /\ sess[k] = "ack"
          /\ sess' = [sess EXCEPT ![k] = "read"]
          /\ down' = [down EXCEPT ![k] = Append(@, Ack)]
          /\ UNCHANGED <<clientVars, linkVars, up, registry, listening, event, todo,
                         fault, historyVars>>
      BY <1>16, <2>4 DEF OnSubscribe
    <3>2. TypeOK'
      BY <1>1, <2>1, <2>2, <3>1 DEF TypeOK
    <3>3. OwnSocket' /\ Beginnings'
      BY <1>1, <2>1, <3>1 DEF OwnSocket, Beginnings, TypeOK
    <3>4. QED
      BY <3>2, <3>3
  <2>5. QED
    BY <2>3, <2>4
<1>17. ASSUME NEW k \in Created, OnEvent(k) PROVE TypeInv'
  <2>1. /\ k \in Conns
        /\ up[k] # <<>> => /\ Tail(up[k]) \in Seq(Events \cup {Regist})
                          /\ ToSet(Tail(up[k])) \subseteq ToSet(up[k])
                          /\ Head(up[k]) \in ToSet(up[k])
    BY <1>1, Shorter DEF TypeOK
  <2>2. /\ up[k] # <<>> /\ Head(up[k]) \in Events
        /\ sess[k] = "read"
        /\ up' = [up EXCEPT ![k] = Tail(@)]
        /\ sess' = [sess EXCEPT ![k] = "route"]
        /\ event' = [event EXCEPT ![k] = Head(up[k])]
        /\ UNCHANGED <<clientVars, linkVars, down, listening, registry, fault, historyVars>>
    BY <1>17 DEF OnEvent
  <2>3. PICK S \in SUBSET registry : todo' = [todo EXCEPT ![k] = S]
    BY <1>17 DEF OnEvent
  <2>4. /\ todo' \in [Conns -> SUBSET SubscriberConns']
        /\ \A i \in Conns : sess'[i] # "route" => todo'[i] = {}
    <3>1. UNCHANGED SubscriberConns /\ S \in SUBSET SubscriberConns
      BY <1>1, <2>2 DEF TypeOK
    <3>2. QED
      BY <2>1, <2>2, <2>3, <3>1 DEF TypeOK
  <2>5. TypeOK'
    BY <1>1, <2>1, <2>2, <2>4 DEF TypeOK
  <2>6. OwnSocket' /\ Beginnings'
    BY <1>1, <2>1, <2>2 DEF OwnSocket, Beginnings, TypeOK
  <2>7. QED
    BY <2>5, <2>6
<1>18. ASSUME NEW k \in Created, RouteSend(k) PROVE TypeInv'
  <2>1. PICK j \in todo[k] :
          /\ down' = IF link[j] = "closed"
                        THEN down
                        ELSE [down EXCEPT ![j] = Append(@, event[k])]
          /\ todo' = [todo EXCEPT ![k] = @ \ {j}]
    BY <1>18 DEF RouteSend
  <2>2. /\ j \in Conns /\ k \in Conns
        /\ UNCHANGED <<clientVars, linkVars, up, listening, sess, event, registry,
                       fault, historyVars>>
    BY <1>1, <1>18 DEF RouteSend, TypeOK
  <2>3. Append(down[j], event[k]) \in Seq(Events \cup {Ack})
    BY <2>2, Longer DEF TypeOK
  <2>4. down' \in [Conns -> Seq(Events \cup {Ack})]
    BY <2>1, <2>2, <2>3 DEF TypeOK
  <2>5. /\ todo' \in [Conns -> SUBSET SubscriberConns]
        /\ \A i \in Conns : todo'[i] \subseteq todo[i]
    BY <2>1, <2>2 DEF TypeOK
  <2>6. TypeOK'
    BY <1>1, <2>2, <2>4, <2>5 DEF TypeOK
  <2>7. OwnSocket' /\ Beginnings'
    BY <1>1, <2>2 DEF OwnSocket, Beginnings
  <2>8. QED
    BY <2>6, <2>7
<1>19. ASSUME NEW k \in Created, RouteEnd(k) PROVE TypeInv'
  <2>1. TypeOK'
    BY <1>1, <1>19 DEF RouteEnd, SGoto, TypeOK
  <2>2. OwnSocket' /\ Beginnings'
    BY <1>1, <1>19 DEF RouteEnd, SGoto, TypeOK, OwnSocket, Beginnings
  <2>3. QED
    BY <2>1, <2>2
<1>20. ASSUME NEW k \in Created, OnUnsubscribe(k) PROVE TypeInv'
  <2>1. TypeOK'
    BY <1>1, <1>20 DEF OnUnsubscribe, SGoto, TypeOK
  <2>2. OwnSocket' /\ Beginnings'
    BY <1>1, <1>20 DEF OnUnsubscribe, SGoto, TypeOK, OwnSocket, Beginnings
  <2>3. QED
    BY <2>1, <2>2
<1>21. QED
  BY <1>2, <1>3, <1>4, <1>5, <1>6, <1>7, <1>8, <1>9, <1>10, <1>11, <1>12, <1>13, <1>14,
      <1>15, <1>16, <1>17, <1>18, <1>19, <1>20
     DEF Next, Handler, Session, StrandStep

-----------------------------------------------------------------------------
(* Steps that lose events, or do nothing to them                           *)

Lossy ==
    /\ UNCHANGED <<posted, sent, got>>
    /\ Created \subseteq Created' /\ \A k \in Created : owners'[k] = owners[k]
    /\ \A p \in Publishers : Within(strand'[p], strand[p])
    /\ \A k \in Conns :
           /\ Within(up'[k], up[k]) /\ Within(down'[k], down[k])
           /\ sess'[k] = "route" =>
                  sess[k] = "route" /\ event'[k] = event[k] /\ todo'[k] \subseteq todo[k]

\* An order is not disturbed by losses, in whatever stream.
LEMMA LossyKeeps ==
    ASSUME TypeInv, TypeInv', OrderInv, Lossy
    PROVE  OrderInv'
<1> USE DEF OrderInv, Lossy
<1>1. \A k \in Conns : /\ ToSet(sent[k]) \subseteq Events
                       /\ Routed(k)' \subseteq Routed(k)
  <2>1. \A k \in Conns : ToSet(sent[k]) \subseteq Events
    BY DEF TypeInv, TypeOK, ToSet
  <2>2. QED
    BY <2>1 DEF Routed, Within
<1>2. PostedOnce'
  BY DEF PostedOnce
<1>3. StrandOrder'
  <2> SUFFICES ASSUME NEW p \in Publishers
               PROVE  /\ EventsOf(strand'[p]) \subseteq ToSet(posted[p])
                      /\ InOrder(posted, strand'[p], Events)
                      /\ \A k \in Created' : owners'[k] = p =>
                             AllBefore(posted, ToSet(sent[k]), EventsOf(strand'[p]))
    BY DEF StrandOrder
  <2>1. EventsOf(strand'[p]) \subseteq EventsOf(strand[p])
    BY DEF Within
  <2>2. InOrder(posted, strand'[p], Events)
    BY WithinInOrder DEF StrandOrder
  <2>3. ASSUME NEW k \in Created', owners'[k] = p
        PROVE  AllBefore(posted, ToSet(sent[k]), EventsOf(strand'[p]))
    <3>1. CASE k \in Created
      BY <2>1, <2>3, <3>1 DEF StrandOrder, AllBefore
    <3>2. CASE k \notin Created
      <4>1. k \in Conns
        <5>1. owners' \in Seq(Clients) /\ Len(owners') <= MaxConns
          BY DEF TypeInv, TypeOK, OwnSocket
        <5>2. QED
          BY <5>1 DEF Created, Conns
      <4>2. ToSet(sent[k]) = {}
        BY <3>2, <4>1 DEF SentOnce
      <4>3. QED
        BY <4>2 DEF AllBefore
    <3>3. QED
      BY <3>1, <3>2
  <2>4. QED
    BY <2>1, <2>2, <2>3 DEF StrandOrder
<1>4. SentOnce'
  BY DEF SentOnce
<1>5. UpOrder'
  <2> SUFFICES ASSUME NEW k \in Conns
               PROVE  /\ EventsOf(up'[k]) \subseteq ToSet(sent[k])
                      /\ InOrder(posted, up'[k], Events)
                      /\ sess'[k] = "route" =>
                             /\ event'[k] \in ToSet(sent[k])
                             /\ AllBefore(posted, {event'[k]}, EventsOf(up'[k]))
    BY DEF UpOrder
  <2>1. EventsOf(up'[k]) \subseteq EventsOf(up[k])
    BY DEF Within
  <2>2. InOrder(posted, up'[k], Events)
    BY WithinInOrder DEF UpOrder
  <2>3. QED
    BY <2>1, <2>2 DEF UpOrder, AllBefore
<1>6. RoutedFirst'
  <2>1. \A j \in Conns : EventsOf(up'[j]) \subseteq EventsOf(up[j])
    BY DEF Within
  <2>2. QED
    BY <1>1, <2>1 DEF RoutedFirst, AllBefore
<1>7. DownOrder'
  <2>1. \A k, j \in Conns : InOrder(posted, down'[k], ToSet(sent[j]))
    BY <1>1, WithinInOrder DEF DownOrder
  <2>2. \A k, j \in Conns : ToSet(down'[k]) \cap ToSet(sent[j]) \subseteq ToSet(down[k])
    BY <1>1 DEF Within, EventsOf
  <2>3. QED
    BY <2>1, <2>2 DEF DownOrder, AllBefore
<1>8. QED
  BY <1>2, <1>3, <1>4, <1>5, <1>6, <1>7

\* What publish(), the strand of a publisher, a session and a receive loop do
\* with an event.
Moves ==
    \/ \E p \in Publishers, e \in Events : Publish(p, e)
    \/ \E p \in Publishers : StrandPublish(p) /\ sent' # sent
    \/ \E k \in Created :
           \/ Receive(k) /\ Head(down[k]) \in Events
           \/ OnEvent(k)
           \/ RouteSend(k)

\* Connecting, disconnecting, breaking, registering and the like are lossy.
LEMMA OthersLose ==
    ASSUME TypeInv, Next, ~Moves
    PROVE  Lossy
<1> USE DEF clientVars, linkVars, brokerVars, historyVars, LinkStep
<1>1. /\ Created \subseteq Conns
      /\ \A k \in Conns : /\ up[k] \in Seq(Events \cup {Regist})
                          /\ down[k] \in Seq(Events \cup {Ack})
      /\ \A c \in Clients : strand[c] \in Seq(Events \cup Tasks)
      /\ link \in [Conns -> Links] /\ sess \in [Conns -> Sessions]
      /\ Publishers \subseteq Clients
  <2>1. owners \in Seq(Clients) /\ Len(owners) <= MaxConns
    BY DEF TypeInv, TypeOK, OwnSocket
  <2>2. Created \subseteq Conns
    BY <2>1 DEF Created, Conns
  <2>3. QED
    BY <2>2 DEF TypeInv, TypeOK, Clients
<1>2. ASSUME UNCHANGED <<posted, sent, got, owners>>,
             UNCHANGED strand \/ \E c \in Clients : \E t : /\ strand' = [strand EXCEPT ![c] = t]
                                                           /\ Within(t, strand[c]),
             UNCHANGED up \/ \E k \in Conns : \E t : /\ up' = [up EXCEPT ![k] = t]
                                                     /\ Within(t, up[k]),
             UNCHANGED down \/ \E k \in Conns : \E t : /\ down' = [down EXCEPT ![k] = t]
                                                       /\ Within(t, down[k]),
             \A k \in Conns : sess'[k] = "route" => sess[k] = "route" /\ event'[k] = event[k],
             UNCHANGED todo
      PROVE  Lossy
  <2>1. \A p \in Publishers : Within(strand'[p], strand[p])
    BY <1>1, <1>2, WithinItself DEF TypeInv, TypeOK
  <2>2. \A k \in Conns : Within(up'[k], up[k])
    BY <1>2, WithinItself DEF TypeInv, TypeOK
  <2>3. \A k \in Conns : Within(down'[k], down[k])
    BY <1>2, WithinItself DEF TypeInv, TypeOK
  <2>4. QED
    BY <1>2, <2>1, <2>2, <2>3 DEF Lossy, Created
<1>3. \A k \in Conns : sess[k] = "route" => sess[k] = "route" /\ event[k] = event[k]
  OBVIOUS
<1>4. \A c \in Clients : strand[c] # <<>> => Within(Tail(strand[c]), strand[c])
  BY <1>1, WithoutHead
<1>5. \A k \in Conns : up[k] # <<>> => Within(Tail(up[k]), up[k])
  BY <1>1, WithoutHead
<1>6. \A k \in Conns : down[k] # <<>> => Within(Tail(down[k]), down[k])
  BY <1>1, WithoutHead
<1>7. \A k \in Conns : Within(Append(up[k], Regist), up[k])
  BY <1>1, NothingAdded
<1>8. \A k \in Conns : Within(Append(down[k], Ack), down[k])
  BY <1>1, NothingAdded
<1>9. \A k \in Conns : \A n \in 0 .. Len(up[k]) : Within(SubSeq(up[k], 1, n), up[k])
  BY <1>1, CutShort
<1>10. \A k \in Conns : \A n \in 0 .. Len(down[k]) : Within(SubSeq(down[k], 1, n), down[k])
  BY <1>1, CutShort
<1>11. ASSUME NEW c \in Clients, Connect(c) PROVE Lossy
  <2>1. UNCHANGED <<strand, up, down, sess, event, todo, posted, sent, got>>
    BY <1>11 DEF Connect
  <2>2. Created \subseteq Created' /\ \A k \in Created : owners'[k] = owners[k]
    <3>1. owners' \in {owners, Append(owners, c)} /\ owners \in Seq(Clients)
      BY <1>11 DEF Connect, TypeInv, TypeOK
    <3>2. QED
      BY <3>1 DEF Created
  <2>3. QED
    BY <2>1, <2>2, WithinItself DEF Lossy
<1>12. ASSUME NEW c \in Clients, Disconnect(c) PROVE Lossy
  <2>1. Within(Append(strand[c], "disconnect"), strand[c])
    BY <1>1, NothingAdded DEF Tasks
  <2>2. QED
    BY <1>2, <1>3, <1>12, <2>1 DEF Disconnect, Post
<1>13. ASSUME NEW p \in Publishers, StrandPublish(p), sent' = sent PROVE Lossy
  <2>1. UNCHANGED up
    <3>1. ASSUME socket[p] # NoConn, sent' = [sent EXCEPT ![socket[p]] = Append(@, Head(strand[p]))]
          PROVE  FALSE
      <4>1. /\ sent \in [Conns -> Seq(Events)] /\ socket[p] \in Conns
            /\ sent[socket[p]] \in Seq(Events)
        BY <1>1, <3>1 DEF TypeInv, TypeOK
      <4>2. sent[socket[p]] = Append(sent[socket[p]], Head(strand[p]))
        BY <1>13, <3>1, <4>1
      <4>3. Len(sent[socket[p]]) = Len(sent[socket[p]]) + 1 /\ Len(sent[socket[p]]) \in Nat
        BY <4>1, <4>2
      <4>4. QED
        BY <4>3
    <3>2. QED
      BY <1>13, <3>1 DEF StrandPublish, Write
  <2>2. strand[p] # <<>> /\ strand' = [strand EXCEPT ![p] = Tail(strand[p])]
    BY <1>13 DEF StrandPublish
  <2>3. QED
    BY <1>1, <1>2, <1>3, <1>4, <1>13, <2>1, <2>2 DEF StrandPublish
<1>14. ASSUME NEW c \in Clients, StrandDisconnect(c) PROVE Lossy
  <2> DEFINE k == socket[c]
  <2>1. strand[c] # <<>> /\ UNCHANGED <<posted, sent, got, owners, sess, event, todo>>
    BY <1>14 DEF StrandDisconnect
  <2>2. CASE k = NoConn
    <3>1. strand' = [strand EXCEPT ![c] = Tail(strand[c])] /\ UNCHANGED <<up, down>>
      BY <1>14, <2>2 DEF StrandDisconnect
    <3>2. QED
      BY <1>2, <1>3, <1>4, <2>1, <3>1
  <2>3. CASE k # NoConn
    <3>1. strand' = [strand EXCEPT ![c] = [strand[c] EXCEPT ![1] = "clear"]] /\ Close(k)
      BY <1>14, <2>3 DEF StrandDisconnect
    <3>2. k \in Conns
      BY <2>3 DEF TypeInv, TypeOK
    <3>3. PICK n \in 0 .. Len(down[k]) : down' = [down EXCEPT ![k] = SubSeq(down[k], 1, n)]
      BY <3>1 DEF Close
    <3>4. PICK m \in 0 .. Len(up[k]) : up' = [up EXCEPT ![k] = SubSeq(up[k], 1, m)]
      BY <3>1 DEF Close
    <3>5. Within([strand[c] EXCEPT ![1] = "clear"], strand[c])
      BY <1>1, <2>1, NothingReplaced DEF Tasks
    <3>6. QED
      BY <1>2, <1>3, <1>9, <1>10, <2>1, <3>1, <3>2, <3>3, <3>4, <3>5
  <2>4. QED
    BY <2>2, <2>3
<1>15. ASSUME NEW c \in Clients, StrandClear(c) PROVE Lossy
  BY <1>2, <1>3, <1>4, <1>15 DEF StrandClear
<1>16. ASSUME NEW k \in Created, Accept(k) PROVE Lossy
  BY <1>1, <1>2, <1>16 DEF Accept
<1>17. ASSUME NEW k \in Created, Refuse(k) \/ Connected(k) \/ StaleHandler(k) PROVE Lossy
  BY <1>2, <1>3, <1>17 DEF Refuse, Connected, StaleHandler
<1>18. ASSUME NEW k \in Created, Greet(k) PROVE Lossy
  BY <1>1, <1>2, <1>3, <1>7, <1>18 DEF Greet
<1>19. ASSUME NEW k \in Created, Break(k) PROVE Lossy
  <2>1. PICK n \in 0 .. Len(down[k]) : down' = [down EXCEPT ![k] = SubSeq(down[k], 1, n)]
    BY <1>19 DEF Break
  <2>2. PICK m \in 0 .. Len(up[k]) : up' = [up EXCEPT ![k] = SubSeq(up[k], 1, m)]
    BY <1>19 DEF Break
  <2>3. QED
    BY <1>1, <1>2, <1>3, <1>9, <1>10, <1>19, <2>1, <2>2 DEF Break
<1>20. ASSUME NEW k \in Created, Receive(k), Head(down[k]) \notin Events PROVE Lossy
  BY <1>1, <1>2, <1>3, <1>6, <1>20 DEF Receive
<1>21. ASSUME BrokerSwitch PROVE Lossy
  BY <1>2, <1>3, <1>21 DEF BrokerSwitch
<1>22. ASSUME NEW k \in Created, OnSubscribe(k) PROVE Lossy
  BY <1>1, <1>2, <1>5, <1>8, <1>22 DEF OnSubscribe, SGoto, Reads, Consume
<1>23. ASSUME NEW k \in Created, RouteEnd(k) PROVE Lossy
  BY <1>1, <1>2, <1>23 DEF RouteEnd, SGoto, TypeInv, TypeOK
<1>24. ASSUME NEW k \in Created, OnUnsubscribe(k) PROVE Lossy
  BY <1>1, <1>2, <1>24 DEF OnUnsubscribe, SGoto
<1>25. QED
  BY <1>11, <1>12, <1>13, <1>14, <1>15, <1>16, <1>17, <1>18, <1>19, <1>20, <1>21, <1>22,
      <1>23, <1>24
     DEF Next, Moves, Handler, Session, StrandStep

-----------------------------------------------------------------------------
(* Steps that move an event                                                *)

\* The types of the streams, and of what is in them.
LEMMA Streams ==
    ASSUME TypeInv
    PROVE  /\ Created \subseteq Conns /\ Publishers \subseteq Clients
           /\ \A k \in Conns :
                  /\ up[k] \in Seq(Events \cup {Regist}) /\ down[k] \in Seq(Events \cup {Ack})
                  /\ sent[k] \in Seq(Events) /\ got[k] \in Seq(Events)
                  /\ ToSet(sent[k]) \subseteq Events /\ ToSet(got[k]) \subseteq Events
                  /\ EventsOf(up[k]) \subseteq Events
           /\ \A p \in Publishers : /\ strand[p] \in Seq(Events \cup Tasks)
                                    /\ posted[p] \in Seq(Events)
<1>1. owners \in Seq(Clients) /\ Len(owners) <= MaxConns
  BY DEF TypeInv, TypeOK, OwnSocket
<1>2. Created \subseteq Conns
  BY <1>1 DEF Created, Conns
<1>3. \A k \in Conns : sent[k] \in Seq(Events) /\ got[k] \in Seq(Events)
  BY DEF TypeInv, TypeOK
<1>4. \A k \in Conns : ToSet(sent[k]) \subseteq Events /\ ToSet(got[k]) \subseteq Events
  BY <1>3 DEF ToSet
<1>5. QED
  BY <1>2, <1>3, <1>4 DEF TypeInv, TypeOK, Clients, EventsOf

\* An event is not before itself.
LEMMA NotBeforeItself ==
    ASSUME TypeInv, PostedOnce, NEW e PROVE ~Before(posted, e, e)
BY DEF PostedOnce, Before, TypeInv, TypeOK

\* publish() (AsyncEventTransport.cpp:66-83): a new event is after all others of
\* its publisher, and nowhere but on its strand.
LEMMA PublishKeeps ==
    ASSUME TypeInv, OrderInv, NEW p \in Publishers, NEW e \in Events, Publish(p, e)
    PROVE  OrderInv'
<1> USE DEF OrderInv
<1>1. /\ posted' = [posted EXCEPT ![p] = Append(@, e)]
      /\ strand' = [strand EXCEPT ![p] = Append(@, e)]
      /\ UNCHANGED <<owners, sent, up, sess, event, down, got, todo>>
      /\ e \notin Posted
  BY DEF Publish, Post, linkVars, brokerVars
<1>2. /\ posted[p] \in Seq(Events) /\ strand[p] \in Seq(Events \cup Tasks) /\ p \in Clients
      /\ posted \in [Publishers -> Seq(Events)] /\ strand \in [Clients -> Seq(Events \cup Tasks)]
  BY Streams DEF TypeInv, TypeOK
<1>3. /\ DOMAIN posted'[p] = 1 .. (Len(posted[p]) + 1) /\ DOMAIN posted[p] = 1 .. Len(posted[p])
      /\ Len(posted[p]) \in Nat /\ posted'[p][Len(posted[p]) + 1] = e
      /\ \A i \in DOMAIN posted[p] : posted'[p][i] = posted[p][i]
      /\ \A q \in Publishers \ {p} : posted'[q] = posted[q]
  BY <1>1, <1>2
<1>4. \A q \in Publishers : ToSet(posted[q]) \subseteq ToSet(posted'[q])
  BY <1>3 DEF ToSet
<1>5. \A f, g : Before(posted, f, g) => Before(posted', f, g)
  <2> SUFFICES ASSUME NEW f, NEW g, Before(posted, f, g) PROVE Before(posted', f, g)
    OBVIOUS
  <2>1. PICK q \in Publishers : \E m, n \in DOMAIN posted[q] :
            m < n /\ posted[q][m] = f /\ posted[q][n] = g
    BY DEF Before
  <2>2. \A i \in DOMAIN posted[q] : i \in DOMAIN posted'[q] /\ posted'[q][i] = posted[q][i]
    BY <1>3
  <2>3. QED
    BY <2>1, <2>2 DEF Before
<1>6. \A f \in ToSet(posted[p]) : Before(posted', f, e)
  <2> SUFFICES ASSUME NEW i \in DOMAIN posted[p] PROVE Before(posted', posted[p][i], e)
    BY DEF ToSet
  <2>1. /\ i \in DOMAIN posted'[p] /\ Len(posted[p]) + 1 \in DOMAIN posted'[p]
        /\ i < Len(posted[p]) + 1
    BY <1>3
  <2>2. QED
    BY <1>3, <2>1 DEF Before
<1>7. PostedOnce'
  <2> SUFFICES ASSUME NEW q \in Publishers, NEW r \in Publishers,
                      NEW m \in DOMAIN posted'[q], NEW n \in DOMAIN posted'[r],
                      posted'[q][m] = posted'[r][n]
               PROVE  q = r /\ m = n
    BY DEF PostedOnce
  <2>1. \A s \in Publishers : \A i : posted[s][i] = e => i \notin DOMAIN posted[s]
    BY <1>1 DEF Posted, ToSet
  <2>2. \A s \in Publishers : \A i \in DOMAIN posted'[s] :
            \/ i \in DOMAIN posted[s] /\ posted'[s][i] = posted[s][i]
            \/ s = p /\ i = Len(posted[p]) + 1 /\ posted'[s][i] = e
    BY <1>3
  <2>3. QED
    BY <2>1, <2>2 DEF PostedOnce
<1>8. StrandOrder'
  <2>1. \A q \in Publishers \ {p} : strand'[q] = strand[q]
    BY <1>1, <1>2, Streams
  <2>2. strand'[p] = Append(strand[p], e)
    BY <1>1, <1>2
  <2>3. EventsOf(strand'[p]) = EventsOf(strand[p]) \cup {e}
    <3>1. strand[p] \in Seq(Events \cup Tasks) /\ e \in Events \cup Tasks
      BY <1>2
    <3>2. QED
      BY <2>2, <3>1, Longer DEF EventsOf
  <2>4. EventsOf(strand'[p]) \subseteq ToSet(posted'[p])
    <3>1. e \in ToSet(posted'[p])
      BY <1>3 DEF ToSet
    <3>2. QED
      BY <1>4, <2>3, <3>1 DEF StrandOrder
  <2>5. InOrder(posted', strand'[p], Events)
    <3>1. InOrder(posted', strand[p], Events)
      BY <1>5 DEF StrandOrder, InOrder
    <3>2. AllBefore(posted', ToSet(strand[p]) \cap Events, {e})
      BY <1>6 DEF StrandOrder, EventsOf, AllBefore
    <3>3. strand[p] \in Seq(Events \cup Tasks) /\ e \in Events \cup Tasks
      BY <1>2
    <3>4. InOrder(posted', Append(strand[p], e), Events)
      BY <3>1, <3>2, <3>3, LongerInOrder
    <3>5. QED
      BY <2>2, <3>4
  <2>6. ASSUME NEW k \in Created, owners[k] = p
        PROVE  AllBefore(posted', ToSet(sent[k]), EventsOf(strand'[p]))
    <3>1. \A f \in ToSet(sent[k]) : f \in ToSet(posted[p])
      BY <2>6, Streams DEF SentOnce
    <3>2. QED
      BY <1>5, <1>6, <2>3, <2>6, <3>1 DEF StrandOrder, AllBefore
  <2>7. \A q \in Publishers \ {p} : /\ EventsOf(strand[q]) \subseteq ToSet(posted'[q])
                                    /\ InOrder(posted', strand[q], Events)
    BY <1>4, <1>5 DEF StrandOrder, InOrder
  <2>8. \A q \in Publishers \ {p}, k \in Created : owners[k] = q =>
            AllBefore(posted', ToSet(sent[k]), EventsOf(strand[q]))
    BY <1>5 DEF StrandOrder, AllBefore
  <2>9. UNCHANGED Created
    BY <1>1 DEF Created
  <2>10. QED
    BY <1>1, <2>1, <2>4, <2>5, <2>6, <2>7, <2>8, <2>9 DEF StrandOrder
<1>9. SentOnce'
  BY <1>1, <1>4 DEF SentOnce, Created
<1>10. UpOrder'
  BY <1>1, <1>5 DEF UpOrder, InOrder, AllBefore
<1>11. RoutedFirst'
  <2>1. \A k \in Conns : UNCHANGED Routed(k)
    BY <1>1 DEF Routed
  <2>2. QED
    BY <1>1, <1>5, <2>1 DEF RoutedFirst, AllBefore
<1>12. DownOrder'
  BY <1>1, <1>5 DEF DownOrder, InOrder, AllBefore
<1>13. QED
  BY <1>7, <1>8, <1>9, <1>10, <1>11, <1>12

\* A publish task writes its event (AsyncEventTransport.cpp:66-83): the first of
\* what waits, not written before.
LEMMA WriteKeeps ==
    ASSUME TypeInv, OrderInv, NEW p \in Publishers, StrandPublish(p), sent' # sent
    PROVE  OrderInv'
<1> DEFINE e == Head(strand[p])
           n == socket[p]
<1> USE DEF OrderInv
<1>1. /\ strand[p] # <<>> /\ e \in Events /\ n # NoConn
      /\ strand' = [strand EXCEPT ![p] = Tail(strand[p])]
      /\ up' = [up EXCEPT ![n] = Append(up[n], e)]
      /\ sent' = [sent EXCEPT ![n] = Append(sent[n], e)]
      /\ UNCHANGED <<owners, posted, sess, event, down, got, todo>>
  BY DEF StrandPublish, Write, linkVars, brokerVars
<1>2. /\ p \in Clients /\ n \in Conns /\ n \in Created /\ owners[n] = p
      /\ UNCHANGED Created
  BY <1>1, Streams DEF TypeInv, TypeOK, OwnSocket, Created
<1>3. /\ strand[p] \in Seq(Events \cup Tasks) /\ e \in EventsOf(strand[p])
      /\ EventsOf(Tail(strand[p])) \subseteq EventsOf(strand[p])
      /\ AllBefore(posted, {e}, EventsOf(Tail(strand[p])))
  <2>1. strand[p] \in Seq(Events \cup Tasks) /\ InOrder(posted, strand[p], Events)
    BY Streams DEF StrandOrder
  <2>2. AllBefore(posted, {Head(strand[p])}, ToSet(Tail(strand[p])) \cap Events)
    BY <1>1, <2>1, HeadFirst
  <2>3. QED
    BY <1>1, <2>1, <2>2, Shorter DEF EventsOf
<1>4. \A j \in Conns : e \notin ToSet(sent[j])
  <2> SUFFICES ASSUME NEW j \in Conns, e \in ToSet(sent[j]) PROVE FALSE
    OBVIOUS
  <2>1. j \in Created /\ owners[j] \in Publishers /\ e \in ToSet(posted[owners[j]])
    BY DEF SentOnce
  <2>2. e \in ToSet(posted[p])
    BY <1>3 DEF StrandOrder
  <2>3. owners[j] = p
    BY <2>1, <2>2 DEF PostedOnce, ToSet
  <2>4. Before(posted, e, e)
    BY <1>3, <2>1, <2>3 DEF StrandOrder, AllBefore
  <2>5. QED
    BY <2>4, NotBeforeItself
<1>5. \A j \in Conns : ToSet(sent'[j]) = IF j = n THEN ToSet(sent[j]) \cup {e} ELSE ToSet(sent[j])
  <2>1. ToSet(Append(sent[n], e)) = ToSet(sent[n]) \cup {e}
    BY <1>1, <1>2, Streams, Longer
  <2>2. QED
    BY <1>1, <1>2, <2>1 DEF TypeInv, TypeOK
<1>6. \A j \in Conns : EventsOf(up'[j]) =
                           IF j = n THEN EventsOf(up[j]) \cup {e} ELSE EventsOf(up[j])
  <2>1. up[n] \in Seq(Events \cup {Regist}) /\ e \in Events \cup {Regist}
    BY <1>1, <1>2, Streams
  <2>2. ToSet(Append(up[n], e)) = ToSet(up[n]) \cup {e}
    BY <2>1, Longer
  <2>3. QED
    BY <1>1, <1>2, <2>2 DEF TypeInv, TypeOK, EventsOf
<1>7. \A f \in ToSet(sent[n]) : Before(posted, f, e)
  BY <1>2, <1>3 DEF StrandOrder, AllBefore
<1>8. PostedOnce'
  BY <1>1 DEF PostedOnce
<1>9. StrandOrder'
  <2>1. /\ strand'[p] = Tail(strand[p])
        /\ \A q \in Publishers \ {p} : strand'[q] = strand[q]
    BY <1>1, <1>2, Streams DEF TypeInv, TypeOK
  <2>2. InOrder(posted, Tail(strand[p]), Events)
    <3>1. Within(Tail(strand[p]), strand[p])
      BY <1>1, <1>3, WithoutHead
    <3>2. QED
      BY <3>1, WithinInOrder DEF StrandOrder
  <2>3. EventsOf(Tail(strand[p])) \subseteq ToSet(posted[p])
    BY <1>3 DEF StrandOrder
  <2>4. \A k \in Created : owners[k] = p =>
            AllBefore(posted, ToSet(sent'[k]), EventsOf(Tail(strand[p])))
    <3>1. \A k \in Created : k \in Conns
      BY Streams
    <3>2. QED
      BY <1>3, <1>5, <3>1 DEF StrandOrder, AllBefore
  <2>5. \A q \in Publishers \ {p}, k \in Created : owners[k] = q =>
            AllBefore(posted, ToSet(sent'[k]), EventsOf(strand[q]))
    <3>1. \A k \in Created : k \in Conns
      BY Streams
    <3>2. QED
      BY <1>2, <1>5, <3>1 DEF StrandOrder, AllBefore
  <2>6. QED
    BY <1>1, <1>2, <2>1, <2>2, <2>3, <2>4, <2>5 DEF StrandOrder
<1>10. SentOnce'
  <2>1. e \in ToSet(posted[p])
    BY <1>3 DEF StrandOrder
  <2>2. ASSUME NEW k \in Conns, NEW f \in ToSet(sent'[k])
        PROVE  /\ k \in Created /\ owners[k] \in Publishers
               /\ f \in ToSet(posted[owners[k]])
               /\ \A j \in Conns : f \in ToSet(sent'[j]) => j = k
    <3>1. CASE f = e
      BY <1>2, <1>4, <1>5, <2>1, <3>1
    <3>2. CASE f # e
      <4>1. \A j \in Conns : f \in ToSet(sent'[j]) => f \in ToSet(sent[j])
        BY <1>5, <3>2
      <4>2. QED
        BY <2>2, <4>1 DEF SentOnce
    <3>3. QED
      BY <3>1, <3>2
  <2>3. QED
    BY <1>1, <1>2, <2>2 DEF SentOnce
<1>11. UpOrder'
  <2>1. \A k \in Conns : EventsOf(up'[k]) \subseteq ToSet(sent'[k])
    BY <1>5, <1>6 DEF UpOrder
  <2>2. InOrder(posted, up'[n], Events)
    <3>1. up[n] \in Seq(Events \cup {Regist}) /\ e \in Events \cup {Regist}
      BY <1>1, <1>2, Streams
    <3>2. AllBefore(posted, ToSet(up[n]) \cap Events, {e})
      BY <1>2, <1>7 DEF UpOrder, EventsOf, AllBefore
    <3>3. InOrder(posted, Append(up[n], e), Events)
      BY <1>2, <3>1, <3>2, LongerInOrder DEF UpOrder
    <3>4. QED
      BY <1>1, <1>2, <3>3 DEF TypeInv, TypeOK
  <2>3. \A k \in Conns : InOrder(posted, up'[k], Events)
    BY <1>1, <1>2, <2>2 DEF UpOrder, TypeInv, TypeOK
  <2>4. ASSUME NEW k \in Conns, sess[k] = "route"
        PROVE  event[k] \in ToSet(sent'[k]) /\ AllBefore(posted, {event[k]}, EventsOf(up'[k]))
    BY <1>5, <1>6, <1>7, <2>4 DEF UpOrder, AllBefore
  <2>5. QED
    BY <1>1, <2>1, <2>3, <2>4 DEF UpOrder
<1>12. \A k, j \in Conns : \A f \in Routed(k) : f \in ToSet(sent'[j]) => f \in ToSet(sent[j])
  BY <1>4, <1>5 DEF RoutedFirst
<1>13. RoutedFirst'
  <2>1. \A k \in Conns : UNCHANGED Routed(k)
    BY <1>1 DEF Routed
  <2>2. \A k \in Conns : \A f \in Routed(k) : \E j \in Conns : f \in ToSet(sent'[j])
    BY <1>5 DEF RoutedFirst
  <2>3. ASSUME NEW k \in Conns, NEW j \in Conns, NEW f \in Routed(k) \cap ToSet(sent'[j])
        PROVE  AllBefore(posted, {f}, EventsOf(up'[j]))
    BY <1>6, <1>7, <1>12 DEF RoutedFirst, AllBefore
  <2>4. ASSUME NEW k \in Conns, NEW j \in Conns, NEW f \in Routed(k) \cap ToSet(sent'[j]),
               sess[j] = "route"
        PROVE  Before(posted, f, event[j]) \/ (f = event[j] /\ k \notin todo[j])
    BY <1>12, <2>4 DEF RoutedFirst
  <2>5. QED
    BY <1>1, <2>1, <2>2, <2>3, <2>4 DEF RoutedFirst
<1>14. DownOrder'
  <2>1. \A k, j \in Conns : /\ ToSet(got[k]) \cap ToSet(sent'[j]) \subseteq ToSet(sent[j])
                            /\ ToSet(down[k]) \cap ToSet(sent'[j]) \subseteq ToSet(sent[j])
    <3>1. \A j \in Conns : ToSet(sent'[j]) \subseteq Events
      <4>1. \A j \in Conns : ToSet(sent'[j]) \subseteq ToSet(sent[j]) \cup {e}
        BY <1>5
      <4>2. \A j \in Conns : ToSet(sent[j]) \subseteq Events
        BY Streams
      <4>3. e \in Events
        BY <1>1
      <4>4. QED
        BY <4>1, <4>2, <4>3
    <3>2. QED
      BY <1>12, <3>1 DEF Routed, EventsOf
  <2>2. \A k, j \in Conns : /\ InOrder(posted, got[k], ToSet(sent'[j]))
                            /\ InOrder(posted, down[k], ToSet(sent'[j]))
    BY <2>1, PartInOrder DEF DownOrder
  <2>3. \A k, j \in Conns : AllBefore(posted, ToSet(got[k]) \cap ToSet(sent'[j]),
                                              ToSet(down[k]) \cap ToSet(sent'[j]))
    BY <2>1 DEF DownOrder, AllBefore
  <2>4. QED
    BY <1>1, <2>2, <2>3 DEF DownOrder
<1>15. QED
  BY <1>8, <1>9, <1>10, <1>11, <1>13, <1>14

\* A session reads an event and routes it (AsyncEventBroker.cpp:51-112): it is
\* before the rest of the stream and after what was routed.
LEMMA EventKeeps ==
    ASSUME TypeInv, OrderInv, NEW n \in Created, OnEvent(n)
    PROVE  OrderInv'
<1> DEFINE e == Head(up[n])
<1> USE DEF OrderInv
<1>1. /\ up[n] # <<>> /\ e \in Events
      /\ up' = [up EXCEPT ![n] = Tail(up[n])]
      /\ sess' = [sess EXCEPT ![n] = "route"]
      /\ event' = [event EXCEPT ![n] = e]
      /\ UNCHANGED <<owners, posted, strand, sent, down, got>>
      /\ \A k \in Conns \ {n} : todo'[k] = todo[k]
  BY DEF OnEvent, Reads, Consume, SGoto, clientVars, linkVars, historyVars, TypeInv,
      TypeOK
<1>2. n \in Conns /\ up[n] \in Seq(Events \cup {Regist})
  BY Streams
<1>3. /\ e \in EventsOf(up[n]) /\ EventsOf(Tail(up[n])) \subseteq EventsOf(up[n])
      /\ AllBefore(posted, {e}, EventsOf(Tail(up[n])))
      /\ Within(Tail(up[n]), up[n])
  <2>1. InOrder(posted, up[n], Events)
    BY <1>2 DEF UpOrder
  <2>2. AllBefore(posted, {Head(up[n])}, ToSet(Tail(up[n])) \cap Events)
    BY <1>1, <1>2, <2>1, HeadFirst
  <2>3. QED
    BY <1>1, <1>2, <2>2, Shorter, WithoutHead DEF EventsOf
<1>4. /\ up'[n] = Tail(up[n]) /\ sess'[n] = "route" /\ event'[n] = e
      /\ \A k \in Conns \ {n} : up'[k] = up[k] /\ sess'[k] = sess[k] /\ event'[k] = event[k]
  BY <1>1, <1>2 DEF TypeInv, TypeOK
<1>5. PostedOnce' /\ StrandOrder' /\ SentOnce' /\ DownOrder'
  <2>1. PostedOnce'
    BY <1>1 DEF PostedOnce
  <2>2. StrandOrder' /\ SentOnce'
    BY <1>1 DEF StrandOrder, SentOnce, Created
  <2>3. DownOrder'
    BY <1>1 DEF DownOrder
  <2>4. QED
    BY <2>1, <2>2, <2>3
<1>6. UpOrder'
  <2>1. InOrder(posted, up'[n], Events)
    BY <1>2, <1>3, <1>4, WithinInOrder DEF UpOrder
  <2>2. \A k \in Conns : /\ EventsOf(up'[k]) \subseteq ToSet(sent[k])
                         /\ InOrder(posted, up'[k], Events)
    BY <1>2, <1>3, <1>4, <2>1 DEF UpOrder
  <2>3. \A k \in Conns : sess'[k] = "route" =>
            /\ event'[k] \in ToSet(sent[k])
            /\ AllBefore(posted, {event'[k]}, EventsOf(up'[k]))
    BY <1>2, <1>3, <1>4 DEF UpOrder
  <2>4. QED
    BY <1>1, <2>2, <2>3 DEF UpOrder
<1>7. RoutedFirst'
  <2>1. \A k \in Conns : UNCHANGED Routed(k)
    BY <1>1 DEF Routed
  <2>2. \A k, j \in Conns : \A f \in Routed(k) \cap ToSet(sent[j]) :
            /\ AllBefore(posted, {f}, EventsOf(up'[j]))
            /\ sess'[j] = "route" => \/ Before(posted, f, event'[j])
                                     \/ f = event'[j] /\ k \notin todo'[j]
    <3> SUFFICES ASSUME NEW k \in Conns, NEW j \in Conns,
                        NEW f \in Routed(k) \cap ToSet(sent[j])
                 PROVE  /\ AllBefore(posted, {f}, EventsOf(up'[j]))
                        /\ sess'[j] = "route" => \/ Before(posted, f, event'[j])
                                                 \/ f = event'[j] /\ k \notin todo'[j]
      OBVIOUS
    <3>1. CASE j = n
      BY <1>3, <1>4, <3>1 DEF RoutedFirst, AllBefore
    <3>2. CASE j # n
      <4>1. /\ up'[j] = up[j] /\ sess'[j] = sess[j]
            /\ event'[j] = event[j] /\ todo'[j] = todo[j]
        BY <1>1, <1>4, <3>2
      <4>2. QED
        BY <4>1 DEF RoutedFirst
    <3>3. QED
      BY <3>1, <3>2
  <2>3. QED
    BY <1>1, <2>1, <2>2 DEF RoutedFirst
<1>8. QED
  BY <1>5, <1>6, <1>7

\* route() sends the event to a subscriber it was not sent to yet
\* (AsyncEventBroker.cpp:51-70): it is after what the subscriber was sent.
LEMMA SendKeeps ==
    ASSUME TypeInv, OrderInv, NEW n \in Created, RouteSend(n)
    PROVE  OrderInv'
<1> DEFINE e == event[n]
<1> USE DEF OrderInv
<1>1. /\ sess[n] = "route" /\ n \in Conns
      /\ UNCHANGED <<owners, posted, strand, sent, got, up, sess, event>>
  BY Streams DEF RouteSend, clientVars, linkVars, historyVars
<1>2. PICK i \in todo[n] : /\ down' = IF link[i] = "closed"
                                       THEN down
                                       ELSE [down EXCEPT ![i] = Append(down[i], e)]
                           /\ todo' = [todo EXCEPT ![n] = todo[n] \ {i}]
  BY DEF RouteSend
<1>3. /\ i \in Conns
      /\ \A k \in Conns : todo'[k] \subseteq todo[k]
      /\ i \notin todo'[n]
  <2>1. i \in SubscriberConns
    BY <1>1, <1>2 DEF TypeInv, TypeOK
  <2>2. QED
    BY <1>1, <1>2, <2>1, Streams DEF TypeInv, TypeOK, SubscriberConns
<1>4. e \in ToSet(sent[n]) /\ e \in Events /\ AllBefore(posted, {e}, EventsOf(up[n]))
  BY <1>1, Streams DEF UpOrder
<1>5. PostedOnce' /\ StrandOrder' /\ SentOnce' /\ UpOrder'
  <2>1. PostedOnce' /\ StrandOrder' /\ SentOnce'
    BY <1>1 DEF PostedOnce, StrandOrder, SentOnce, Created
  <2>2. UpOrder'
    BY <1>1 DEF UpOrder
  <2>3. QED
    BY <2>1, <2>2
<1>6. CASE link[i] = "closed"
  <2>1. \A k \in Conns : UNCHANGED Routed(k)
    BY <1>1, <1>2, <1>6 DEF Routed
  <2>2. RoutedFirst'
    BY <1>1, <1>3, <2>1 DEF RoutedFirst
  <2>3. DownOrder'
    BY <1>1, <1>2, <1>6 DEF DownOrder
  <2>4. QED
    BY <1>5, <2>2, <2>3
<1>7. CASE link[i] # "closed"
  <2>1. /\ down'[i] = Append(down[i], e)
        /\ \A k \in Conns \ {i} : down'[k] = down[k]
        /\ down[i] \in Seq(Events \cup {Ack}) /\ e \in Events \cup {Ack}
    BY <1>2, <1>3, <1>4, <1>7, Streams DEF TypeInv, TypeOK
  <2>2. ToSet(down'[i]) = ToSet(down[i]) \cup {e}
    BY <2>1, Longer
  <2>3. \A k \in Conns : Routed(k)' = IF k = i THEN Routed(k) \cup {e} ELSE Routed(k)
    BY <1>1, <1>4, <2>1, <2>2 DEF Routed, EventsOf
  <2>4. \A j \in Conns : e \in ToSet(sent[j]) => j = n
    BY <1>1, <1>4 DEF SentOnce
  <2>5. RoutedFirst'
    <3>1. \A k \in Conns : \A f \in Routed(k)' : \E j \in Conns : f \in ToSet(sent[j])
      BY <1>1, <1>4, <2>3 DEF RoutedFirst
    <3>2. ASSUME NEW k \in Conns, NEW j \in Conns, NEW f \in Routed(k)' \cap ToSet(sent[j])
          PROVE  /\ AllBefore(posted, {f}, EventsOf(up[j]))
                 /\ sess[j] = "route" => \/ Before(posted, f, event[j])
                                         \/ f = event[j] /\ k \notin todo'[j]
      <4>1. CASE f \in Routed(k)
        BY <1>3, <4>1 DEF RoutedFirst
      <4>2. CASE f \notin Routed(k)
        BY <1>3, <1>4, <2>3, <2>4, <3>2, <4>2
      <4>3. QED
        BY <4>1, <4>2
    <3>3. QED
      BY <1>1, <3>1, <3>2 DEF RoutedFirst
  <2>6. \A f \in Routed(i) \cap ToSet(sent[n]) : Before(posted, f, e)
    BY <1>1, <1>2, <1>3 DEF RoutedFirst
  <2>7. \A j \in Conns : \A f \in (ToSet(down[i]) \cup ToSet(got[i])) \cap ToSet(sent[j]) :
            e \in ToSet(sent[j]) => Before(posted, f, e)
    <3>1. ToSet(sent[n]) \subseteq Events
      BY <1>1, Streams
    <3>2. QED
      BY <2>4, <2>6, <3>1 DEF Routed, EventsOf
  <2>8. DownOrder'
    <3>1. \A j \in Conns : InOrder(posted, down'[i], ToSet(sent[j]))
      <4> SUFFICES ASSUME NEW j \in Conns
                   PROVE  InOrder(posted, Append(down[i], e), ToSet(sent[j]))
        BY <2>1
      <4>1. InOrder(posted, down[i], ToSet(sent[j]))
        BY <1>3 DEF DownOrder
      <4>2. e \in ToSet(sent[j]) => AllBefore(posted, ToSet(down[i]) \cap ToSet(sent[j]), {e})
        BY <2>7 DEF AllBefore
      <4>3. QED
        BY <2>1, <4>1, <4>2, LongerInOrder
    <3>2. \A k, j \in Conns : InOrder(posted, down'[k], ToSet(sent[j]))
      BY <2>1, <3>1 DEF DownOrder
    <3>3. \A k, j \in Conns : AllBefore(posted, ToSet(got[k]) \cap ToSet(sent[j]),
                                                ToSet(down'[k]) \cap ToSet(sent[j]))
      <4> SUFFICES ASSUME NEW k \in Conns, NEW j \in Conns,
                          NEW f \in ToSet(got[k]) \cap ToSet(sent[j]),
                          NEW g \in ToSet(down'[k]) \cap ToSet(sent[j])
                   PROVE  Before(posted, f, g)
        BY DEF AllBefore
      <4>1. CASE g \in ToSet(down[k])
        BY <4>1 DEF DownOrder, AllBefore
      <4>2. CASE g \notin ToSet(down[k])
        <5>1. k = i /\ g = e
          BY <2>1, <2>2, <4>2
        <5>2. QED
          BY <2>7, <5>1
      <4>3. QED
        BY <4>1, <4>2
    <3>4. QED
      BY <1>1, <3>2, <3>3 DEF DownOrder
  <2>9. QED
    BY <1>5, <2>5, <2>8
<1>8. QED
  BY <1>6, <1>7

\* A subscriber's handler is called with the first of the events on their way
\* to it (AsyncEventTransport.cpp:85-111).
LEMMA ReceiveKeeps ==
    ASSUME TypeInv, OrderInv, NEW n \in Created, Receive(n), Head(down[n]) \in Events
    PROVE  OrderInv'
<1> DEFINE e == Head(down[n])
<1> USE DEF OrderInv
<1>1. /\ down[n] # <<>> /\ n \in Conns
      /\ down' = [down EXCEPT ![n] = Tail(down[n])]
      /\ got' = [got EXCEPT ![n] = Append(got[n], e)]
      /\ UNCHANGED <<owners, posted, strand, sent, up, sess, event, todo>>
  BY Streams DEF Receive, clientVars, linkVars, brokerVars
<1>2. /\ down[n] \in Seq(Events \cup {Ack}) /\ got[n] \in Seq(Events)
      /\ e \in ToSet(down[n]) /\ ToSet(Tail(down[n])) \subseteq ToSet(down[n])
      /\ Within(Tail(down[n]), down[n])
  <2>1. down[n] \in Seq(Events \cup {Ack}) /\ got[n] \in Seq(Events)
    BY <1>1, Streams
  <2>2. QED
    BY <1>1, <2>1, Shorter, WithoutHead
<1>3. /\ down'[n] = Tail(down[n]) /\ got'[n] = Append(got[n], e)
      /\ \A k \in Conns \ {n} : down'[k] = down[k] /\ got'[k] = got[k]
      /\ ToSet(got'[n]) = ToSet(got[n]) \cup {e}
  BY <1>1, <1>2, Longer DEF TypeInv, TypeOK
<1>4. \A k \in Conns : Routed(k)' \subseteq Routed(k)
  BY <1>2, <1>3 DEF Routed, EventsOf
<1>5. PostedOnce' /\ StrandOrder' /\ SentOnce'
  <2>1. PostedOnce'
    BY <1>1 DEF PostedOnce
  <2>2. StrandOrder' /\ SentOnce'
    BY <1>1 DEF StrandOrder, SentOnce, Created
  <2>3. QED
    BY <2>1, <2>2
<1>6. UpOrder'
  BY <1>1 DEF UpOrder
<1>7. RoutedFirst'
  BY <1>1, <1>4 DEF RoutedFirst
<1>8. DownOrder'
  <2>1. ASSUME NEW j \in Conns
        PROVE  /\ InOrder(posted, Append(got[n], e), ToSet(sent[j]))
               /\ InOrder(posted, Tail(down[n]), ToSet(sent[j]))
               /\ AllBefore(posted, (ToSet(got[n]) \cup {e}) \cap ToSet(sent[j]),
                                    ToSet(Tail(down[n])) \cap ToSet(sent[j]))
    <3>1. /\ InOrder(posted, got[n], ToSet(sent[j]))
          /\ InOrder(posted, down[n], ToSet(sent[j]))
          /\ AllBefore(posted, ToSet(got[n]) \cap ToSet(sent[j]),
                               ToSet(down[n]) \cap ToSet(sent[j]))
          /\ ToSet(sent[j]) \subseteq Events
      BY <1>1, Streams DEF DownOrder
    <3>2. e \in ToSet(sent[j]) => AllBefore(posted, ToSet(got[n]) \cap ToSet(sent[j]), {e})
      BY <1>2, <3>1 DEF AllBefore
    <3>3. InOrder(posted, Append(got[n], e), ToSet(sent[j]))
      BY <1>2, <3>1, <3>2, LongerInOrder
    <3>4. InOrder(posted, Tail(down[n]), ToSet(sent[j]))
      BY <1>2, <3>1, WithinInOrder
    <3>5. e \in ToSet(sent[j]) =>
              AllBefore(posted, {e}, ToSet(Tail(down[n])) \cap ToSet(sent[j]))
      BY <1>1, <1>2, <3>1, HeadFirst
    <3>6. QED
      BY <1>2, <3>1, <3>3, <3>4, <3>5 DEF AllBefore
  <2>2. \A k, j \in Conns : /\ InOrder(posted, got'[k], ToSet(sent[j]))
                            /\ InOrder(posted, down'[k], ToSet(sent[j]))
    BY <1>3, <2>1 DEF DownOrder
  <2>3. \A k, j \in Conns : AllBefore(posted, ToSet(got'[k]) \cap ToSet(sent[j]),
                                              ToSet(down'[k]) \cap ToSet(sent[j]))
    BY <1>3, <2>1 DEF DownOrder
  <2>4. QED
    BY <1>1, <2>2, <2>3 DEF DownOrder
<1>9. QED
  BY <1>5, <1>6, <1>7, <1>8

-----------------------------------------------------------------------------
(* The invariant holds                                                     *)

IInv == TypeInv /\ OrderInv

\* Initially nothing is posted, written or connected.
LEMMA InitIInv == Init => IInv
<1> SUFFICES ASSUME Init PROVE IInv
  OBVIOUS
<1>1. TypeInv
  <2>1. TypeOK
    BY DEF Init, TypeOK, Links, Sessions, Clients
  <2>2. OwnSocket /\ Beginnings
    BY DEF Init, OwnSocket, Beginnings, ToSet
  <2>3. QED
    BY <2>1, <2>2 DEF TypeInv
<1>2. OrderInv
  BY DEF Init, OrderInv, PostedOnce, StrandOrder, SentOnce, UpOrder, RoutedFirst,
         DownOrder, Routed, EventsOf, InOrder, AllBefore, ToSet, Clients, Created
<1>3. QED
  BY <1>1, <1>2 DEF IInv

\* The invariant holds in every state (AsyncEventTransport.cpp,
\* AsyncEventBroker.cpp).
THEOREM Invariance == Spec => []IInv
<1>1. IInv /\ [Next]_vars => IInv'
  <2> SUFFICES ASSUME IInv, [Next]_vars PROVE IInv'
    OBVIOUS
  <2> USE DEF IInv
  <2>1. CASE Next
    <3>1. TypeInv'
      BY <2>1, TypeStep
    <3>2. CASE Moves
      BY <3>1, <3>2, PublishKeeps, WriteKeeps, EventKeeps, SendKeeps, ReceiveKeeps
         DEF Moves
    <3>3. CASE ~Moves
      BY <2>1, <3>1, <3>3, OthersLose, LossyKeeps
    <3>4. QED
      BY <3>2, <3>3
  <2>2. CASE UNCHANGED vars
    <3> USE <2>2 DEF vars, clientVars, linkVars, brokerVars, historyVars
    <3>1. TypeInv'
      BY DEF TypeInv, TypeOK, OwnSocket, Beginnings, Created, SubscriberConns
    <3>2. Lossy
      BY WithinItself DEF Lossy, Created
    <3>3. QED
      BY <3>1, <3>2, LossyKeeps
  <2>3. QED
    BY <2>1, <2>2
<1>2. QED
  BY <1>1, InitIInv, PTL DEF Spec

\* Every variable keeps its type.
THEOREM TypeCorrect == Spec => []TypeOK
<1>1. IInv => TypeOK
  BY DEF IInv, TypeInv
<1>2. QED
  BY <1>1, Invariance, PTL

\* A subscriber is handed what was written to one connection of a publisher in
\* the order in which it was published (AsyncEventTransport.cpp:66-83,
\* AsyncEventBroker.cpp:51-112).
THEOREM DeliveredInOrder == Spec => []FifoPerConnection
<1>1. IInv => FifoPerConnection
  <2> SUFFICES ASSUME IInv, NEW k \in Created, NEW j \in Created,
                      NEW m \in DOMAIN got[k], NEW n \in DOMAIN got[k],
                      m < n, {got[k][m], got[k][n]} \subseteq ToSet(sent[j])
               PROVE  Rank(owners[j], got[k][m]) < Rank(owners[j], got[k][n])
    BY DEF FifoPerConnection
  <2>1. k \in Conns /\ j \in Conns
    BY Streams DEF IInv
  <2>2. Before(posted, got[k][m], got[k][n])
    BY <2>1 DEF IInv, OrderInv, DownOrder, InOrder
  <2>3. PICK p \in Publishers : \E a, b \in DOMAIN posted[p] :
            a < b /\ posted[p][a] = got[k][m] /\ posted[p][b] = got[k][n]
    BY <2>2 DEF Before
  <2>4. PICK a \in DOMAIN posted[p], b \in DOMAIN posted[p] :
            a < b /\ posted[p][a] = got[k][m] /\ posted[p][b] = got[k][n]
    BY <2>3
  <2>5. owners[j] \in Publishers /\ got[k][m] \in ToSet(posted[owners[j]])
    BY <2>1 DEF IInv, OrderInv, SentOnce
  <2>6. owners[j] = p
    BY <2>4, <2>5 DEF IInv, OrderInv, PostedOnce, ToSet
  <2>7. Rank(p, got[k][m]) = a /\ Rank(p, got[k][n]) = b
    BY <2>4 DEF IInv, OrderInv, PostedOnce, Rank
  <2>8. QED
    BY <2>4, <2>6, <2>7
<1>2. QED
  BY <1>1, Invariance, PTL

\* The registry holds no session that has ended (AsyncEventBroker.cpp:72-112).
THEOREM RegisteredLive == Spec => []RegistryHoldsLive
<1>1. Init => RegistryHoldsLive
  BY DEF Init, RegistryHoldsLive
<1>2. IInv /\ RegistryHoldsLive /\ [Next]_vars => RegistryHoldsLive'
  <2> SUFFICES ASSUME IInv, RegistryHoldsLive, [Next]_vars PROVE RegistryHoldsLive'
    OBVIOUS
  <2>1. sess \in [Conns -> Sessions] /\ Created \subseteq Conns /\ registry \subseteq Conns
    BY Streams DEF IInv, TypeInv, TypeOK, SubscriberConns
  <2>2. CASE UNCHANGED <<registry, sess>>
    BY <2>2 DEF RegistryHoldsLive
  <2>3. ASSUME NEW k \in Created, OnSubscribe(k) PROVE RegistryHoldsLive'
    <3>1. \/ sess' = [sess EXCEPT ![k] = "ack"] /\ registry' = registry \cup {k}
          \/ sess' = [sess EXCEPT ![k] = "read"] /\ registry' = registry
      BY <2>3 DEF OnSubscribe, SGoto
    <3>2. \A i \in registry' : i \in registry \/ (i = k /\ sess'[i] = "ack")
      BY <2>1, <3>1
    <3>3. \A i \in Conns : sess'[i] = sess[i] \/ sess'[i] \in {"ack", "read"}
      BY <2>1, <3>1
    <3>4. QED
      BY <2>1, <3>2, <3>3 DEF RegistryHoldsLive
  <2>4. ASSUME NEW k \in Created, Accept(k) \/ OnEvent(k) \/ RouteEnd(k)
        PROVE  RegistryHoldsLive'
    <3>1. /\ \E s \in {"read", "route"} : sess' = [sess EXCEPT ![k] = s]
          /\ registry' = registry
      BY <2>4 DEF Accept, OnEvent, RouteEnd, SGoto
    <3>2. QED
      BY <2>1, <3>1 DEF RegistryHoldsLive
  <2>5. ASSUME NEW k \in Created, OnUnsubscribe(k) PROVE RegistryHoldsLive'
    BY <2>1, <2>5 DEF RegistryHoldsLive, OnUnsubscribe, SGoto
  <2>6. \/ UNCHANGED <<registry, sess>>
        \/ \E k \in Created : \/ OnSubscribe(k) \/ OnUnsubscribe(k)
                              \/ Accept(k) \/ OnEvent(k) \/ RouteEnd(k)
    BY DEF Next, Connect, Disconnect, StrandStep, StrandPublish, StrandDisconnect,
           StrandClear, Publish, Handler, Refuse, Connected, Greet, StaleHandler, Break,
           Receive, Session, RouteSend, BrokerSwitch, vars, brokerVars
  <2>7. QED
    BY <2>2, <2>3, <2>4, <2>5, <2>6
<1>3. QED
  BY <1>1, <1>2, Invariance, PTL DEF Spec
=============================================================================
