--------------------------- MODULE MessagesProofs ---------------------------
(***************************************************************************)
(* Safety of MCMessages for all messages, datagrams, queues and frames:    *)
(* what is received is what was sent.                                      *)
(*                                                                         *)
(* The stream of AsyncTcp has no bounds but the headers.  The invariant    *)
(* says where each frame begins, and that the receive loop is where it     *)
(* takes itself to be; it needs that the sender waits for onSend and that  *)
(* a size fits the header, which the code does not see to.                 *)
(***************************************************************************)
EXTENDS MCMessages, SequenceTheorems, TLAPS

-----------------------------------------------------------------------------
(* The framing of AsyncTcp                                                 *)

TcpTypes ==
    /\ sent \in Seq(Messages)
    /\ written \in [Messages -> Nat] /\ \A m \in Messages : written[m] <= Size[m] + 1
    /\ stream \in Seq(Messages \X Nat)
    /\ phase \in {"header", "payload", "stopped"} /\ need \in Nat
    /\ delivered \in Seq(Seq(Messages \X Nat))

\* One write is in progress at a time, of the last message.
OneWrite ==
    /\ \A i, j \in DOMAIN sent : sent[i] = sent[j] => i = j
    /\ \A m \in Messages : written[m] > 0 => m \in Tcp!ToSet(sent)
    /\ \A i \in DOMAIN sent : i < Len(sent) => written[sent[i]] = Size[sent[i]] + 1

\* at[i] is where the frame of the i-th message ends in all that is written.
Frames(at) ==
    /\ at \in [0 .. Len(sent) -> Nat] /\ at[0] = 0
    /\ \A i \in 1 .. Len(sent) : at[i] = at[i - 1] + Size[sent[i]] + 1
    /\ \A i, j \in 0 .. Len(sent) : i <= j => at[i] <= at[j]

\* The loop has read whole frames, and a header if it reads a payload; the units
\* on their way are those that follow.
Position(at) == at[Len(delivered)] + (IF phase = "payload" THEN 1 ELSE 0)
WhatFollows(at, from, units) ==
    /\ from + Len(units) =
          IF sent = <<>> THEN 0 ELSE at[Len(sent) - 1] + written[sent[Len(sent)]]
    /\ \A k \in DOMAIN units, i \in 1 .. Len(sent) : \A u \in 0 .. Size[sent[i]] :
          from + k = at[i - 1] + u + 1 => units[k] = <<sent[i], u>>

InStep ==
    /\ phase = "payload" => /\ Len(delivered) < Len(sent)
                            /\ need = Size[sent[Len(delivered) + 1]]
    /\ phase = "stopped" => ~open
    /\ phase # "stopped" => \E at : Frames(at) /\ WhatFollows(at, Position(at), stream)

\* What was delivered is the first of what was sent.
Whole ==
    /\ Len(delivered) <= Len(sent)
    /\ \A i \in DOMAIN delivered : delivered[i] = Tcp!Payload(sent[i])

TcpInv == TcpTypes /\ OneWrite /\ InStep /\ Whole

\* Sizes fit the uint32_t of the header (AsyncTcp.cpp:38-68).
SizesFit == \A m \in Messages : Size[m] < HeaderModulus

\* At first nothing is written.
LEMMA TcpInit == Tcp!Init => TcpInv
<1> SUFFICES ASSUME Tcp!Init PROVE TcpInv
  OBVIOUS
<1>1. TcpTypes
  <2>1. \A m \in Messages : 0 <= Size[m] + 1
    BY FramingAssumption
  <2>2. sent = <<>> /\ written = [m \in Messages |-> 0] /\ stream = <<>> /\ delivered = <<>>
        /\ phase = "header" /\ need = 0
    BY DEF Tcp!Init
  <2>3. QED
    BY <2>1, <2>2 DEF TcpTypes
<1>2. OneWrite /\ Whole
  BY DEF Tcp!Init, OneWrite, Whole
<1>3. InStep
  <2> DEFINE at == [i \in 0 .. 0 |-> 0]
  <2>1. Len(sent) = 0 /\ Len(delivered) = 0 /\ stream = <<>> /\ sent = <<>>
        /\ phase = "header"
    BY DEF Tcp!Init
  <2>2. Frames(at)
    BY <2>1 DEF Frames
  <2>3. WhatFollows(at, Position(at), stream)
    BY <2>1 DEF WhatFollows, Position
  <2>4. QED
    BY <2>1, <2>2, <2>3 DEF InStep
<1>4. QED
  BY <1>1, <1>2, <1>3 DEF TcpInv

\* send(): a message that was not sent comes last, when all others are written.
LEMMA TcpSend ==
    ASSUME TcpInv, OneAtATime, NEW m \in Messages, Tcp!Send(m)
    PROVE  TcpInv'
<1>1. /\ sent' = Append(sent, m) /\ open /\ phase # "stopped"
      /\ UNCHANGED <<written, stream, open, phase, need, delivered>>
      /\ m \notin Tcp!ToSet(sent) /\ Tcp!Writing = {}
  BY DEF Tcp!Send, Tcp!receiveVars, TcpInv, InStep
<1>2. /\ sent \in Seq(Messages) /\ written \in [Messages -> Nat] /\ Size \in [Messages -> Nat]
      /\ \A l \in Messages : written[l] <= Size[l] + 1
      /\ Len(stream) \in Nat /\ DOMAIN stream = 1 .. Len(stream) /\ Len(delivered) \in Nat
      /\ DOMAIN delivered = 1 .. Len(delivered)
  BY FramingAssumption DEF TcpInv, TcpTypes
<1>3. PICK n \in Nat : n = Len(sent)
  BY <1>2
<1>4. /\ DOMAIN sent = 1 .. n /\ DOMAIN sent' = 1 .. (n + 1)
      /\ Len(sent') = n + 1 /\ sent'[n + 1] = m /\ sent' \in Seq(Messages) /\ sent' # <<>>
      /\ \A i \in 1 .. n : sent'[i] = sent[i] /\ sent[i] \in Messages
  <2>1. sent \in Seq(Messages) /\ m \in Messages /\ sent' = Append(sent, m) /\ n = Len(sent)
    BY <1>1, <1>2, <1>3
  <2>2. DOMAIN sent = 1 .. n /\ DOMAIN sent' = 1 .. (n + 1) /\ Len(sent') = n + 1
        /\ sent' \in Seq(Messages)
    BY <2>1
  <2>3. sent'[n + 1] = m /\ \A i \in 1 .. n : sent'[i] = sent[i] /\ sent[i] \in Messages
    BY <2>1
  <2>4. sent' # <<>>
    BY <2>2
  <2>5. QED
    BY <2>2, <2>3, <2>4
<1>5. \A i \in 1 .. n : sent[i] # m /\ written[sent[i]] = Size[sent[i]] + 1
  <2>1. \A i \in 1 .. n : sent[i] \in Tcp!ToSet(sent)
    BY <1>4 DEF Tcp!ToSet
  <2>2. \A i \in 1 .. n : ~(written[sent[i]] < Size[sent[i]] + 1)
    BY <1>1, <2>1 DEF Tcp!Writing, Tcp!FrameLen
  <2>3. QED
    BY <1>1, <1>2, <1>4, <2>1, <2>2
<1>6. TcpTypes'
  BY <1>1, <1>4 DEF TcpInv, TcpTypes
<1>7. OneWrite'
  <2>1. \A i, j \in 1 .. (n + 1) : sent'[i] = sent'[j] => i = j
    <3> SUFFICES ASSUME NEW i \in 1 .. (n + 1), NEW j \in 1 .. (n + 1), sent'[i] = sent'[j]
                 PROVE  i = j
      OBVIOUS
    <3>1. CASE i \in 1 .. n /\ j \in 1 .. n
      BY <1>4, <3>1 DEF TcpInv, OneWrite
    <3>2. CASE i = n + 1 \/ j = n + 1
      BY <1>4, <1>5, <3>2
    <3>3. QED
      BY <3>1, <3>2
  <2>2. \A l \in Messages : written[l] > 0 => l \in Tcp!ToSet(sent')
    <3>1. \A l \in Tcp!ToSet(sent) : l \in Tcp!ToSet(sent')
      BY <1>4 DEF Tcp!ToSet
    <3>2. QED
      BY <3>1 DEF TcpInv, OneWrite
  <2>3. \A i \in 1 .. (n + 1) : i < n + 1 => written[sent'[i]] = Size[sent'[i]] + 1
    <3> SUFFICES ASSUME NEW i \in 1 .. (n + 1), i < n + 1
                 PROVE  written[sent'[i]] = Size[sent'[i]] + 1
      OBVIOUS
    <3>1. i \in 1 .. n
      OBVIOUS
    <3>2. QED
      BY <1>4, <1>5, <3>1
  <2>4. QED
    BY <1>1, <1>4, <2>1, <2>2, <2>3 DEF OneWrite
<1>8. Len(delivered) \in 0 .. n
  BY <1>2, <1>3 DEF TcpInv, Whole
<1>9. Whole'
  <2>1. \A i \in DOMAIN delivered : i \in 1 .. n
    BY <1>2, <1>8
  <2>2. \A i \in DOMAIN delivered : delivered[i] = Tcp!Payload(sent'[i])
    BY <1>4, <2>1 DEF TcpInv, Whole
  <2>3. QED
    BY <1>1, <1>4, <1>8, <2>2 DEF Whole
<1>10. InStep'
  <2>1. PICK at : Frames(at) /\ WhatFollows(at, Position(at), stream)
    BY <1>1 DEF TcpInv, InStep
  <2> DEFINE to == [i \in 0 .. (n + 1) |-> IF i = n + 1 THEN at[n] + Size[m] + 1 ELSE at[i]]
  <2>2. /\ at \in [0 .. n -> Nat] /\ at[0] = 0 /\ at[n] \in Nat /\ Size[m] \in Nat
        /\ \A i \in 1 .. n : at[i] = at[i - 1] + Size[sent[i]] + 1
        /\ \A i, j \in 0 .. n : i <= j => at[i] <= at[j]
    BY <1>2, <1>3, <2>1 DEF Frames
  <2>3. /\ to \in [0 .. (n + 1) -> Nat]
        /\ to[n + 1] = at[n] + Size[m] + 1
        /\ \A i \in 0 .. n : to[i] = at[i]
    BY <2>2
  <2> HIDE DEF to
  <2>4. Frames(to)'
    <3>1. \A i \in 1 .. (n + 1) : to[i] = to[i - 1] + Size[sent'[i]] + 1
      <4> SUFFICES ASSUME NEW i \in 1 .. (n + 1)
                   PROVE  to[i] = to[i - 1] + Size[sent'[i]] + 1
        OBVIOUS
      <4>1. CASE i = n + 1
        BY <1>4, <2>3, <4>1
      <4>2. CASE i \in 1 .. n
        BY <1>4, <2>2, <2>3, <4>2
      <4>3. QED
        BY <4>1, <4>2
    <3>2. \A i, j \in 0 .. (n + 1) : i <= j => to[i] <= to[j]
      <4> SUFFICES ASSUME NEW i \in 0 .. (n + 1), NEW j \in 0 .. (n + 1), i <= j
                   PROVE  to[i] <= to[j]
        OBVIOUS
      <4>1. CASE j = n + 1 /\ i = n + 1
        BY <2>3, <4>1
      <4>2. CASE j = n + 1 /\ i \in 0 .. n
        <5>1. at[i] <= at[n] /\ at[i] \in Nat
          BY <2>2, <4>2
        <5>2. QED
          BY <2>2, <2>3, <4>2, <5>1
      <4>3. CASE j \in 0 .. n /\ i \in 0 .. n
        BY <2>2, <2>3, <4>3
      <4>4. QED
        BY <4>1, <4>2, <4>3
    <3>3. to[0] = 0
      BY <2>2, <2>3
    <3>4. QED
      BY <1>4, <2>3, <3>1, <3>2, <3>3 DEF Frames
  <2>5. PICK from \in Nat : from = Position(at) /\ from = Position(to)'
    <3>1. to[Len(delivered)] = at[Len(delivered)] /\ at[Len(delivered)] \in Nat
      BY <1>8, <2>2, <2>3
    <3>2. Position(at) \in Nat /\ Position(to)' = Position(at)
      BY <1>1, <3>1 DEF Position
    <3>3. QED
      BY <3>2
  <2>6. from + Len(stream) = at[n]
    <3>1. CASE sent = <<>>
      BY <1>3, <2>1, <2>2, <2>5, <3>1 DEF WhatFollows
    <3>2. CASE sent # <<>>
      <4>1. n \in 1 .. n /\ n - 1 \in 0 .. n
        BY <1>2, <1>3, <3>2
      <4>2. at[n] = at[n - 1] + (Size[sent[n]] + 1)
        BY <1>2, <1>4, <2>2, <4>1
      <4>3. written[sent[n]] = Size[sent[n]] + 1
        BY <1>5, <4>1
      <4>4. QED
        BY <1>3, <2>1, <2>5, <3>2, <4>2, <4>3 DEF WhatFollows
    <3>3. QED
      BY <3>1, <3>2
  <2>7. WhatFollows(to, from, stream)'
    <3>1. from + Len(stream) = to[(n + 1) - 1] + written[sent'[n + 1]]
      <4>1. written[m] = 0
        BY <1>1, <1>2 DEF TcpInv, OneWrite
      <4>2. to[(n + 1) - 1] = at[n]
        BY <2>3
      <4>3. QED
        BY <1>4, <2>2, <2>6, <4>1, <4>2
    <3>2. ASSUME NEW k \in DOMAIN stream, NEW i \in 1 .. (n + 1), NEW u \in 0 .. Size[sent'[i]],
                 from + k = to[i - 1] + u + 1
          PROVE  stream[k] = <<sent'[i], u>>
      <4>1. from + k <= at[n] /\ k \in Nat
        BY <1>2, <2>2, <2>5, <2>6
      <4>2. ASSUME i = n + 1 PROVE FALSE
        <5>1. i - 1 = n /\ to[n] = at[n] /\ sent'[i] = m
          BY <1>4, <2>3, <4>2
        <5>2. u \in Nat /\ from + k = at[n] + u + 1
          BY <2>2, <3>2, <5>1
        <5>3. QED
          BY <2>2, <4>1, <5>2
      <4>3. i \in 1 .. n /\ i - 1 \in 0 .. n
        BY <4>2
      <4>4. to[i - 1] = at[i - 1] /\ sent'[i] = sent[i]
        BY <1>4, <2>3, <4>3
      <4>5. u \in 0 .. Size[sent[i]] /\ from + k = at[i - 1] + u + 1
        BY <3>2, <4>4
      <4>6. stream[k] = <<sent[i], u>>
        BY <1>3, <2>1, <2>5, <4>3, <4>5 DEF WhatFollows
      <4>7. QED
        BY <4>4, <4>6
    <3>3. UNCHANGED <<stream, written>>
      BY <1>1
    <3>4. \A k \in DOMAIN stream', i \in 1 .. Len(sent') : \A u \in 0 .. Size[sent'[i]] :
             from + k = to[i - 1] + u + 1 => stream'[k] = <<sent'[i], u>>
      BY <1>4, <3>2, <3>3
    <3>5. from + Len(stream') = to[Len(sent') - 1] + written'[sent'[Len(sent')]]
      BY <1>4, <3>1, <3>3
    <3>6. QED
      BY <1>4, <3>4, <3>5 DEF WhatFollows
  <2>8. phase' = "payload" => /\ Len(delivered') < Len(sent')
                              /\ need' = Size[sent'[Len(delivered') + 1]]
    <3> SUFFICES ASSUME phase = "payload"
                 PROVE  /\ Len(delivered) < n + 1
                        /\ need = Size[sent'[Len(delivered) + 1]]
      BY <1>1, <1>4
    <3>1. Len(delivered) < n /\ need = Size[sent[Len(delivered) + 1]]
      BY <1>3 DEF TcpInv, InStep
    <3>2. Len(delivered) + 1 \in 1 .. n
      BY <1>8, <3>1
    <3>3. QED
      BY <1>4, <1>8, <3>1, <3>2
  <2>9. \E a : Frames(a)' /\ WhatFollows(a, Position(a), stream)'
    BY <2>4, <2>5, <2>7
  <2>10. QED
    BY <1>1, <2>8, <2>9 DEF InStep
<1>11. QED
  BY <1>6, <1>7, <1>9, <1>10 DEF TcpInv

\* async_write_some: the last message is the one that is written, and its units
\* come after those that are on their way.
LEMMA TcpWriteSome ==
    ASSUME TcpInv, NEW m \in Messages, Tcp!WriteSome(m)
    PROVE  TcpInv'
<1>1. /\ open /\ phase # "stopped" /\ m \in Tcp!ToSet(sent) /\ written[m] < Size[m] + 1
      /\ UNCHANGED <<sent, open, phase, need, delivered>>
  BY DEF Tcp!WriteSome, Tcp!Writing, Tcp!FrameLen, Tcp!receiveVars, TcpInv, InStep
<1>2. /\ sent \in Seq(Messages) /\ written \in [Messages -> Nat] /\ Size \in [Messages -> Nat]
      /\ \A l \in Messages : written[l] <= Size[l] + 1
      /\ stream \in Seq(Messages \X Nat) /\ Len(stream) \in Nat
      /\ DOMAIN stream = 1 .. Len(stream)
  BY FramingAssumption DEF TcpInv, TcpTypes
<1>3. PICK W \in Nat, C \in Nat :
          /\ W = written[m] /\ 0 < C /\ W + C <= Size[m] + 1
          /\ stream' = stream \o [i \in 1 .. C |-> <<m, W + i - 1>>]
          /\ written' = [written EXCEPT ![m] = W + C]
  <2>1. PICK N \in written[m] + 1 .. Size[m] + 1 :
          /\ stream' = stream \o [i \in 1 .. N - written[m] |-> <<m, written[m] + i - 1>>]
          /\ written' = [written EXCEPT ![m] = N]
    BY DEF Tcp!WriteSome, Tcp!FrameLen
  <2>2. PICK W \in Nat : W = written[m]
    BY <1>2
  <2>3. PICK C \in Nat : C = N - W /\ N = W + C /\ 0 < C /\ W + C <= Size[m] + 1
    <3>1. N - W \in Nat /\ N = W + (N - W) /\ 0 < N - W /\ W + (N - W) <= Size[m] + 1
      BY <1>2, <2>1, <2>2
    <3>2. QED
      BY <3>1
  <2>4. QED
    BY <2>1, <2>2, <2>3
<1>4. PICK n \in Nat : n = Len(sent) /\ n > 0 /\ DOMAIN sent = 1 .. n
  BY <1>1, <1>2 DEF Tcp!ToSet
<1>5. m = sent[n]
  <2>1. PICK i \in 1 .. n : m = sent[i]
    BY <1>1, <1>4 DEF Tcp!ToSet
  <2>2. i < n => written[m] = Size[m] + 1
    BY <1>4, <2>1 DEF TcpInv, OneWrite
  <2>3. ~(i < n)
    BY <1>1, <1>2, <2>2
  <2>4. QED
    BY <1>4, <2>1, <2>3
<1>6. \A i \in 1 .. n : i < n => sent[i] # m
  BY <1>4, <1>5 DEF TcpInv, OneWrite
<1>7. /\ stream' \in Seq(Messages \X Nat)
      /\ Len(stream') = Len(stream) + C /\ DOMAIN stream' = 1 .. Len(stream')
      /\ \A k \in DOMAIN stream : k \in DOMAIN stream' /\ stream'[k] = stream[k]
      /\ \A k \in 1 .. C :
            Len(stream) + k \in DOMAIN stream' /\ stream'[Len(stream) + k] = <<m, W + k - 1>>
  <2> DEFINE more == [i \in 1 .. C |-> <<m, W + i - 1>>]
  <2>1. /\ \A i \in 1 .. C : more[i] = <<m, W + i - 1>> /\ W + i - 1 \in Nat
        /\ more \in Seq(Messages \X Nat)
    <3>1. \A i \in 1 .. C : W + i - 1 \in Nat
      OBVIOUS
    <3>2. \A i \in 1 .. C : <<m, W + i - 1>> \in Messages \X Nat
      BY <3>1
    <3>3. QED
      BY <3>1, <3>2
  <2>2. /\ more \in Seq(Messages \X Nat) /\ Len(more) = C
        /\ \A i \in 1 .. C : more[i] = <<m, W + i - 1>>
    BY <2>1
  <2> HIDE DEF more
  <2>3. stream' = stream \o more
    BY <1>3 DEF more
  <2>4. /\ stream' \in Seq(Messages \X Nat) /\ Len(stream') = Len(stream) + C
        /\ \A i \in 1 .. Len(stream) + C :
              stream'[i] = IF i <= Len(stream) THEN stream[i] ELSE more[i - Len(stream)]
    BY <1>2, <2>2, <2>3, ConcatProperties
  <2>5. DOMAIN stream' = 1 .. Len(stream')
    BY <2>4
  <2>6. ASSUME NEW k \in 1 .. C
        PROVE  Len(stream) + k \in DOMAIN stream' /\ stream'[Len(stream) + k] = <<m, W + k - 1>>
    <3>1. /\ Len(stream) + k \in 1 .. Len(stream) + C
          /\ ~(Len(stream) + k <= Len(stream)) /\ (Len(stream) + k) - Len(stream) = k
      BY <1>2, <2>5
    <3>2. stream'[Len(stream) + k] = more[k]
      BY <2>4, <3>1
    <3>3. QED
      BY <2>2, <2>4, <2>5, <3>1, <3>2
  <2>7. ASSUME NEW k \in DOMAIN stream PROVE k \in DOMAIN stream' /\ stream'[k] = stream[k]
    <3>1. k \in 1 .. Len(stream) + C /\ k <= Len(stream)
      BY <1>2
    <3>2. QED
      BY <2>4, <2>5, <3>1
  <2>8. QED
    BY <2>4, <2>5, <2>6, <2>7
<1>8. TcpTypes'
  <2>1. written' \in [Messages -> Nat] /\ \A l \in Messages : written'[l] <= Size[l] + 1
    BY <1>2, <1>3
  <2>2. QED
    BY <1>1, <1>7, <2>1 DEF TcpInv, TcpTypes
<1>9. OneWrite'
  <2>1. \A l \in Messages : written'[l] > 0 => l \in Tcp!ToSet(sent)
    BY <1>1, <1>2, <1>3 DEF TcpInv, OneWrite
  <2>2. \A i \in DOMAIN sent : i < Len(sent) => written'[sent[i]] = Size[sent[i]] + 1
    <3> SUFFICES ASSUME NEW i \in 1 .. n, i < n PROVE written'[sent[i]] = Size[sent[i]] + 1
      BY <1>4
    <3>1. sent[i] # m /\ sent[i] \in Messages
      BY <1>2, <1>4, <1>6
    <3>2. QED
      BY <1>2, <1>3, <1>4, <3>1 DEF TcpInv, OneWrite
  <2>3. QED
    BY <1>1, <2>1, <2>2 DEF TcpInv, OneWrite
<1>10. Whole'
  BY <1>1 DEF TcpInv, Whole
<1>11. InStep'
  <2>1. PICK at : Frames(at) /\ WhatFollows(at, Position(at), stream)
    BY <1>1 DEF TcpInv, InStep
  <2>2. PICK from : from = Position(at) /\ from = Position(at)'
    BY <1>1 DEF Position
  <2>3. /\ at \in [0 .. n -> Nat] /\ n - 1 \in 0 .. n /\ at[n - 1] \in Nat /\ Size[m] \in Nat
        /\ at[n] = at[n - 1] + Size[m] + 1
        /\ \A i, j \in 0 .. n : i <= j => at[i] <= at[j]
    <3>1. at \in [0 .. n -> Nat] /\ n \in 1 .. n /\ n - 1 \in 0 .. n /\ Size[m] \in Nat
      BY <1>2, <1>4, <2>1 DEF Frames
    <3>2. QED
      BY <1>4, <1>5, <2>1, <3>1 DEF Frames
  <2>4. from \in Nat /\ from + Len(stream) = at[n - 1] + W
    <3>1. Len(delivered) \in 0 .. n
      BY <1>4 DEF TcpInv, TcpTypes, Whole
    <3>2. from \in Nat
      BY <2>2, <2>3, <3>1 DEF Position
    <3>3. sent # <<>>
      BY <1>4
    <3>4. QED
      BY <1>3, <1>4, <1>5, <2>1, <2>2, <3>2, <3>3 DEF WhatFollows
  <2>5. from + Len(stream') = at[n - 1] + (W + C)
    <3>1. at[n - 1] \in Nat /\ Len(stream) \in Nat /\ Len(stream') = Len(stream) + C
      BY <1>2, <1>7, <2>3
    <3>2. QED
      BY <2>4, <3>1
  <2>6. ASSUME NEW k \in DOMAIN stream', NEW i \in 1 .. n, NEW u \in 0 .. Size[sent[i]],
               from + k = at[i - 1] + u + 1
        PROVE  stream'[k] = <<sent[i], u>>
    <3>1. CASE k \in DOMAIN stream
      BY <1>4, <1>7, <2>1, <2>2, <2>6, <3>1 DEF WhatFollows
    <3>2. CASE k \notin DOMAIN stream
      <4>1. PICK j \in 1 .. C : k = Len(stream) + j
        <5>1. k \in 1 .. Len(stream) + C /\ ~(k \in 1 .. Len(stream))
          BY <1>2, <1>7, <3>2
        <5>2. k - Len(stream) \in 1 .. C /\ k = Len(stream) + (k - Len(stream))
          BY <1>2, <5>1
        <5>3. QED
          BY <5>2
      <4>2. PICK b \in Nat : b = at[n - 1] /\ from + k = b + W + j
        <5>1. from + k = (from + Len(stream)) + j
          BY <1>2, <2>4, <4>1
        <5>2. QED
          BY <2>3, <2>4, <5>1
      <4>3. ASSUME i # n PROVE FALSE
        <5>1. i \in 1 .. n /\ i \in 0 .. n /\ i <= n - 1 /\ i - 1 \in 0 .. n
          BY <4>3
        <5>2. at[i] <= b /\ at[i] \in Nat /\ at[i - 1] \in Nat
          BY <2>3, <4>2, <5>1
        <5>3. Size[sent[i]] \in Nat /\ at[i] = at[i - 1] + Size[sent[i]] + 1
          BY <1>2, <1>4, <2>1, <5>1 DEF Frames
        <5>4. from + k <= at[i]
          BY <2>6, <5>2, <5>3
        <5>5. QED
          BY <4>2, <5>2, <5>4
      <4>4. at[i - 1] = b /\ u \in Nat
        BY <1>5, <2>3, <4>2, <4>3
      <4>5. u = W + j - 1
        BY <2>6, <4>2, <4>4
      <4>6. stream'[k] = <<m, W + j - 1>>
        BY <1>7, <4>1
      <4>7. QED
        BY <1>5, <4>3, <4>5, <4>6
    <3>3. QED
      BY <3>1, <3>2
  <2>7. WhatFollows(at, from, stream)'
    <3>1. sent # <<>> /\ sent' = sent /\ written'[sent[n]] = W + C
      BY <1>1, <1>2, <1>3, <1>4, <1>5
    <3>2. QED
      BY <1>4, <2>5, <2>6, <3>1 DEF WhatFollows
  <2>8. Frames(at)'
    BY <1>1, <2>1 DEF Frames
  <2>9. \E a : Frames(a)' /\ WhatFollows(a, Position(a), stream)'
    BY <2>2, <2>7, <2>8
  <2>10. QED
    BY <1>1, <2>9 DEF TcpInv, InStep
<1>12. QED
  BY <1>8, <1>9, <1>10, <1>11 DEF TcpInv

\* The units that follow those taken from the stream are the rest of it.
LEMMA TakenFromStream ==
    ASSUME TcpTypes, NEW at, NEW from \in Nat, WhatFollows(at, from, stream),
           NEW c \in Nat, c <= Len(stream)
    PROVE  /\ SubSeq(stream, c + 1, Len(stream)) \in Seq(Messages \X Nat)
           /\ WhatFollows(at, from + c, SubSeq(stream, c + 1, Len(stream)))
<1> DEFINE rest == SubSeq(stream, c + 1, Len(stream))
<1>1. PICK L \in Nat : L = Len(stream) /\ DOMAIN stream = 1 .. L /\ stream \in Seq(Messages \X Nat)
  BY DEF TcpTypes
<1>2. PICK R \in Nat : L = c + R
  <2>1. L - c \in Nat /\ L = c + (L - c)
    BY <1>1
  <2>2. QED
    BY <2>1
<1>3. \A i \in c + 1 .. L : stream[i] \in Messages \X Nat
  BY <1>1, <1>2
<1>4. /\ rest \in Seq(Messages \X Nat)
      /\ Len(rest) = IF c + 1 <= L THEN L - (c + 1) + 1 ELSE 0
      /\ \A i \in 1 .. L - (c + 1) + 1 : rest[i] = stream[(c + 1) + i - 1]
  BY <1>1, <1>3, SubSeqProperties
<1> HIDE DEF rest
<1>5. Len(rest) = R /\ DOMAIN rest = 1 .. R
  BY <1>2, <1>4
<1>6. \A k \in 1 .. R : rest[k] = stream[c + k] /\ c + k \in 1 .. L
  <2> TAKE k \in 1 .. R
  <2>1. k \in 1 .. L - (c + 1) + 1 /\ (c + 1) + k - 1 = c + k /\ c + k \in 1 .. L
    BY <1>2
  <2>2. QED
    BY <1>4, <2>1
<1>7. (from + c) + Len(rest) = from + Len(stream)
  BY <1>1, <1>2, <1>5
<1>8. ASSUME NEW k \in 1 .. R, NEW i \in 1 .. Len(sent), NEW u \in 0 .. Size[sent[i]],
             (from + c) + k = at[i - 1] + u + 1
      PROVE  rest[k] = <<sent[i], u>>
  <2>1. (from + c) + k = from + (c + k)
    OBVIOUS
  <2>2. c + k \in DOMAIN stream /\ rest[k] = stream[c + k]
    BY <1>1, <1>6
  <2>3. QED
    BY <1>8, <2>1, <2>2 DEF WhatFollows
<1>9. WhatFollows(at, from + c, rest)
  BY <1>5, <1>7, <1>8 DEF WhatFollows
<1>10. QED
  BY <1>4, <1>9 DEF rest

\* While the connection lasts, where each frame begins and ends, and what is next.
LEMMA LoopInStep ==
    ASSUME TcpInv, phase # "stopped"
    PROVE  \E at : \E n \in Nat, d \in Nat, from \in Nat :
               /\ n = Len(sent) /\ DOMAIN sent = 1 .. n /\ d = Len(delivered) /\ d <= n
               /\ at \in [0 .. n -> Nat]
               /\ \A i \in 1 .. n : sent[i] \in Messages /\ at[i] = at[i - 1] + Size[sent[i]] + 1
               /\ Frames(at) /\ WhatFollows(at, from, stream) /\ from = Position(at)
               /\ from = at[d] + (IF phase = "payload" THEN 1 ELSE 0)
               /\ from + Len(stream) <= at[n]
<1>1. PICK n \in Nat, d \in Nat :
          n = Len(sent) /\ DOMAIN sent = 1 .. n /\ d = Len(delivered) /\ d <= n
          /\ \A i \in 1 .. n : sent[i] \in Messages
  <2>1. sent \in Seq(Messages) /\ Len(delivered) \in Nat /\ Len(delivered) <= Len(sent)
    BY DEF TcpInv, TcpTypes, Whole
  <2>2. QED
    BY <2>1
<1>2. PICK at : Frames(at) /\ WhatFollows(at, Position(at), stream)
  BY DEF TcpInv, InStep
<1>3. /\ at \in [0 .. n -> Nat] /\ at[0] = 0
      /\ \A i \in 1 .. n : at[i] = at[i - 1] + Size[sent[i]] + 1
  BY <1>1, <1>2 DEF Frames
<1>4. PICK from \in Nat : from = Position(at) /\ from = at[d] + (IF phase = "payload" THEN 1 ELSE 0)
  BY <1>1, <1>3 DEF Position
<1>5. from + Len(stream) <= at[n]
  <2>1. CASE sent = <<>>
    BY <1>1, <1>2, <1>3, <1>4, <2>1 DEF WhatFollows
  <2>2. CASE sent # <<>>
    <3>1. n \in 1 .. n /\ n - 1 \in 0 .. n
      BY <1>1, <2>2 DEF TcpInv, TcpTypes
    <3>2. /\ at[n] = at[n - 1] + (Size[sent[n]] + 1) /\ at[n - 1] \in Nat
          /\ Size[sent[n]] \in Nat /\ written[sent[n]] \in Nat
          /\ written[sent[n]] <= Size[sent[n]] + 1
      <4>1. sent[n] \in Messages /\ Size \in [Messages -> Nat]
        BY <1>1, <3>1, FramingAssumption
      <4>2. written[sent[n]] \in Nat /\ written[sent[n]] <= Size[sent[n]] + 1
        BY <4>1 DEF TcpInv, TcpTypes
      <4>3. QED
        BY <1>3, <3>1, <4>1, <4>2
    <3>3. from + Len(stream) = at[n - 1] + written[sent[n]]
      BY <1>1, <1>2, <1>4, <2>2 DEF WhatFollows
    <3>4. QED
      BY <3>2, <3>3
  <2>3. QED
    BY <2>1, <2>2
<1>6. QED
  BY <1>1, <1>2, <1>3, <1>4, <1>5

\* The header that is read is that of the next message, and holds its size.
LEMMA TcpReadHeader ==
    ASSUME TcpInv, SizesFit, Tcp!ReadHeader
    PROVE  TcpInv'
<1>1. /\ phase = "header" /\ stream # <<>> /\ stream' = Tail(stream) /\ phase' = "payload"
      /\ need' \in IF stream[1][2] = 0 THEN {Size[stream[1][1]] % HeaderModulus}
                                       ELSE 0 .. MaxGarbage
      /\ UNCHANGED <<sent, written, open, delivered>>
  BY DEF Tcp!ReadHeader, Tcp!sendVars, TcpInv, TcpTypes
<1>2. PICK at : \E n \in Nat, d \in Nat, from \in Nat :
              /\ n = Len(sent) /\ DOMAIN sent = 1 .. n /\ d = Len(delivered) /\ d <= n
              /\ at \in [0 .. n -> Nat]
              /\ \A i \in 1 .. n : sent[i] \in Messages /\ at[i] = at[i - 1] + Size[sent[i]] + 1
              /\ Frames(at) /\ WhatFollows(at, from, stream) /\ from = Position(at)
              /\ from = at[d] + (IF phase = "payload" THEN 1 ELSE 0)
              /\ from + Len(stream) <= at[n]
  BY <1>1, LoopInStep
<1>3. PICK n \in Nat, d \in Nat, from \in Nat :
          /\ n = Len(sent) /\ DOMAIN sent = 1 .. n /\ d = Len(delivered) /\ d <= n
          /\ at \in [0 .. n -> Nat]
          /\ \A i \in 1 .. n : sent[i] \in Messages /\ at[i] = at[i - 1] + Size[sent[i]] + 1
          /\ Frames(at) /\ WhatFollows(at, from, stream) /\ from = Position(at)
          /\ from = at[d] + (IF phase = "payload" THEN 1 ELSE 0)
          /\ from + Len(stream) <= at[n]
  BY <1>2
<1>4. /\ at[d] \in Nat /\ at[n] \in Nat
      /\ WhatFollows(at, at[d], stream) /\ at[d] + Len(stream) <= at[n]
  BY <1>1, <1>3
<1>5. PICK L \in Nat : L = Len(stream) /\ L > 0 /\ DOMAIN stream = 1 .. L
                       /\ stream \in Seq(Messages \X Nat)
  BY <1>1 DEF TcpInv, TcpTypes
<1>6. d < n /\ d + 1 \in 1 .. n
  BY <1>3, <1>4, <1>5
<1>7. Size[sent[d + 1]] \in Nat /\ at[d + 1] = at[d] + Size[sent[d + 1]] + 1
  <2>1. (d + 1) - 1 = d
    OBVIOUS
  <2>2. QED
    BY <1>3, <1>6, <2>1, FramingAssumption
<1>8. stream[1] = <<sent[d + 1], 0>>
  <2>1. at[(d + 1) - 1] = at[d] /\ at[d] + 1 = at[d] + 0 + 1
    BY <1>4
  <2>2. 1 \in DOMAIN stream /\ d + 1 \in 1 .. Len(sent) /\ 0 \in 0 .. Size[sent[d + 1]]
    BY <1>3, <1>5, <1>6, <1>7
  <2>3. QED
    BY <1>4, <2>1, <2>2 DEF WhatFollows
<1>9. need' = Size[sent[d + 1]] /\ need' \in Nat
  <2>1. Size[sent[d + 1]] < HeaderModulus
    BY <1>3, <1>6 DEF SizesFit
  <2>2. Size[sent[d + 1]] % HeaderModulus = Size[sent[d + 1]]
    BY <1>7, <2>1, FramingAssumption
  <2>3. QED
    BY <1>1, <1>7, <1>8, <2>2
<1>10. stream' \in Seq(Messages \X Nat) /\ WhatFollows(at, at[d] + 1, stream')
  <2>1. stream' = SubSeq(stream, 1 + 1, Len(stream)) /\ 1 <= Len(stream) /\ TcpTypes
    BY <1>1, <1>5 DEF TcpInv
  <2>2. QED
    BY <1>4, <2>1, TakenFromStream
<1>11. TcpTypes'
  BY <1>1, <1>9, <1>10 DEF TcpInv, TcpTypes
<1>12. OneWrite' /\ Whole'
  BY <1>1 DEF TcpInv, OneWrite, Whole
<1>13. InStep'
  <2>1. Frames(at)' /\ Position(at)' = at[d] + 1
    BY <1>1, <1>3 DEF Frames, Position
  <2>2. PICK to : to = at[d] + 1
    OBVIOUS
  <2>3. WhatFollows(at, to, stream)'
    <3>1. WhatFollows(at, to, stream')
      BY <1>10, <2>2
    <3>2. QED
      BY <1>1, <3>1 DEF WhatFollows
  <2>4. \E a : Frames(a)' /\ WhatFollows(a, Position(a), stream)'
    BY <2>1, <2>2, <2>3
  <2>5. QED
    BY <1>1, <1>3, <1>6, <1>9, <2>4 DEF InStep
<1>14. QED
  BY <1>11, <1>12, <1>13 DEF TcpInv

\* The payload that is read is that of the next message, whole.
LEMMA TcpReadPayload ==
    ASSUME TcpInv, Tcp!ReadPayload
    PROVE  TcpInv'
<1>1. /\ phase = "payload" /\ Len(stream) >= need /\ phase' = "header" /\ need' = 0
      /\ delivered' = Append(delivered, SubSeq(stream, 1, need))
      /\ stream' = SubSeq(stream, need + 1, Len(stream))
      /\ UNCHANGED <<sent, written, open>>
  BY DEF Tcp!ReadPayload, Tcp!sendVars
<1>2. PICK at : \E n \in Nat, d \in Nat, from \in Nat :
              /\ n = Len(sent) /\ DOMAIN sent = 1 .. n /\ d = Len(delivered) /\ d <= n
              /\ at \in [0 .. n -> Nat]
              /\ \A i \in 1 .. n : sent[i] \in Messages /\ at[i] = at[i - 1] + Size[sent[i]] + 1
              /\ Frames(at) /\ WhatFollows(at, from, stream) /\ from = Position(at)
              /\ from = at[d] + (IF phase = "payload" THEN 1 ELSE 0)
              /\ from + Len(stream) <= at[n]
  BY <1>1, LoopInStep
<1>3. PICK n \in Nat, d \in Nat, from \in Nat :
          /\ n = Len(sent) /\ DOMAIN sent = 1 .. n /\ d = Len(delivered) /\ d <= n
          /\ at \in [0 .. n -> Nat]
          /\ \A i \in 1 .. n : sent[i] \in Messages /\ at[i] = at[i - 1] + Size[sent[i]] + 1
          /\ Frames(at) /\ WhatFollows(at, from, stream) /\ from = Position(at)
          /\ from = at[d] + (IF phase = "payload" THEN 1 ELSE 0)
          /\ from + Len(stream) <= at[n]
  BY <1>2
<1>4. at[d] \in Nat /\ WhatFollows(at, at[d] + 1, stream)
  BY <1>1, <1>3
<1>5. d < n /\ d + 1 \in 1 .. n /\ need = Size[sent[d + 1]]
  BY <1>1, <1>3 DEF TcpInv, InStep
<1>6. need \in Nat /\ at[d + 1] \in Nat /\ at[d + 1] = at[d] + need + 1
  <2>1. (d + 1) - 1 = d /\ d + 1 \in 0 .. n
    BY <1>5
  <2>2. QED
    BY <1>3, <1>5, <2>1, FramingAssumption
<1>7. PICK L \in Nat : L = Len(stream) /\ need <= L /\ DOMAIN stream = 1 .. L
                       /\ stream \in Seq(Messages \X Nat)
  BY <1>1, <1>6 DEF TcpInv, TcpTypes
<1>8. \A i \in 1 .. need : stream[i] = <<sent[d + 1], i>>
  <2> TAKE i \in 1 .. need
  <2>1. at[(d + 1) - 1] = at[d] /\ (at[d] + 1) + i = at[d] + i + 1
    BY <1>4, <1>6
  <2>2. i \in DOMAIN stream /\ d + 1 \in 1 .. Len(sent) /\ i \in 0 .. Size[sent[d + 1]]
    BY <1>3, <1>5, <1>6, <1>7
  <2>3. QED
    BY <1>4, <2>1, <2>2 DEF WhatFollows
<1>9. /\ SubSeq(stream, 1, need) = Tcp!Payload(sent[d + 1])
      /\ SubSeq(stream, 1, need) \in Seq(Messages \X Nat)
  <2>1. \A i \in 1 .. need : stream[i] \in Messages \X Nat
    <3> TAKE i \in 1 .. need
    <3>1. i \in 1 .. L
      BY <1>6, <1>7
    <3>2. QED
      BY <1>7, <3>1
  <2>2. /\ SubSeq(stream, 1, need) \in Seq(Messages \X Nat)
        /\ Len(SubSeq(stream, 1, need)) = IF 1 <= need THEN need - 1 + 1 ELSE 0
        /\ \A i \in 1 .. need - 1 + 1 : SubSeq(stream, 1, need)[i] = stream[1 + i - 1]
    BY <1>6, <2>1, SubSeqProperties
  <2>3. Len(SubSeq(stream, 1, need)) = need /\ need - 1 + 1 = need
    BY <1>6, <2>2
  <2>4. \A i \in 1 .. need : SubSeq(stream, 1, need)[i] = <<sent[d + 1], i>>
    <3> TAKE i \in 1 .. need
    <3>1. 1 + i - 1 = i
      OBVIOUS
    <3>2. QED
      BY <1>8, <2>2, <2>3, <3>1
  <2>5. SubSeq(stream, 1, need) = [i \in 1 .. need |-> <<sent[d + 1], i>>]
    BY <2>2, <2>3, <2>4
  <2>6. QED
    BY <1>5, <2>2, <2>5 DEF Tcp!Payload
<1>10. /\ delivered' \in Seq(Seq(Messages \X Nat)) /\ Len(delivered') = d + 1
      /\ DOMAIN delivered' = 1 .. (d + 1)
      /\ delivered'[d + 1] = Tcp!Payload(sent[d + 1])
      /\ \A i \in 1 .. d : delivered'[i] = delivered[i]
  <2>1. delivered \in Seq(Seq(Messages \X Nat)) /\ d = Len(delivered)
    BY <1>3 DEF TcpInv, TcpTypes
  <2> DEFINE p == SubSeq(stream, 1, need)
  <2>2. /\ p \in Seq(Messages \X Nat) /\ p = Tcp!Payload(sent[d + 1])
        /\ delivered' = Append(delivered, p)
    BY <1>1, <1>9
  <2> HIDE DEF p
  <2>3. delivered' \in Seq(Seq(Messages \X Nat)) /\ Len(delivered') = d + 1
        /\ DOMAIN delivered' = 1 .. (d + 1)
    BY <2>1, <2>2
  <2>4. delivered'[d + 1] = p
    BY <2>1, <2>2
  <2>5. \A i \in 1 .. d : delivered'[i] = delivered[i]
    BY <2>1, <2>2
  <2>6. QED
    BY <2>2, <2>3, <2>4, <2>5
<1>11. stream' \in Seq(Messages \X Nat) /\ WhatFollows(at, (at[d] + 1) + need, stream')
  <2>1. at[d] + 1 \in Nat /\ need <= Len(stream) /\ TcpTypes
    BY <1>4, <1>7 DEF TcpInv
  <2>2. QED
    BY <1>1, <1>4, <1>6, <2>1, TakenFromStream
<1>12. TcpTypes'
  BY <1>1, <1>10, <1>11 DEF TcpInv, TcpTypes
<1>13. OneWrite'
  BY <1>1 DEF TcpInv, OneWrite
<1>14. Whole'
  <2>1. \A i \in 1 .. d : delivered[i] = Tcp!Payload(sent[i])
    <3>1. DOMAIN delivered = 1 .. d
      BY <1>3 DEF TcpInv, TcpTypes
    <3>2. QED
      BY <3>1 DEF TcpInv, Whole
  <2>2. ASSUME NEW i \in 1 .. (d + 1) PROVE delivered'[i] = Tcp!Payload(sent[i])
    <3>1. CASE i = d + 1
      BY <1>10, <3>1
    <3>2. CASE i \in 1 .. d
      BY <1>10, <2>1, <3>2
    <3>3. QED
      BY <3>1, <3>2
  <2>3. Len(delivered') <= Len(sent')
    BY <1>1, <1>3, <1>5, <1>10
  <2>4. \A m : Tcp!Payload(m)' = Tcp!Payload(m)
    BY DEF Tcp!Payload
  <2>5. QED
    BY <1>1, <1>10, <2>2, <2>3, <2>4 DEF Whole
<1>15. InStep'
  <2>1. Frames(at)' /\ Position(at)' = (at[d] + 1) + need
    <3>1. Position(at)' = at[d + 1] + 0
      BY <1>1, <1>10 DEF Position
    <3>2. QED
      BY <1>1, <1>3, <1>4, <1>6, <3>1 DEF Frames
  <2>2. PICK to : to = (at[d] + 1) + need
    OBVIOUS
  <2>3. WhatFollows(at, to, stream)'
    <3>1. WhatFollows(at, to, stream')
      BY <1>11, <2>2
    <3>2. QED
      BY <1>1, <3>1 DEF WhatFollows
  <2>4. \E a : Frames(a)' /\ WhatFollows(a, Position(a), stream)'
    BY <2>1, <2>2, <2>3
  <2>5. QED
    BY <1>1, <2>4 DEF InStep
<1>16. QED
  BY <1>12, <1>13, <1>14, <1>15 DEF TcpInv

\* disconnect(), and the ends of the loop that follow it
LEMMA TcpStops ==
    ASSUME TcpInv, Tcp!Disconnect \/ Tcp!HeaderEof \/ Tcp!PayloadEof
    PROVE  TcpInv'
<1>1. /\ UNCHANGED <<sent, written, stream, delivered>> /\ need' \in Nat
      /\ \/ phase' = "stopped" /\ ~open'
         \/ phase' = phase /\ need' = need /\ ~open'
      /\ phase' \in {"header", "payload", "stopped"}
  BY DEF Tcp!Disconnect, Tcp!HeaderEof, Tcp!PayloadEof, Tcp!sendVars, Tcp!receiveVars, TcpInv,
         TcpTypes
<1>2. TcpTypes' /\ OneWrite' /\ Whole'
  BY <1>1 DEF TcpInv, TcpTypes, OneWrite, Whole
<1>3. CASE phase' = "stopped" /\ ~open'
  BY <1>2, <1>3 DEF TcpInv, InStep
<1>4. CASE phase' = phase /\ need' = need /\ ~open'
  <2>1. \A at : Position(at)' = Position(at) /\ Frames(at)' = Frames(at)
    BY <1>1, <1>4 DEF Position, Frames
  <2>2. \A at, from : WhatFollows(at, from, stream)' = WhatFollows(at, from, stream)
    BY <1>1, <1>4 DEF WhatFollows
  <2>3. phase # "stopped" => \E at : Frames(at)' /\ WhatFollows(at, Position(at), stream)'
    BY <2>1, <2>2 DEF TcpInv, InStep
  <2>4. InStep'
    BY <1>1, <1>4, <2>3 DEF TcpInv, InStep
  <2>5. QED
    BY <1>2, <2>4 DEF TcpInv
<1>5. QED
  BY <1>1, <1>3, <1>4

\* No step of another subject touches what AsyncTcp has.
LEMMA TcpUntouched ==
    ASSUME TcpInv, UNCHANGED tcpVars
    PROVE  TcpInv'
<1>1. UNCHANGED <<sent, written, stream, open, phase, need, delivered>>
  BY DEF tcpVars
<1>2. TcpTypes' /\ OneWrite' /\ Whole'
  BY <1>1 DEF TcpInv, TcpTypes, OneWrite, Whole
<1>3. \A at : Position(at)' = Position(at) /\ Frames(at)' = Frames(at)
  BY <1>1 DEF Position, Frames
<1>4. \A at, from : WhatFollows(at, from, stream)' = WhatFollows(at, from, stream)
  BY <1>1 DEF WhatFollows
<1>5. phase # "stopped" => \E at : Frames(at)' /\ WhatFollows(at, Position(at), stream)'
  BY <1>3, <1>4 DEF TcpInv, InStep
<1>6. InStep'
  BY <1>1, <1>5 DEF TcpInv, InStep
<1>7. QED
  BY <1>2, <1>6 DEF TcpInv

\* Each step of the framing keeps it.
LEMMA TcpStep ==
    ASSUME OneAtATime, SizesFit, TcpInv, [Next]_<<subject, tcpVars, udpVars, queueVars, frameVars>>
    PROVE  TcpInv'
<1>1. CASE \E m \in Messages : Tcp!Send(m) \/ Tcp!WriteSome(m)
  BY <1>1, TcpSend, TcpWriteSome
<1>2. CASE Tcp!ReadHeader \/ Tcp!ReadPayload
  BY <1>2, TcpReadHeader, TcpReadPayload
<1>3. CASE Tcp!Disconnect \/ Tcp!HeaderEof \/ Tcp!PayloadEof
  BY <1>3, TcpStops
<1>4. CASE UNCHANGED tcpVars
  BY <1>4, TcpUntouched
<1>5. QED
  BY <1>1, <1>2, <1>3, <1>4 DEF Next, Tcp!Next, Tcp!Receive

\* Every onReceive is passed the next payload, whole, whatever the pieces are in which
\* frames are written and read (AsyncTcp.cpp:70-134).
THEOREM FramesDelivered ==
    ASSUME OneAtATime, SizesFit
    PROVE  Spec => []DeliversInOrder
<1>1. Init => TcpInv
  BY TcpInit DEF Init
<1>2. TcpInv /\ [Next]_<<subject, tcpVars, udpVars, queueVars, frameVars>> => TcpInv'
  BY TcpStep
<1>3. TcpInv => DeliversInOrder
  <2> SUFFICES ASSUME TcpInv PROVE DeliversInOrder
    OBVIOUS
  <2> DEFINE payloads == [i \in DOMAIN sent |-> Tcp!Payload(sent[i])]
  <2>1. PICK n \in Nat, d \in Nat :
            n = Len(sent) /\ DOMAIN sent = 1 .. n /\ d = Len(delivered) /\ DOMAIN delivered = 1 .. d
            /\ d <= n /\ delivered \in Seq(Seq(Messages \X Nat))
    <3>1. sent \in Seq(Messages) /\ delivered \in Seq(Seq(Messages \X Nat))
          /\ Len(delivered) <= Len(sent)
      BY DEF TcpInv, TcpTypes, Whole
    <3>2. QED
      BY <3>1
  <2>2. payloads = [i \in 1 .. n |-> Tcp!Payload(sent[i])]
    BY <2>1
  <2> HIDE DEF payloads
  <2>3. \A i \in 1 .. d : delivered[i] = payloads[i]
    <3> TAKE i \in 1 .. d
    <3>1. delivered[i] = Tcp!Payload(sent[i])
      BY <2>1 DEF TcpInv, Whole
    <3>2. QED
      BY <2>1, <2>2, <3>1
  <2>4. Len(payloads) = n
    BY <2>2
  <2>5. PICK S : (\A i \in 1 .. n : payloads[i] \in S) /\ (\A i \in 1 .. d : delivered[i] \in S)
    <3>1. \A i \in 1 .. n : payloads[i] \in {payloads[j] : j \in 1 .. n}
      OBVIOUS
    <3>2. ASSUME NEW i \in 1 .. d PROVE delivered[i] \in {payloads[j] : j \in 1 .. n}
      <4>1. i \in 1 .. n /\ delivered[i] = payloads[i]
        <5>1. d <= n
          BY <2>1
        <5>2. i \in 1 .. n
          BY <5>1
        <5>3. QED
          BY <2>3, <5>2
      <4>2. QED
        BY <4>1, Zenon
    <3>3. QED
      BY <3>1, <3>2
  <2>6. /\ SubSeq(delivered, 1, d) \in Seq(S) /\ SubSeq(payloads, 1, d) \in Seq(S)
        /\ Len(SubSeq(delivered, 1, d)) = d /\ Len(SubSeq(payloads, 1, d)) = d
        /\ \A i \in 1 .. d : SubSeq(delivered, 1, d)[i] = delivered[1 + i - 1]
        /\ \A i \in 1 .. d : SubSeq(payloads, 1, d)[i] = payloads[1 + i - 1]
    <3>1. /\ \A i \in 1 .. d : payloads[i] \in S
          /\ d - 1 + 1 = d /\ (IF 1 <= d THEN d - 1 + 1 ELSE 0) = d
      BY <2>1, <2>5
    <3>2. QED
      BY <2>5, <3>1, SubSeqProperties
  <2>7. \A i \in 1 .. d : SubSeq(delivered, 1, d)[i] = SubSeq(payloads, 1, d)[i]
    <3> TAKE i \in 1 .. d
    <3>1. 1 + i - 1 = i
      OBVIOUS
    <3>2. QED
      BY <2>3, <2>6, <3>1
  <2>8. SubSeq(delivered, 1, d) = SubSeq(payloads, 1, d)
    BY <2>6, <2>7
  <2>9. QED
    BY <2>1, <2>4, <2>8 DEF DeliversInOrder, Tcp!DeliversInOrder, Tcp!IsPrefix, payloads
<1>4. QED
  BY <1>1, <1>2, <1>3, PTL DEF Spec

-----------------------------------------------------------------------------
(* The bytes of event frames                                               *)

\* What is on its way is the frame that was made, and what was read that frame.
FrameInv ==
    /\ \/ frame = <<>>
       \/ \E t \in Topics, y \in Types, p \in Payloads : frame = <<Event!Frame(t, y, p)>>
    /\ stage \in {"raw", "read"} /\ frame # <<>> => raw = Event!make(frame[1])
    /\ stage = "read" /\ frame # <<>> => read = frame

\* parse() gives back what make() was given: the two bytes of a topic are its quotient
\* and its remainder (EventFrame.hpp:58-86).
LEMMA MadeIsParsed ==
    ASSUME NEW t \in Nat, NEW y, NEW p \in Seq(Nat)
    PROVE  Event!parse(Event!make(Event!Frame(t, y, p))) = Event!Frame(t, y, p)
<1> DEFINE head == <<t \div Byte, t % Byte, y>>
           bytes == head \o p
<1>1. /\ t \div Byte \in Nat /\ t % Byte \in Nat
      /\ (t \div Byte) * Byte + (t % Byte) = t
  BY FramesAssumption
<1>2. head \in Seq(Nat \cup {y}) /\ Len(head) = 3 /\ p \in Seq(Nat \cup {y})
  BY <1>1
<1>3. PICK L \in Nat : L = Len(p)
  OBVIOUS
<1>4. /\ bytes \in Seq(Nat \cup {y}) /\ Len(bytes) = 3 + L
      /\ \A i \in 1 .. 3 + L : bytes[i] = IF i <= 3 THEN head[i] ELSE p[i - 3]
  BY <1>2, <1>3, ConcatProperties
<1> HIDE DEF bytes
<1>5. bytes[1] = t \div Byte /\ bytes[2] = t % Byte /\ bytes[3] = y
  <2>1. bytes[1] = head[1] /\ bytes[2] = head[2] /\ bytes[3] = head[3]
    BY <1>4
  <2>2. QED
    BY <2>1
<1>6. SubSeq(bytes, 4, 3 + L) = p
  <2>1. \A i \in 4 .. 3 + L : bytes[i] \in Nat \cup {y}
    BY <1>4
  <2>2. /\ SubSeq(bytes, 4, 3 + L) \in Seq(Nat \cup {y})
        /\ Len(SubSeq(bytes, 4, 3 + L)) = IF 4 <= 3 + L THEN (3 + L) - 4 + 1 ELSE 0
        /\ \A i \in 1 .. (3 + L) - 4 + 1 : SubSeq(bytes, 4, 3 + L)[i] = bytes[4 + i - 1]
    BY <1>3, <2>1, SubSeqProperties
  <2>3. Len(SubSeq(bytes, 4, 3 + L)) = L
    BY <1>3, <2>2
  <2>4. \A i \in 1 .. L : SubSeq(bytes, 4, 3 + L)[i] = p[i]
    <3> TAKE i \in 1 .. L
    <3>1. i \in 1 .. (3 + L) - 4 + 1 /\ 4 + i - 1 = 3 + i
      OBVIOUS
    <3>2. 3 + i \in 1 .. 3 + L /\ ~(3 + i <= 3) /\ (3 + i) - 3 = i
      OBVIOUS
    <3>3. QED
      BY <1>4, <2>2, <3>1, <3>2
  <2>5. QED
    BY <1>2, <1>3, <2>2, <2>3, <2>4, SeqEqual
<1>7. Event!make(Event!Frame(t, y, p)) = bytes
  BY DEF Event!make, Event!Frame, bytes
<1>8. Event!parse(bytes) = Event!Frame(t, y, p)
  BY <1>1, <1>4, <1>5, <1>6 DEF Event!parse
<1>9. QED
  BY <1>7, <1>8

\* The steps of the frame keep it.
LEMMA FrameStep ==
    ASSUME FrameInv, Event!Next \/ UNCHANGED frameVars
    PROVE  FrameInv'
<1>1. CASE Event!Make
  BY <1>1 DEF FrameInv, Event!Make, Event!make
<1>2. CASE Event!Parse
  <2>1. /\ frame' = frame /\ raw' = raw /\ stage = "raw" /\ stage' = "read"
        /\ read' = <<Event!parse(raw)>>
    BY <1>2 DEF Event!Parse
  <2>2. ASSUME frame # <<>> PROVE raw = Event!make(frame[1]) /\ read' = frame
    <3>1. PICK t \in Topics, y \in Types, p \in Payloads : frame = <<Event!Frame(t, y, p)>>
      BY <2>2 DEF FrameInv
    <3>2. raw = Event!make(Event!Frame(t, y, p))
      BY <2>1, <3>1 DEF FrameInv
    <3>3. t \in Nat /\ p \in Seq(Nat)
      BY FramesAssumption
    <3>4. Event!parse(raw) = Event!Frame(t, y, p)
      BY <3>2, <3>3, MadeIsParsed
    <3>5. QED
      BY <2>1, <3>1, <3>2, <3>4
  <2>3. Event!make(frame[1])' = Event!make(frame[1])
    BY <2>1 DEF Event!make
  <2>4. QED
    BY <2>1, <2>2, <2>3 DEF FrameInv
<1>3. CASE Event!ParseShort
  BY <1>3 DEF FrameInv, Event!ParseShort
<1>4. CASE UNCHANGED frameVars
  BY <1>4 DEF FrameInv, frameVars, Event!make
<1>5. QED
  BY <1>1, <1>2, <1>3, <1>4 DEF Event!Next

-----------------------------------------------------------------------------
(* The queues of Message                                                   *)

Numbered == [n : Nat, size : Nat]

\* Of the messages accepted in a queue the last are those it holds; received are,
\* in order, some of those before, at places rising with f.
KeptBy(a, q, r, c, f) ==
    /\ c \in Nat /\ f \in [1 .. Len(r) -> 1 .. c]
    /\ Len(a) = c + Len(q)
    /\ \A i \in 1 .. Len(q) : q[i] = a[c + i]
    /\ \A i, j \in 1 .. Len(r) : i < j => f[i] < f[j]
    /\ \A i \in 1 .. Len(r) : r[i] = a[f[i]]
Kept(a, q, r) == \E c, f : KeptBy(a, q, r, c, f)

QueueTypes ==
    /\ id \in [Objects -> Nat] /\ sends \in Nat
    /\ {content, accepted, received} \subseteq Seq(Seq(Numbered))
    /\ live \subseteq DOMAIN keyOf
    /\ Len(content) = Len(keyOf) /\ Len(accepted) = Len(keyOf) /\ Len(received) = Len(keyOf)
    /\ keyOf \in Seq({Queue!Key(o) : o \in Objects})

QueueInv ==
    /\ QueueTypes
    /\ \A k \in DOMAIN keyOf : Kept(accepted[k], content[k], received[k])

\* A queue that is made is empty (CreateMakes).
LEMMA KeptMade == Kept(<<>>, <<>>, <<>>)
<1>1. [i \in 1 .. 0 |-> 0] \in [1 .. Len(<<>>) -> 1 .. 0]
  OBVIOUS
<1>2. Len(<<>>) = 0 + Len(<<>>) /\ Len(<<>>) = 0 /\ 0 \in Nat
  OBVIOUS
<1>3. KeptBy(<<>>, <<>>, <<>>, 0, [i \in 1 .. 0 |-> 0])
  BY <1>1, <1>2 DEF KeptBy
<1>4. QED
  BY <1>3 DEF Kept

\* What is sent comes last (Send).
LEMMA KeptSent ==
    ASSUME NEW a \in Seq(Numbered), NEW q \in Seq(Numbered), NEW r \in Seq(Numbered),
           NEW x \in Numbered, Kept(a, q, r)
    PROVE  Kept(Append(a, x), Append(q, x), r)
<1>1. PICK c, f : KeptBy(a, q, r, c, f)
  BY DEF Kept
<1>2. PICK d \in Nat, h \in Nat, l \in Nat : d = c /\ h = Len(q) /\ l = Len(r) /\ Len(a) = d + h
  <2>1. c \in Nat /\ Len(q) \in Nat /\ Len(r) \in Nat /\ Len(a) = c + Len(q)
    BY <1>1 DEF KeptBy
  <2>2. QED
    BY <2>1
<1>3. /\ f \in [1 .. l -> 1 .. d]
      /\ \A i \in 1 .. h : q[i] = a[d + i]
      /\ \A i, j \in 1 .. l : i < j => f[i] < f[j]
      /\ \A i \in 1 .. l : r[i] = a[f[i]]
  BY <1>1, <1>2 DEF KeptBy
<1>4. /\ Len(Append(a, x)) = d + h + 1 /\ Append(a, x)[d + h + 1] = x
      /\ \A i \in 1 .. d + h : Append(a, x)[i] = a[i]
  BY <1>2
<1>5. /\ Len(Append(q, x)) = h + 1 /\ Append(q, x)[h + 1] = x
      /\ \A i \in 1 .. h : Append(q, x)[i] = q[i]
  BY <1>2
<1>6. ASSUME NEW i \in 1 .. h + 1 PROVE Append(q, x)[i] = Append(a, x)[d + i]
  <2>1. CASE i = h + 1
    <3>1. d + i = d + h + 1
      BY <2>1
    <3>2. QED
      BY <1>4, <1>5, <2>1, <3>1
  <2>2. CASE i \in 1 .. h
    <3>1. d + i \in 1 .. d + h
      BY <2>2
    <3>2. QED
      BY <1>3, <1>4, <1>5, <2>2, <3>1
  <2>3. i = h + 1 \/ i \in 1 .. h
    OBVIOUS
  <2>4. QED
    BY <2>1, <2>2, <2>3
<1>7. \A i \in 1 .. l : r[i] = Append(a, x)[f[i]]
  <2> TAKE i \in 1 .. l
  <2>1. f[i] \in 1 .. d /\ f[i] \in 1 .. d + h
    BY <1>3
  <2>2. QED
    BY <1>3, <1>4, <2>1
<1>8. Len(Append(a, x)) = d + Len(Append(q, x))
  BY <1>4, <1>5
<1>9. KeptBy(Append(a, x), Append(q, x), r, d, f)
  BY <1>2, <1>3, <1>5, <1>6, <1>7, <1>8 DEF KeptBy
<1>10. QED
  BY <1>9 DEF Kept

\* One that is taken is received next, or not at all (Recv).
LEMMA KeptTaken ==
    ASSUME NEW a \in Seq(Numbered), NEW q \in Seq(Numbered), NEW r \in Seq(Numbered),
           Kept(a, q, r), q # <<>>
    PROVE  Kept(a, Tail(q), r) /\ Kept(a, Tail(q), Append(r, Head(q)))
<1>1. PICK c, f : KeptBy(a, q, r, c, f)
  BY DEF Kept
<1>2. PICK h \in Nat : Len(q) = h + 1
  <2>1. Len(q) - 1 \in Nat /\ Len(q) = (Len(q) - 1) + 1
    OBVIOUS
  <2>2. QED
    BY <2>1
<1>3. PICK d \in Nat, l \in Nat : d = c /\ l = Len(r) /\ Len(a) = d + (h + 1)
  <2>1. c \in Nat /\ Len(r) \in Nat /\ Len(a) = c + (h + 1)
    BY <1>1, <1>2 DEF KeptBy
  <2>2. QED
    BY <2>1
<1>4. /\ f \in [1 .. l -> 1 .. d]
      /\ \A i \in 1 .. h + 1 : q[i] = a[d + i]
      /\ \A i, j \in 1 .. l : i < j => f[i] < f[j]
      /\ \A i \in 1 .. l : r[i] = a[f[i]]
  BY <1>1, <1>2, <1>3 DEF KeptBy
<1>5. /\ Len(Tail(q)) = h /\ Head(q) = q[1] /\ Head(q) \in Numbered
      /\ \A i \in 1 .. h : Tail(q)[i] = q[i + 1]
  BY <1>2
<1>6. Len(a) = (d + 1) + Len(Tail(q)) /\ d + 1 \in Nat
  BY <1>3, <1>5
<1>7. \A i \in 1 .. h : Tail(q)[i] = a[(d + 1) + i]
  <2> TAKE i \in 1 .. h
  <2>1. i + 1 \in 1 .. h + 1 /\ d + (i + 1) = (d + 1) + i
    OBVIOUS
  <2>2. QED
    BY <1>4, <1>5, <2>1
<1>8. Kept(a, Tail(q), r)
  <2>1. f \in [1 .. l -> 1 .. d + 1]
    BY <1>4
  <2>2. KeptBy(a, Tail(q), r, d + 1, f)
    BY <1>3, <1>4, <1>5, <1>6, <1>7, <2>1 DEF KeptBy
  <2>3. QED
    BY <2>2 DEF Kept
<1> DEFINE g == [i \in 1 .. l + 1 |-> IF i = l + 1 THEN d + 1 ELSE f[i]]
<1>9. /\ g \in [1 .. l + 1 -> 1 .. d + 1] /\ g[l + 1] = d + 1
      /\ \A i \in 1 .. l : g[i] = f[i] /\ f[i] \in 1 .. d
  BY <1>4
<1> HIDE DEF g
<1>10. /\ Len(Append(r, Head(q))) = l + 1 /\ Append(r, Head(q))[l + 1] = Head(q)
       /\ \A i \in 1 .. l : Append(r, Head(q))[i] = r[i]
  BY <1>3, <1>5
<1>11. ASSUME NEW i \in 1 .. l + 1, NEW j \in 1 .. l + 1, i < j PROVE g[i] < g[j]
  <2>1. i \in 1 .. l /\ (j = l + 1 \/ j \in 1 .. l)
    BY <1>11
  <2>2. CASE j = l + 1
    BY <1>9, <2>1, <2>2
  <2>3. CASE j \in 1 .. l
    BY <1>4, <1>9, <1>11, <2>1, <2>3
  <2>4. QED
    BY <2>1, <2>2, <2>3
<1>12. ASSUME NEW i \in 1 .. l + 1 PROVE Append(r, Head(q))[i] = a[g[i]]
  <2>1. CASE i = l + 1
    <3>1. Head(q) = a[d + 1]
      BY <1>4, <1>5
    <3>2. QED
      BY <1>9, <1>10, <2>1, <3>1
  <2>2. CASE i \in 1 .. l
    BY <1>4, <1>9, <1>10, <2>2
  <2>3. i = l + 1 \/ i \in 1 .. l
    OBVIOUS
  <2>4. QED
    BY <2>1, <2>2, <2>3
<1>13. KeptBy(a, Tail(q), Append(r, Head(q)), d + 1, g)
  BY <1>5, <1>6, <1>7, <1>9, <1>10, <1>11, <1>12 DEF KeptBy
<1>14. QED
  BY <1>8, <1>13 DEF Kept

\* A queue that is removed holds nothing (Close).
LEMMA KeptRemoved ==
    ASSUME NEW a \in Seq(Numbered), NEW q \in Seq(Numbered), NEW r \in Seq(Numbered), Kept(a, q, r)
    PROVE  Kept(a, <<>>, r)
<1>1. PICK c, f : KeptBy(a, q, r, c, f)
  BY DEF Kept
<1>2. PICK d \in Nat, n \in Nat, l \in Nat : d = c /\ n = Len(a) /\ l = Len(r) /\ d <= n
  <2>1. c \in Nat /\ Len(q) \in Nat /\ Len(a) \in Nat /\ Len(r) \in Nat /\ Len(a) = c + Len(q)
    BY <1>1 DEF KeptBy
  <2>2. c <= Len(a)
    BY <2>1
  <2>3. QED
    BY <2>1, <2>2
<1>3. /\ f \in [1 .. l -> 1 .. d]
      /\ \A i, j \in 1 .. l : i < j => f[i] < f[j]
      /\ \A i \in 1 .. l : r[i] = a[f[i]]
  BY <1>1, <1>2 DEF KeptBy
<1>4. f \in [1 .. l -> 1 .. n]
  BY <1>2, <1>3
<1>5. Len(a) = n + Len(<<>>) /\ Len(<<>>) = 0
  BY <1>2
<1>6. KeptBy(a, <<>>, r, n, f)
  BY <1>2, <1>3, <1>4, <1>5 DEF KeptBy
<1>7. QED
  BY <1>6 DEF Kept

\* Messages are numbered and hold their size.
LEMMA MessagesAreNumbered ==
    ASSUME QueueTypes, NEW o \in Objects
    PROVE  [n |-> sends + 1, size |-> SizeOf[o]] \in Numbered
<1>1. sends + 1 \in Nat /\ SizeOf[o] \in Nat
  BY QueuesAssumption DEF QueueTypes
<1>2. QED
  BY <1>1 DEF Numbered

\* A step changes at most one of the queues, in one of the ways above.
LEMMA QueueChanged ==
    ASSUME QueueInv, NEW k \in DOMAIN keyOf, UNCHANGED keyOf,
           NEW a \in Seq(Numbered), NEW q \in Seq(Numbered), NEW r \in Seq(Numbered), Kept(a, q, r),
           accepted' = [accepted EXCEPT ![k] = a], content' = [content EXCEPT ![k] = q],
           received' = [received EXCEPT ![k] = r],
           id' \in [Objects -> Nat], sends' \in Nat, live' \subseteq DOMAIN keyOf
    PROVE  QueueInv'
<1>1. PICK n \in Nat : n = Len(keyOf) /\ DOMAIN keyOf = 1 .. n /\ Len(content) = n
                       /\ Len(accepted) = n /\ Len(received) = n
  BY DEF QueueInv, QueueTypes
<1>2. /\ {content, accepted, received} \subseteq Seq(Seq(Numbered))
      /\ DOMAIN content = 1 .. n /\ DOMAIN accepted = 1 .. n /\ DOMAIN received = 1 .. n
  BY <1>1 DEF QueueInv, QueueTypes
<1>3. ASSUME NEW s, s \in Seq(Seq(Numbered)), NEW e \in Seq(Numbered), Len(s) = n
      PROVE  /\ [s EXCEPT ![k] = e] \in Seq(Seq(Numbered)) /\ Len([s EXCEPT ![k] = e]) = n
             /\ [s EXCEPT ![k] = e][k] = e
             /\ \A i \in 1 .. n : i # k => [s EXCEPT ![k] = e][i] = s[i]
  BY <1>1, <1>3
<1>4. /\ content' \in Seq(Seq(Numbered)) /\ Len(content') = n /\ content'[k] = q
      /\ \A i \in 1 .. n : i # k => content'[i] = content[i]
  BY <1>1, <1>2, <1>3
<1>5. /\ accepted' \in Seq(Seq(Numbered)) /\ Len(accepted') = n /\ accepted'[k] = a
      /\ \A i \in 1 .. n : i # k => accepted'[i] = accepted[i]
  BY <1>1, <1>2, <1>3
<1>6. /\ received' \in Seq(Seq(Numbered)) /\ Len(received') = n /\ received'[k] = r
      /\ \A i \in 1 .. n : i # k => received'[i] = received[i]
  BY <1>1, <1>2, <1>3
<1>7. ASSUME NEW i \in 1 .. n PROVE Kept(accepted'[i], content'[i], received'[i])
  <2>1. CASE i = k
    BY <1>4, <1>5, <1>6, <2>1
  <2>2. CASE i # k
    BY <1>1, <1>4, <1>5, <1>6, <2>2 DEF QueueInv
  <2>3. QED
    BY <2>1, <2>2
<1>8. QueueTypes'
  BY <1>1, <1>4, <1>5, <1>6 DEF QueueInv, QueueTypes, Queue!Key
<1>9. \A i \in DOMAIN keyOf' : Kept(accepted'[i], content'[i], received'[i])
  BY <1>1, <1>7
<1>10. QED
  BY <1>8, <1>9 DEF QueueInv

\* create(): a queue of its own key, one that is made, or none
LEMMA QueueCreate ==
    ASSUME QueueInv, NEW o \in Objects, Queue!CreateFinds(o) \/ Queue!CreateMakes(o)
                                            \/ Queue!CreateFails(o)
    PROVE  QueueInv'
<1>1. CASE Queue!CreateFinds(o) \/ Queue!CreateFails(o)
  <2>1. UNCHANGED <<keyOf, live, content, sends, accepted, received>>
    BY <1>1 DEF Queue!CreateFinds, Queue!CreateFails, Queue!kernel
  <2>2. id' \in [Objects -> Nat]
    <3>1. CASE Queue!CreateFails(o)
      BY <3>1 DEF Queue!CreateFails, QueueInv, QueueTypes
    <3>2. CASE Queue!CreateFinds(o)
      <4>1. PICK k \in live : id' = [id EXCEPT ![o] = k]
        BY <3>2 DEF Queue!CreateFinds
      <4>2. k \in Nat
        BY DEF QueueInv, QueueTypes
      <4>3. QED
        BY <4>1, <4>2 DEF QueueInv, QueueTypes
    <3>3. QED
      BY <1>1, <3>1, <3>2
  <2>3. QED
    BY <2>1, <2>2 DEF QueueInv, QueueTypes, Queue!Key
<1>2. CASE Queue!CreateMakes(o)
  <2>1. /\ keyOf' = Append(keyOf, Queue!Key(o)) /\ live' = live \cup {Len(keyOf) + 1}
        /\ content' = Append(content, <<>>) /\ accepted' = Append(accepted, <<>>)
        /\ received' = Append(received, <<>>) /\ id' = [id EXCEPT ![o] = Len(keyOf) + 1]
        /\ sends' = sends
    BY <1>2 DEF Queue!CreateMakes
  <2>2. PICK n \in Nat : n = Len(keyOf) /\ DOMAIN keyOf = 1 .. n /\ Len(content) = n
                         /\ Len(accepted) = n /\ Len(received) = n
    BY DEF QueueInv, QueueTypes
  <2>3. ASSUME NEW s, s \in Seq(Seq(Numbered)), Len(s) = n
        PROVE  /\ Append(s, <<>>) \in Seq(Seq(Numbered)) /\ Len(Append(s, <<>>)) = n + 1
               /\ Append(s, <<>>)[n + 1] = <<>> /\ \A i \in 1 .. n : Append(s, <<>>)[i] = s[i]
    <3>1. <<>> \in Seq(Numbered)
      OBVIOUS
    <3>2. QED
      BY <2>3, <3>1
  <2>4. {content, accepted, received} \subseteq Seq(Seq(Numbered))
    BY DEF QueueInv, QueueTypes
  <2>5. /\ content' \in Seq(Seq(Numbered)) /\ Len(content') = n + 1 /\ content'[n + 1] = <<>>
        /\ \A i \in 1 .. n : content'[i] = content[i]
    BY <2>1, <2>2, <2>3, <2>4
  <2>6. /\ accepted' \in Seq(Seq(Numbered)) /\ Len(accepted') = n + 1 /\ accepted'[n + 1] = <<>>
        /\ \A i \in 1 .. n : accepted'[i] = accepted[i]
    BY <2>1, <2>2, <2>3, <2>4
  <2>7. /\ received' \in Seq(Seq(Numbered)) /\ Len(received') = n + 1 /\ received'[n + 1] = <<>>
        /\ \A i \in 1 .. n : received'[i] = received[i]
    BY <2>1, <2>2, <2>3, <2>4
  <2>8. /\ keyOf' \in Seq({Queue!Key(p) : p \in Objects}) /\ Len(keyOf') = n + 1
        /\ DOMAIN keyOf' = 1 .. (n + 1)
    <3>1. /\ keyOf \in Seq({Queue!Key(p) : p \in Objects})
          /\ Queue!Key(o) \in {Queue!Key(p) : p \in Objects}
      BY DEF QueueInv, QueueTypes
    <3>2. QED
      BY <2>1, <2>2, <3>1
  <2>9. ASSUME NEW i \in 1 .. (n + 1) PROVE Kept(accepted'[i], content'[i], received'[i])
    <3>1. CASE i = n + 1
      BY <2>5, <2>6, <2>7, <3>1, KeptMade
    <3>2. CASE i \in 1 .. n
      BY <2>2, <2>5, <2>6, <2>7, <3>2 DEF QueueInv
    <3>3. i = n + 1 \/ i \in 1 .. n
      OBVIOUS
    <3>4. QED
      BY <3>1, <3>2, <3>3
  <2>10. id' \in [Objects -> Nat] /\ live' \subseteq 1 .. (n + 1) /\ sends' \in Nat
    BY <2>1, <2>2 DEF QueueInv, QueueTypes
  <2>11. {Queue!Key(p) : p \in Objects}' = {Queue!Key(p) : p \in Objects}
    BY DEF Queue!Key
  <2>12. QueueTypes'
    BY <2>5, <2>6, <2>7, <2>8, <2>10, <2>11 DEF QueueTypes
  <2>13. QED
    BY <2>8, <2>9, <2>12 DEF QueueInv
<1>3. QED
  BY <1>1, <1>2

\* Each step of the queues keeps it.
LEMMA QueueStep ==
    ASSUME QueueInv, Queue!Next \/ UNCHANGED queueVars
    PROVE  QueueInv'
<1>1. /\ id \in [Objects -> Nat] /\ sends \in Nat /\ live \subseteq DOMAIN keyOf
      /\ DOMAIN content = DOMAIN keyOf /\ DOMAIN accepted = DOMAIN keyOf
      /\ DOMAIN received = DOMAIN keyOf
      /\ {content, accepted, received} \subseteq Seq(Seq(Numbered))
  BY DEF QueueInv, QueueTypes
<1>2. ASSUME NEW k \in DOMAIN keyOf
      PROVE  /\ content[k] \in Seq(Numbered) /\ accepted[k] \in Seq(Numbered)
             /\ received[k] \in Seq(Numbered) /\ Kept(accepted[k], content[k], received[k])
  BY <1>1 DEF QueueInv
<1>3. ASSUME NEW o \in Objects, Queue!Send(o) PROVE QueueInv'
  <2> DEFINE k == id[o]
             x == [n |-> sends + 1, size |-> SizeOf[o]]
  <2>1. /\ k \in live /\ sends' = sends + 1 /\ UNCHANGED <<id, keyOf, live, received>>
        /\ content' = [content EXCEPT ![k] = Append(content[k], x)]
        /\ accepted' = [accepted EXCEPT ![k] = Append(accepted[k], x)]
    BY <1>3 DEF Queue!Send
  <2>2. x \in Numbered
    BY MessagesAreNumbered DEF QueueInv
  <2> HIDE DEF x
  <2>3. received' = [received EXCEPT ![k] = received[k]]
    BY <1>1, <2>1
  <2>4. /\ Append(content[k], x) \in Seq(Numbered) /\ Append(accepted[k], x) \in Seq(Numbered)
        /\ Kept(Append(accepted[k], x), Append(content[k], x), received[k])
    <3>1. /\ accepted[k] \in Seq(Numbered) /\ content[k] \in Seq(Numbered)
          /\ received[k] \in Seq(Numbered) /\ Kept(accepted[k], content[k], received[k])
      BY <1>1, <1>2, <2>1
    <3>2. QED
      BY <2>2, <3>1, KeptSent
  <2>5. /\ k \in DOMAIN keyOf /\ sends' \in Nat /\ id' \in [Objects -> Nat]
        /\ live' \subseteq DOMAIN keyOf /\ UNCHANGED keyOf
    BY <1>1, <2>1
  <2>6. received[k] \in Seq(Numbered)
    BY <1>2, <2>5
  <2>7. QED
    BY <2>1, <2>3, <2>4, <2>5, <2>6, QueueChanged
<1>4. ASSUME NEW o \in Objects, Queue!Recv(o) PROVE QueueInv'
  <2> DEFINE k == id[o]
  <2>1. /\ k \in live /\ content[k] # <<>> /\ UNCHANGED <<id, keyOf, live, sends, accepted>>
        /\ content' = [content EXCEPT ![k] = Tail(content[k])]
        /\ \/ received' = [received EXCEPT ![k] = Append(received[k], Head(content[k]))]
           \/ received' = received
    BY <1>4 DEF Queue!Recv
  <2>2. PICK r : /\ r = received[k] \/ r = Append(received[k], Head(content[k]))
                 /\ received' = [received EXCEPT ![k] = r]
    <3>1. received = [received EXCEPT ![k] = received[k]]
      BY <1>1
    <3>2. CASE received' = received
      BY <3>1, <3>2
    <3>3. CASE received' = [received EXCEPT ![k] = Append(received[k], Head(content[k]))]
      BY <3>3
    <3>4. QED
      BY <2>1, <3>2, <3>3
  <2>3. accepted' = [accepted EXCEPT ![k] = accepted[k]]
    BY <1>1, <2>1
  <2>4. /\ Tail(content[k]) \in Seq(Numbered) /\ Head(content[k]) \in Numbered
        /\ r \in Seq(Numbered)
    <3>1. content[k] \in Seq(Numbered) /\ received[k] \in Seq(Numbered)
      BY <1>1, <1>2, <2>1
    <3>2. Tail(content[k]) \in Seq(Numbered) /\ Head(content[k]) \in Numbered
      BY <2>1, <3>1
    <3>3. Append(received[k], Head(content[k])) \in Seq(Numbered)
      BY <3>1, <3>2
    <3>4. QED
      BY <2>2, <3>1, <3>2, <3>3
  <2>5. Kept(accepted[k], Tail(content[k]), r)
    <3>1. /\ accepted[k] \in Seq(Numbered) /\ content[k] \in Seq(Numbered)
          /\ received[k] \in Seq(Numbered) /\ Kept(accepted[k], content[k], received[k])
          /\ content[k] # <<>>
      BY <1>1, <1>2, <2>1
    <3>2. /\ Kept(accepted[k], Tail(content[k]), received[k])
          /\ Kept(accepted[k], Tail(content[k]), Append(received[k], Head(content[k])))
      BY <3>1, KeptTaken
    <3>3. QED
      BY <2>2, <3>2
  <2>6. QED
    BY <1>1, <1>2, <2>1, <2>2, <2>3, <2>4, <2>5, QueueChanged
<1>5. ASSUME NEW o \in Objects, Queue!Close(o) PROVE QueueInv'
  <2> DEFINE k == id[o]
  <2>1. /\ k \in live /\ UNCHANGED <<id, keyOf, sends, accepted, received>>
        /\ live' = live \ {k} /\ content' = [content EXCEPT ![k] = <<>>]
    BY <1>5 DEF Queue!Close
  <2>2. /\ accepted' = [accepted EXCEPT ![k] = accepted[k]]
        /\ received' = [received EXCEPT ![k] = received[k]]
    BY <1>1, <2>1
  <2>3. <<>> \in Seq(Numbered) /\ Kept(accepted[k], <<>>, received[k])
    <3>1. /\ accepted[k] \in Seq(Numbered) /\ content[k] \in Seq(Numbered)
          /\ received[k] \in Seq(Numbered) /\ Kept(accepted[k], content[k], received[k])
      BY <1>1, <1>2, <2>1
    <3>2. QED
      BY <3>1, KeptRemoved
  <2>4. QED
    BY <1>1, <1>2, <2>1, <2>2, <2>3, QueueChanged
<1>6. ASSUME NEW o \in Objects, Queue!SendFails(o) PROVE QueueInv'
  BY <1>6 DEF Queue!SendFails, Queue!kernel, QueueInv, QueueTypes, Queue!Key
<1>7. CASE UNCHANGED queueVars
  BY <1>7 DEF queueVars, QueueInv, QueueTypes, Queue!Key
<1>8. QED
  BY <1>3, <1>4, <1>5, <1>6, <1>7, QueueCreate DEF Queue!Next

-----------------------------------------------------------------------------
(* The receive loop of AsyncUdp                                            *)

Reads == {"copy", "call"}
Places == {"none", "armed", "return", "error", "aborted", "ended"} \cup Reads
Given == {given[k][1] : k \in DOMAIN given}

\* What a loop that is about to call onReceive holds is the latest datagram.
InBuffer == IF \E l \in Loops : lpc[l] \in Reads THEN {buffer} ELSE {}

DatagramTypes ==
    /\ buffer \in Nat /\ sender = buffer /\ arrived \in Nat /\ wire \in Seq(Nat)
    /\ lpc \in [Loops -> Places] /\ copy \in [Loops -> Nat]
    /\ given \in Seq(Nat \X Nat)

\* Datagrams come in the order of their numbers: what was given, the one in the
\* buffer, and those that wait.
DatagramOrder ==
    /\ \A i \in DOMAIN wire : buffer < wire[i] /\ wire[i] <= arrived
    /\ \A i, j \in DOMAIN wire : i < j => wire[i] < wire[j]
    /\ buffer <= arrived
    /\ \A l \in Loops : lpc[l] = "call" => copy[l] = buffer
    /\ \A i \in DOMAIN given : given[i][1] = given[i][2] /\ given[i][1] <= buffer
    /\ \A i \in DOMAIN given, l \in Loops : lpc[l] \in Reads => given[i][1] < buffer
    /\ \A i, j \in DOMAIN given : i < j => given[i][1] < given[j][1]

\* Each that has arrived waits, is held, was lost, or was given.
Accounted == 1 .. arrived = Udp!ToSet(wire) \cup InBuffer \cup lost \cup Given

UdpInv == DatagramTypes /\ DatagramOrder /\ Accounted

\* Of AsyncUdp one receive() is asked of the user (AsyncUdp.hpp:48).
OneLoop == \A l1, l2 \in Loops : l1 = l2

\* A step that leaves the datagrams alone and begins or ends nothing that reads one,
\* or copies it
LEMMA LoopMoves ==
    ASSUME UdpInv, UNCHANGED <<wire, arrived, buffer, sender, given, lost>>,
           lpc' \in [Loops -> Places], copy' \in [Loops -> Nat],
           \A l \in Loops : /\ lpc'[l] \in Reads <=> lpc[l] \in Reads
                            /\ lpc'[l] = "call" => copy'[l] = buffer
    PROVE  UdpInv'
<1>1. InBuffer' = InBuffer /\ Given' = Given
  BY DEF InBuffer, Given
<1>2. DatagramTypes'
  BY DEF UdpInv, DatagramTypes
<1>3. DatagramOrder'
  BY DEF UdpInv, DatagramOrder
<1>4. Accounted'
  BY <1>1 DEF UdpInv, Accounted, Udp!ToSet
<1>5. QED
  BY <1>2, <1>3, <1>4 DEF UdpInv

\* close() and the destructor: what waits is lost, and a loop that waits aborted.
LEMMA UdpCloses ==
    ASSUME UdpInv, Udp!Close \/ Udp!Destroy
    PROVE  UdpInv'
<1>1. /\ wire' = <<>> /\ lost' = lost \cup Udp!ToSet(wire)
      /\ UNCHANGED <<arrived, buffer, sender, copy, given>>
      /\ lpc' = [l \in Loops |-> IF lpc[l] = "armed" THEN "aborted" ELSE lpc[l]]
  BY DEF Udp!Close, Udp!Destroy, Udp!Closed
<1>2. \A l \in Loops : /\ lpc'[l] \in Reads <=> lpc[l] \in Reads
                       /\ lpc'[l] = "call" <=> lpc[l] = "call"
  BY <1>1 DEF Reads
<1>3. InBuffer' = InBuffer /\ Given' = Given
  BY <1>1, <1>2 DEF InBuffer, Given
<1>4. DatagramTypes'
  <2>1. wire' \in Seq(Nat)
    BY <1>1
  <2>2. lpc' \in [Loops -> Places]
    BY <1>1 DEF UdpInv, DatagramTypes, Places
  <2>3. QED
    BY <1>1, <2>1, <2>2 DEF UdpInv, DatagramTypes
<1>5. DatagramOrder'
  BY <1>1, <1>2 DEF UdpInv, DatagramOrder
<1>6. Accounted'
  <2>1. Udp!ToSet(wire') = {}
    BY <1>1 DEF Udp!ToSet
  <2>2. 1 .. arrived' = Udp!ToSet(wire') \cup InBuffer' \cup lost' \cup Given'
    BY <1>1, <1>3, <2>1 DEF UdpInv, Accounted
  <2>3. QED
    BY <2>2 DEF Accounted, Udp!ToSet
<1>7. QED
  BY <1>4, <1>5, <1>6 DEF UdpInv

\* A datagram arrives and comes last.
LEMMA UdpArrives ==
    ASSUME UdpInv, Udp!Arrive
    PROVE  UdpInv'
<1>1. /\ arrived' = arrived + 1 /\ wire' = Append(wire, arrived + 1)
      /\ UNCHANGED <<buffer, sender, lpc, copy, given, lost>>
  BY DEF Udp!Arrive, Udp!loopVars
<1>2. PICK n \in Nat : n = Len(wire) /\ DOMAIN wire = 1 .. n
  BY DEF UdpInv, DatagramTypes
<1>3. /\ wire' \in Seq(Nat) /\ DOMAIN wire' = 1 .. (n + 1) /\ wire'[n + 1] = arrived + 1
      /\ \A i \in 1 .. n : wire'[i] = wire[i] /\ wire[i] \in Nat
      /\ arrived \in Nat /\ buffer \in Nat
  BY <1>1, <1>2 DEF UdpInv, DatagramTypes
<1>4. \A i \in 1 .. n : buffer < wire[i] /\ wire[i] <= arrived
  BY <1>2 DEF UdpInv, DatagramOrder
<1>5. InBuffer' = InBuffer /\ Given' = Given
  BY <1>1 DEF InBuffer, Given
<1>6. DatagramTypes'
  BY <1>1, <1>3 DEF UdpInv, DatagramTypes
<1>7. DatagramOrder'
  <2>1. \A i \in DOMAIN wire' : buffer < wire'[i] /\ wire'[i] <= arrived + 1
    <3> SUFFICES ASSUME NEW i \in 1 .. (n + 1) PROVE buffer < wire'[i] /\ wire'[i] <= arrived + 1
      BY <1>3
    <3>1. CASE i = n + 1
      BY <1>3, <3>1 DEF UdpInv, DatagramOrder
    <3>2. CASE i \in 1 .. n
      <4>1. wire'[i] = wire[i] /\ wire[i] \in Nat /\ buffer < wire[i] /\ wire[i] <= arrived
        BY <1>3, <1>4, <3>2
      <4>2. QED
        BY <1>3, <4>1
    <3>3. i = n + 1 \/ i \in 1 .. n
      OBVIOUS
    <3>4. QED
      BY <3>1, <3>2, <3>3
  <2>2. \A i, j \in DOMAIN wire' : i < j => wire'[i] < wire'[j]
    <3> SUFFICES ASSUME NEW i \in 1 .. (n + 1), NEW j \in 1 .. (n + 1), i < j
                 PROVE  wire'[i] < wire'[j]
      BY <1>3
    <3>1. i \in 1 .. n /\ (j = n + 1 \/ j \in 1 .. n)
      OBVIOUS
    <3>2. CASE j = n + 1
      BY <1>3, <1>4, <3>1, <3>2
    <3>3. CASE j \in 1 .. n
      BY <1>2, <1>3, <3>1, <3>3 DEF UdpInv, DatagramOrder
    <3>4. QED
      BY <3>1, <3>2, <3>3
  <2>3. buffer <= arrived + 1
    BY <1>3 DEF UdpInv, DatagramOrder
  <2>4. QED
    BY <1>1, <2>1, <2>2, <2>3 DEF UdpInv, DatagramOrder
<1>8. Accounted'
  <2>1. Udp!ToSet(wire') = Udp!ToSet(wire) \cup {arrived + 1}
    BY <1>2, <1>3 DEF Udp!ToSet
  <2>2. 1 .. arrived + 1 = 1 .. arrived \cup {arrived + 1}
    BY <1>3
  <2>3. 1 .. arrived' = Udp!ToSet(wire') \cup InBuffer' \cup lost' \cup Given'
    BY <1>1, <1>5, <2>1, <2>2 DEF UdpInv, Accounted
  <2>4. QED
    BY <2>3 DEF Accounted, Udp!ToSet
<1>9. QED
  BY <1>6, <1>7, <1>8 DEF UdpInv

\* The loop, which held none, takes the first of those that wait.
LEMMA UdpCompletes ==
    ASSUME UdpInv, OneLoop, NEW l \in Loops, Udp!Complete(l)
    PROVE  UdpInv'
<1>1. /\ lpc[l] = "armed" /\ wire # <<>> /\ wire' = Tail(wire) /\ buffer' = Head(wire)
      /\ sender' = Head(wire) /\ lpc' = [lpc EXCEPT ![l] = "copy"]
      /\ UNCHANGED <<arrived, copy, given, lost>>
  BY DEF Udp!Complete
<1>2. PICK n \in Nat : Len(wire) = n + 1 /\ DOMAIN wire = 1 .. (n + 1)
  <2>1. wire \in Seq(Nat)
    BY DEF UdpInv, DatagramTypes
  <2>2. Len(wire) - 1 \in Nat /\ Len(wire) = (Len(wire) - 1) + 1
    BY <1>1, <2>1
  <2>3. PICK n \in Nat : Len(wire) = n + 1
    BY <2>2
  <2>4. DOMAIN wire = 1 .. (n + 1)
    BY <2>1, <2>3
  <2>5. QED
    BY <2>3, <2>4
<1>3. /\ wire \in Seq(Nat) /\ wire' \in Seq(Nat) /\ DOMAIN wire' = 1 .. n
      /\ buffer' = wire[1] /\ wire[1] \in Nat
      /\ \A i \in 1 .. n : wire'[i] = wire[i + 1] /\ i + 1 \in 1 .. (n + 1)
  BY <1>1, <1>2 DEF UdpInv, DatagramTypes
<1>4. Loops = {l} /\ lpc'[l] = "copy" /\ lpc' \in [Loops -> Places]
  <2>1. Loops = {l}
    BY DEF OneLoop
  <2>2. lpc \in [Loops -> Places] /\ "copy" \in Places
    BY DEF UdpInv, DatagramTypes, Places, Reads
  <2>3. QED
    BY <1>1, <2>1, <2>2
<1>5. buffer < wire[1] /\ wire[1] <= arrived
  BY <1>2 DEF UdpInv, DatagramOrder
<1>6. InBuffer = {} /\ InBuffer' = {wire[1]} /\ Given' = Given
  BY <1>1, <1>3, <1>4 DEF InBuffer, Given, Reads
<1>7. DatagramTypes'
  BY <1>1, <1>3, <1>4 DEF UdpInv, DatagramTypes
<1>8. DatagramOrder'
  <2>1. \A i \in 1 .. n : wire[1] < wire'[i] /\ wire'[i] <= arrived
    <3> TAKE i \in 1 .. n
    <3>1. i + 1 \in DOMAIN wire /\ 1 \in DOMAIN wire /\ 1 < i + 1
      BY <1>2
    <3>2. QED
      BY <1>3, <3>1 DEF UdpInv, DatagramOrder
  <2>2. \A i, j \in 1 .. n : i < j => wire'[i] < wire'[j]
    <3> TAKE i, j \in 1 .. n
    <3>1. i + 1 \in DOMAIN wire /\ j + 1 \in DOMAIN wire /\ (i < j => i + 1 < j + 1)
      BY <1>2
    <3>2. QED
      BY <1>3, <3>1 DEF UdpInv, DatagramOrder
  <2>3. \A i \in DOMAIN given : given[i][1] = given[i][2] /\ given[i][1] < wire[1]
    <3> TAKE i \in DOMAIN given
    <3>1. given[i][1] = given[i][2] /\ given[i][1] <= buffer /\ given[i] \in Nat \X Nat
      BY DEF UdpInv, DatagramOrder, DatagramTypes
    <3>2. buffer \in Nat /\ given[i][1] \in Nat
      BY <3>1 DEF UdpInv, DatagramTypes
    <3>3. QED
      BY <1>3, <1>5, <3>1, <3>2
  <2>4. \A i \in DOMAIN given : given[i][1] <= wire[1]
    <3> TAKE i \in DOMAIN given
    <3>1. given[i] \in Nat \X Nat
      BY DEF UdpInv, DatagramTypes
    <3>2. given[i][1] \in Nat
      BY <3>1
    <3>3. QED
      BY <1>3, <2>3, <3>2
  <2>5. \A k \in Loops : lpc'[k] # "call"
    BY <1>4
  <2>6. \A i, j \in DOMAIN given : i < j => given[i][1] < given[j][1]
    BY DEF UdpInv, DatagramOrder
  <2>7. QED
    BY <1>1, <1>3, <1>5, <2>1, <2>2, <2>3, <2>4, <2>5, <2>6 DEF DatagramOrder
<1>9. Accounted'
  <2>1. Udp!ToSet(wire) = {wire[1]} \cup Udp!ToSet(wire')
    <3>1. \A i \in 1 .. (n + 1) : wire[i] = wire[1] \/ \E j \in 1 .. n : wire[i] = wire'[j]
      <4> TAKE i \in 1 .. (n + 1)
      <4>1. i = 1 \/ (i - 1 \in 1 .. n /\ (i - 1) + 1 = i)
        OBVIOUS
      <4>2. QED
        BY <1>3, <4>1
    <3>2. \A j \in 1 .. n : \E i \in 1 .. (n + 1) : wire[i] = wire'[j]
      BY <1>3
    <3>3. 1 \in 1 .. (n + 1)
      OBVIOUS
    <3>4. /\ Udp!ToSet(wire) = {wire[i] : i \in 1 .. (n + 1)}
          /\ Udp!ToSet(wire') = {wire'[j] : j \in 1 .. n}
      BY <1>2, <1>3 DEF Udp!ToSet
    <3>5. {wire[i] : i \in 1 .. (n + 1)} = {wire[1]} \cup {wire'[j] : j \in 1 .. n}
      BY <3>1, <3>2, <3>3
    <3>6. QED
      BY <3>4, <3>5
  <2>2. 1 .. arrived' = Udp!ToSet(wire') \cup InBuffer' \cup lost' \cup Given'
    BY <1>1, <1>6, <2>1 DEF UdpInv, Accounted
  <2>3. QED
    BY <2>2 DEF Accounted, Udp!ToSet
<1>10. QED
  BY <1>7, <1>8, <1>9 DEF UdpInv

\* onReceive is passed the copy of the datagram in the buffer, and its sender.
LEMMA UdpGives ==
    ASSUME UdpInv, OneLoop, NEW l \in Loops, Udp!OnReceive(l)
    PROVE  UdpInv'
<1>1. /\ lpc[l] = "call" /\ given' = Append(given, <<copy[l], sender>>)
      /\ lpc' = [lpc EXCEPT ![l] = "return"]
      /\ UNCHANGED <<wire, arrived, buffer, sender, copy, lost>>
  BY DEF Udp!OnReceive
<1>2. copy[l] = buffer /\ sender = buffer /\ buffer \in Nat /\ given \in Seq(Nat \X Nat)
  BY <1>1 DEF UdpInv, DatagramTypes, DatagramOrder
<1>3. PICK n \in Nat : n = Len(given) /\ DOMAIN given = 1 .. n
  BY <1>2
<1>4. /\ given' \in Seq(Nat \X Nat) /\ DOMAIN given' = 1 .. (n + 1)
      /\ given'[n + 1] = <<buffer, buffer>> /\ \A i \in 1 .. n : given'[i] = given[i]
  BY <1>1, <1>2, <1>3
<1>5. Loops = {l} /\ lpc'[l] = "return" /\ lpc' \in [Loops -> Places]
  <2>1. Loops = {l}
    BY DEF OneLoop
  <2>2. lpc \in [Loops -> Places] /\ "return" \in Places
    BY DEF UdpInv, DatagramTypes, Places, Reads
  <2>3. QED
    BY <1>1, <2>1, <2>2
<1>6. InBuffer = {buffer} /\ InBuffer' = {}
  BY <1>1, <1>5 DEF InBuffer, Reads
<1>7. \A i \in 1 .. n : given[i][1] \in Nat /\ given[i][1] < buffer /\ given[i][1] = given[i][2]
  <2> TAKE i \in 1 .. n
  <2>1. given[i] \in Nat \X Nat
    BY <1>2, <1>3
  <2>2. QED
    BY <1>1, <1>3, <2>1 DEF UdpInv, DatagramOrder, Reads
<1>8. DatagramTypes'
  BY <1>1, <1>4, <1>5 DEF UdpInv, DatagramTypes
<1>9. DatagramOrder'
  <2>1. \A i \in 1 .. (n + 1) : given'[i][1] = given'[i][2] /\ given'[i][1] <= buffer
    <3> TAKE i \in 1 .. (n + 1)
    <3>1. i = n + 1 \/ i \in 1 .. n
      OBVIOUS
    <3>2. CASE i = n + 1
      BY <1>2, <1>4, <3>2
    <3>3. CASE i \in 1 .. n
      <4>1. given'[i] = given[i] /\ given[i][1] \in Nat /\ given[i][1] < buffer
            /\ given[i][1] = given[i][2]
        BY <1>4, <1>7, <3>3
      <4>2. given[i][1] <= buffer
        BY <1>2, <4>1
      <4>3. QED
        BY <4>1, <4>2
    <3>4. QED
      BY <3>1, <3>2, <3>3
  <2>2. \A i, j \in 1 .. (n + 1) : i < j => given'[i][1] < given'[j][1]
    <3> TAKE i, j \in 1 .. (n + 1)
    <3> HAVE i < j
    <3>1. i \in 1 .. n /\ (j = n + 1 \/ j \in 1 .. n)
      OBVIOUS
    <3>2. CASE j = n + 1
      BY <1>4, <1>7, <3>1, <3>2
    <3>3. CASE j \in 1 .. n
      BY <1>3, <1>4, <3>1, <3>3 DEF UdpInv, DatagramOrder
    <3>4. QED
      BY <3>1, <3>2, <3>3
  <2>3. \A k \in Loops : lpc'[k] \notin Reads /\ lpc'[k] # "call"
    BY <1>5 DEF Reads
  <2>4. QED
    BY <1>1, <1>4, <2>1, <2>2, <2>3 DEF UdpInv, DatagramOrder
<1>10. Accounted'
  <2>1. Given' = Given \cup {buffer}
    <3>1. Given' = {given'[k][1] : k \in 1 .. (n + 1)} /\ Given = {given[k][1] : k \in 1 .. n}
      BY <1>3, <1>4 DEF Given
    <3>2. \A k \in 1 .. (n + 1) : k = n + 1 \/ k \in 1 .. n
      OBVIOUS
    <3>3. n + 1 \in 1 .. (n + 1) /\ \A k \in 1 .. n : k \in 1 .. (n + 1)
      OBVIOUS
    <3>4. given'[n + 1][1] = buffer /\ \A k \in 1 .. n : given'[k][1] = given[k][1]
      BY <1>4
    <3>5. QED
      BY <3>1, <3>2, <3>3, <3>4
  <2>2. 1 .. arrived' = Udp!ToSet(wire') \cup InBuffer' \cup lost' \cup Given'
    BY <1>1, <1>6, <2>1 DEF UdpInv, Accounted
  <2>3. QED
    BY <2>2 DEF Accounted, Udp!ToSet
<1>11. QED
  BY <1>8, <1>9, <1>10 DEF UdpInv

\* Each step of the sockets keeps it.
LEMMA UdpStep ==
    ASSUME UdpInv, OneLoop, Udp!Next \/ UNCHANGED udpVars
    PROVE  UdpInv'
<1>1. lpc \in [Loops -> Places] /\ copy \in [Loops -> Nat] /\ buffer \in Nat
      /\ \A l \in Loops : lpc[l] = "call" => copy[l] = buffer
  BY DEF UdpInv, DatagramTypes, DatagramOrder
<1>2. CASE \/ Udp!Open \/ UNCHANGED udpVars
           \/ \E k \in Sends : Udp!Send(k) \/ Udp!Sent(k) \/ Udp!Told(k)
  <2>1. UNCHANGED <<wire, arrived, buffer, sender, given, lost, lpc, copy>>
    BY <1>2 DEF Udp!Open, Udp!Send, Udp!Sent, Udp!Told, Udp!loopVars, udpVars
  <2>2. QED
    BY <1>1, <2>1, LoopMoves
<1>3. ASSUME NEW l \in Loops,
             Udp!Receive(l) \/ Udp!Fail(l) \/ Udp!Rearm(l) \/ Udp!End(l)
      PROVE  UdpInv'
  <2>1. PICK s \in {"armed", "error", "ended"} :
            /\ lpc' = [lpc EXCEPT ![l] = s] /\ lpc[l] \notin Reads
            /\ UNCHANGED <<wire, arrived, buffer, sender, given, lost, copy>>
    BY <1>3 DEF Udp!Receive, Udp!Fail, Udp!Rearm, Udp!End, Udp!Begun, Reads
  <2>2. \A k \in Loops : /\ lpc'[k] \in Reads <=> lpc[k] \in Reads
                         /\ lpc'[k] = "call" => copy'[k] = buffer
    BY <1>1, <2>1 DEF Reads
  <2>3. lpc' \in [Loops -> Places]
    BY <1>1, <2>1 DEF Places
  <2>4. QED
    BY <1>1, <2>1, <2>2, <2>3, LoopMoves
<1>4. ASSUME NEW l \in Loops, Udp!Copy(l) PROVE UdpInv'
  <2>1. /\ lpc[l] = "copy" /\ lpc' = [lpc EXCEPT ![l] = "call"]
        /\ copy' = [copy EXCEPT ![l] = buffer]
        /\ UNCHANGED <<wire, arrived, buffer, sender, given, lost>>
    BY <1>4 DEF Udp!Copy
  <2>2. \A k \in Loops : /\ lpc'[k] \in Reads <=> lpc[k] \in Reads
                         /\ lpc'[k] = "call" => copy'[k] = buffer
    BY <1>1, <2>1 DEF Reads
  <2>3. lpc' \in [Loops -> Places] /\ copy' \in [Loops -> Nat]
    BY <1>1, <2>1 DEF Places, Reads
  <2>4. QED
    BY <2>1, <2>2, <2>3, LoopMoves
<1>5. QED
  BY <1>2, <1>3, <1>4, UdpCloses, UdpArrives, UdpCompletes, UdpGives DEF Udp!Next, Udp!Handler

-----------------------------------------------------------------------------
(* All three                                                               *)

\* At first nothing was made, sent or received.
LEMMA CarriersInit == Init => UdpInv /\ QueueInv /\ FrameInv
<1> SUFFICES ASSUME Init PROVE UdpInv /\ QueueInv /\ FrameInv
  OBVIOUS
<1>1. UdpInv
  <2>1. /\ buffer = 0 /\ sender = 0 /\ arrived = 0 /\ wire = <<>> /\ given = <<>> /\ lost = {}
        /\ lpc = [l \in Loops |-> "none"] /\ copy = [l \in Loops |-> 0]
    BY DEF Init, Udp!Init
  <2>2. DatagramTypes
    BY <2>1 DEF DatagramTypes, Places
  <2>3. DatagramOrder
    BY <2>1 DEF DatagramOrder, Reads
  <2>4. Udp!ToSet(wire) = {} /\ InBuffer = {} /\ Given = {} /\ 1 .. arrived = {}
    BY <2>1 DEF Udp!ToSet, InBuffer, Given, Reads
  <2>5. QED
    BY <2>1, <2>2, <2>3, <2>4 DEF UdpInv, Accounted
<1>2. QueueInv
  <2>1. /\ id = [o \in Objects |-> 0] /\ sends = 0 /\ keyOf = <<>> /\ live = {} /\ content = <<>>
        /\ accepted = <<>> /\ received = <<>>
    BY DEF Init, Queue!Init
  <2>2. QED
    BY <2>1 DEF QueueInv, QueueTypes
<1>3. FrameInv
  BY DEF Init, Event!Init, FrameInv
<1>4. QED
  BY <1>1, <1>2, <1>3

\* Messages come as they were sent, each once and in order: the datagrams of the one
\* receive loop and their senders, the messages of a queue, and the fields of a frame
\* (AsyncUdp.cpp:65-87, Message.hpp:58-101, EventFrame.hpp:58-86).
THEOREM AllReceivedAsSent ==
    ASSUME OneLoop
    PROVE  Spec => []ReceivedAsSent
<1> DEFINE Inv == UdpInv /\ QueueInv /\ FrameInv
<1>1. Init => Inv
  BY CarriersInit
<1>2. Inv /\ [Next]_<<subject, tcpVars, udpVars, queueVars, frameVars>> => Inv'
  <2> SUFFICES ASSUME Inv, [Next]_<<subject, tcpVars, udpVars, queueVars, frameVars>> PROVE Inv'
    OBVIOUS
  <2>1. /\ Udp!Next \/ UNCHANGED udpVars
        /\ Queue!Next \/ UNCHANGED queueVars
        /\ Event!Next \/ UNCHANGED frameVars
    BY DEF Next
  <2>2. QED
    BY <2>1, UdpStep, QueueStep, FrameStep
<1>3. Inv => ReceivedAsSent
  <2> SUFFICES ASSUME Inv PROVE ReceivedAsSent
    OBVIOUS
  <2>1. Udp!DatagramsIntact
    <3>1. PICK n \in Nat : n = Len(given) /\ DOMAIN given = 1 .. n
      BY DEF UdpInv, DatagramTypes
    <3>2. Udp!InHand = InBuffer
      BY DEF Udp!InHand, InBuffer, Reads, UdpInv, DatagramOrder
    <3>3. 1 .. arrived = Udp!ToSet(wire) \cup Udp!InHand \cup lost \cup {given[k][1] : k \in 1 .. n}
      BY <3>1, <3>2 DEF UdpInv, Accounted, Given
    <3>4. \A k \in 1 .. n : given[k][1] = given[k][2]
      BY <3>1 DEF UdpInv, DatagramOrder
    <3>5. \A k \in 1 .. n : k > 1 => given[k - 1][1] < given[k][1]
      <4> TAKE k \in 1 .. n
      <4> HAVE k > 1
      <4>1. k - 1 \in 1 .. n /\ k - 1 < k
        OBVIOUS
      <4>2. QED
        BY <3>1, <4>1 DEF UdpInv, DatagramOrder
    <3>6. QED
      BY <3>1, <3>3, <3>4, <3>5 DEF Udp!DatagramsIntact
  <2>2. Queue!ReceivedAsSent
    <3> SUFFICES ASSUME NEW k \in DOMAIN keyOf
                 PROVE  \E f \in [DOMAIN received[k] -> DOMAIN accepted[k]] :
                            /\ \A i, j \in DOMAIN received[k] : i < j => f[i] < f[j]
                            /\ \A i \in DOMAIN received[k] : received[k][i] = accepted[k][f[i]]
      BY DEF Queue!ReceivedAsSent, Queue!Queues
    <3>1. /\ accepted[k] \in Seq(Numbered) /\ content[k] \in Seq(Numbered)
          /\ received[k] \in Seq(Numbered)
      BY DEF QueueInv, QueueTypes
    <3>2. PICK c, f : KeptBy(accepted[k], content[k], received[k], c, f)
      BY DEF QueueInv, Kept
    <3>3. PICK d \in Nat, l \in Nat, n \in Nat :
              /\ d = c /\ l = Len(received[k]) /\ n = Len(accepted[k]) /\ d <= n
              /\ DOMAIN received[k] = 1 .. l /\ DOMAIN accepted[k] = 1 .. n
      <4>1. /\ c \in Nat /\ Len(content[k]) \in Nat /\ Len(received[k]) \in Nat
            /\ Len(accepted[k]) \in Nat /\ Len(accepted[k]) = c + Len(content[k])
        BY <3>1, <3>2 DEF KeptBy
      <4>2. c <= Len(accepted[k])
        BY <4>1
      <4>3. DOMAIN received[k] = 1 .. Len(received[k]) /\ DOMAIN accepted[k] = 1 .. Len(accepted[k])
        BY <3>1
      <4>4. QED
        BY <4>1, <4>2, <4>3
    <3>4. /\ f \in [1 .. l -> 1 .. d]
          /\ \A i, j \in 1 .. l : i < j => f[i] < f[j]
          /\ \A i \in 1 .. l : received[k][i] = accepted[k][f[i]]
      BY <3>2, <3>3 DEF KeptBy
    <3>5. f \in [1 .. l -> 1 .. n]
      BY <3>3, <3>4
    <3>6. QED
      BY <3>3, <3>4, <3>5
  <2>3. Event!ReadAsMade
    BY DEF FrameInv, Event!ReadAsMade
  <2>4. QED
    BY <2>1, <2>2, <2>3 DEF ReceivedAsSent
<1>4. QED
  BY <1>1, <1>2, <1>3, PTL DEF Spec
=============================================================================
