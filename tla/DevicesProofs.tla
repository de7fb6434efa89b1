---------------------------- MODULE DevicesProofs ----------------------------
(***************************************************************************)
(* Safety of MCDevices, for any sockets, descriptors, addresses, slaves    *)
(* and modes, and for lines and pieces of any length.                      *)
(*                                                                         *)
(* For NothingLeftOpen each device has an invariant of its own, which says *)
(* at each step of an open() what there is to close if the step fails.     *)
(* LineUpToTerminator needs to know, after each byte, how much of the      *)
(* terminator the bytes end with; what the loop does with a piece is then  *)
(* an induction over its bytes.                                            *)
(***************************************************************************)
EXTENDS MCDevices, SequenceTheorems, WellFoundedInduction, TLAPS

-----------------------------------------------------------------------------
(* Uart                                                                    *)

\* Until the last call of open() has succeeded the port does not say it is open; it
\* has a speed from the second call on, so that its handle is one.
HandleInv ==
    /\ opening \in {"no", "GetCommState", "SetCommState", "SetCommTimeouts"}
    /\ isOpen \in BOOLEAN
    /\ DOMAIN fd = {"access", "speed"}
    /\ opening # "no" => ~isOpen
    /\ opening = "SetCommTimeouts" => fd.speed # 0
    /\ isOpen => fd.speed # 0
    /\ Uart!NothingLeftOpen

\* No constructor's speed is the one of a port without a handle.
LEMMA SpeedIsSet == \A r : Uart!ToSpeed(r) # 0
BY DEF Uart!ToSpeed, Uart!Speeds

\* Each step of the port that opens, closes or configures it.
LEMMA HandleStep ==
    ASSUME HandleInv, [Uart!Next]_uartVars
    PROVE  HandleInv'
<1> USE DEF HandleInv, Uart!NothingLeftOpen, Uart!NoFd
<1>1. CASE Uart!Open
  BY <1>1, SpeedIsSet DEF Uart!Open, Uart!Idle
<1>2. CASE Uart!CreateFile
  BY <1>2 DEF Uart!CreateFile, Uart!Idle
<1>3. CASE Uart!Configure
  <2>1. CASE UNCHANGED <<fd, isOpen>> /\ opening = "GetCommState" /\ opening' = "SetCommState"
    BY <2>1
  <2>2. CASE /\ opening = "SetCommState" /\ opening' = "SetCommTimeouts" /\ isOpen' = isOpen
             /\ fd' = [fd EXCEPT !.speed = Uart!ToSpeed(Requested)]
    BY <2>2, SpeedIsSet
  <2>3. CASE opening = "SetCommTimeouts" /\ opening' = "no" /\ isOpen' = TRUE /\ fd' = fd
    BY <2>3
  <2>4. CASE opening # "no" /\ opening' = "no" /\ isOpen' = isOpen /\ fd' = Uart!NoFd
    BY <2>4
  <2>5. QED
    BY <1>3, <2>1, <2>2, <2>3, <2>4 DEF Uart!Configure
<1>4. CASE Uart!Close
  BY <1>4 DEF Uart!Close, Uart!Idle
<1>5. CASE UNCHANGED <<isOpen, fd, opening>>
  BY <1>5
<1>6. CASE Uart!Destroy \/ Uart!Misuse
  BY <1>5, <1>6 DEF Uart!Destroy, Uart!Misuse
<1>7. CASE UNCHANGED Uart!portVars
  BY <1>5, <1>7 DEF Uart!portVars
<1>8. CASE Uart!Read \/ Uart!CallRead \/ Uart!ReadFile \/ Uart!Write
  BY <1>7, <1>8 DEF Uart!Read, Uart!CallRead, Uart!ReadFile, Uart!Write
<1>9. ASSUME NEW b \in Uart!Bytes, Uart!Arrive(b) PROVE UNCHANGED Uart!portVars
  BY <1>9 DEF Uart!Arrive
<1>10. ASSUME NEW e \in Uart!EscapeSequence, Uart!CallReadline(e) PROVE UNCHANGED Uart!portVars
  BY <1>10 DEF Uart!CallReadline
<1>11. CASE Uart!ReadChunk \/ Uart!GiveUp
  BY <1>7, <1>11 DEF Uart!ReadChunk, Uart!GiveUp
<1>12. CASE UNCHANGED uartVars
  BY <1>5, <1>12 DEF uartVars
<1> HIDE DEF HandleInv, Uart!NothingLeftOpen, Uart!NoFd
<1>13. QED
  BY <1>1, <1>2, <1>3, <1>4, <1>6, <1>7, <1>8, <1>9, <1>10, <1>11, <1>12 DEF Uart!Next

-----------------------------------------------------------------------------
(* Induction over numbers, which the library states for predicates only    *)

\* A set of numbers has a least one.
LEMMA Least ==
    ASSUME NEW T \in SUBSET Nat, T # {}
    PROVE  \E x \in T : \A y \in T : x <= y
<1> DEFINE R == OpToRel(<, Nat)
<1>1. IsWellFoundedOn(R, Nat)
  BY NatLessThanWellFounded
<1>2. \A x, y \in Nat : x < y => <<x, y>> \in R
  BY DEF OpToRel
<1> HIDE DEF R
<1>3. \E x \in T : \A y \in T : ~ (<<y, x>> \in R)
  BY <1>1, WFMin
<1>4. PICK x \in T : \A y \in T : ~ (<<y, x>> \in R)
  BY <1>3
<1>5. \A y \in T : ~ (y < x)
  BY <1>2, <1>4, Zenon
<1>6. QED
  BY <1>5

\* What holds of 0, and of n + 1 when it holds of n, holds of all numbers.
LEMMA SetInduction ==
    ASSUME NEW S, 0 \in S, \A n \in Nat : n \in S => n + 1 \in S
    PROVE  \A n \in Nat : n \in S
<1> SUFFICES ASSUME NEW n \in Nat, n \notin S PROVE FALSE
  OBVIOUS
<1> DEFINE T == Nat \ S
<1>1. PICK x \in T : \A y \in T : x <= y
  BY Least
<1>2. QED
  BY <1>1

\* The function g that makes n steps F from x
StepsOf(X, n) == [X \X (1 .. n) -> X]
MakesSteps(g, X, x, n, F) ==
    g \in [0 .. n -> X] /\ g[0] = x /\ \A i \in 1 .. n : g[i] = F[<<g[i - 1], i>>]

\* A recursive function over the first n numbers exists, and its values are in X.
LEMMA Recursion ==
    ASSUME NEW X, NEW x0 \in X, NEW n \in Nat, NEW F \in StepsOf(X, n)
    PROVE  \E g : MakesSteps(g, X, x0, n, F)
<1> USE DEF StepsOf
<1> DEFINE Good(m, g) == g[0] = x0 /\ \A i \in 1 .. m : g[i] = F[<<g[i - 1], i>>]
           S == {m \in Nat : m <= n => \E g \in [0 .. m -> X] : Good(m, g)}
<1>1. 0 \in S
  <2> DEFINE h == [i \in 0 .. 0 |-> x0]
  <2>1. h \in [0 .. 0 -> X] /\ h[0] = x0
    OBVIOUS
  <2>2. Good(0, h)
    BY <2>1
  <2> HIDE DEF h
  <2>3. \E g \in [0 .. 0 -> X] : Good(0, g)
    BY <2>1, <2>2
  <2>4. QED
    BY <2>3
<1>2. ASSUME NEW m \in Nat, m \in S PROVE m + 1 \in S
  <2> SUFFICES ASSUME m + 1 <= n PROVE \E g \in [0 .. m + 1 -> X] : Good(m + 1, g)
    OBVIOUS
  <2>1. PICK g \in [0 .. m -> X] : Good(m, g)
    BY <1>2
  <2> DEFINE y == F[<<g[m], m + 1>>]
             h == [i \in 0 .. m + 1 |-> IF i <= m THEN g[i] ELSE y]
  <2>2. y \in X
    <3>1. g[m] \in X /\ m + 1 \in 1 .. n
      OBVIOUS
    <3>2. QED
      BY <3>1
  <2>3. \A i \in 0 .. m : h[i] = g[i]
    OBVIOUS
  <2>4. h[m + 1] = y /\ h \in [0 .. m + 1 -> X]
    BY <2>2
  <2> HIDE DEF h
  <2>5. ASSUME NEW i \in 1 .. m + 1 PROVE h[i] = F[<<h[i - 1], i>>]
    <3>1. CASE i = m + 1
      <4>1. h[i - 1] = g[m]
        BY <2>3, <3>1
      <4>2. QED
        BY <2>4, <3>1, <4>1
    <3>2. CASE i # m + 1
      <4>1. i \in 1 .. m /\ h[i] = g[i] /\ h[i - 1] = g[i - 1]
        BY <2>3, <3>2
      <4>2. QED
        BY <2>1, <4>1
    <3>3. QED
      BY <3>1, <3>2
  <2>6. h[0] = x0
    BY <2>1, <2>3
  <2>7. Good(m + 1, h)
    BY <2>5, <2>6
  <2>8. QED
    BY <2>4, <2>7
<1>3. n \in S
  <2> HIDE DEF S
  <2>1. QED
    BY <1>1, <1>2, SetInduction
<1>4. QED
  BY <1>3 DEF MakesSteps

-----------------------------------------------------------------------------
(* readline() of the port                                                  *)

\* What FlattenSeq does step by step
LEMMA FlattenSteps ==
    ASSUME NEW S, NEW t \in Seq(Seq(S)), t # <<>>
    PROVE  \E f \in [1 .. Len(t) -> Seq(S)] :
              /\ Uart!FlattenSeq(t) = f[Len(t)]
              /\ f[1] = t[1]
              /\ \A i \in 2 .. Len(t) : f[i] = f[i - 1] \o t[i]
<1> DEFINE n == Len(t)
           F == [p \in Seq(S) \X (1 .. n) |-> p[1] \o t[p[2]]]
           Eq(f) == f = [i \in 1 .. n |-> IF i = 1 THEN t[i] ELSE f[i - 1] \o t[i]]
           flatten == CHOOSE f : Eq(f)
<1>1. n \in Nat \ {0} /\ \A i \in 1 .. n : t[i] \in Seq(S)
  OBVIOUS
<1>2. F \in StepsOf(Seq(S), n)
  <2>1. \A p \in Seq(S) \X (1 .. n) : p[1] \o t[p[2]] \in Seq(S)
    BY <1>1, ConcatProperties
  <2>2. QED
    BY <2>1 DEF StepsOf
<1>3. <<>> \in Seq(S)
  OBVIOUS
<1>4. \E g : MakesSteps(g, Seq(S), <<>>, n, F)
  <2> HIDE DEF F, n
  <2>1. QED
    BY <1>1, <1>2, <1>3, Recursion, Zenon
<1>5. PICK g : MakesSteps(g, Seq(S), <<>>, n, F)
  BY <1>4
<1>6. \A i \in 1 .. n : g[i] = g[i - 1] \o t[i] /\ g[i - 1] \in Seq(S)
  <2> SUFFICES ASSUME NEW i \in 1 .. n PROVE g[i] = g[i - 1] \o t[i] /\ g[i - 1] \in Seq(S)
    OBVIOUS
  <2>1. g[i] = F[<<g[i - 1], i>>] /\ g[i - 1] \in Seq(S)
    <3> HIDE DEF F, n
    <3>1. i - 1 \in 0 .. n
      BY <1>1
    <3>2. g[i] = F[<<g[i - 1], i>>]
      BY <1>5, Zenon DEF MakesSteps
    <3>3. g \in [0 .. n -> Seq(S)]
      BY <1>5, Zenon DEF MakesSteps
    <3>4. QED
      BY <3>1, <3>2, <3>3
  <2>2. <<g[i - 1], i>> \in Seq(S) \X (1 .. n)
    BY <2>1
  <2>3. F[<<g[i - 1], i>>] = g[i - 1] \o t[i]
    BY <2>2
  <2>4. QED
    BY <2>1, <2>3
<1>7. g[1] = t[1]
  <2> HIDE DEF F, n
  <2>1. g[0] = <<>> /\ 1 \in 1 .. n /\ 1 - 1 = 0
    BY <1>1, <1>5 DEF MakesSteps
  <2>2. g[1] = g[0] \o t[1]
    BY <1>6, <2>1
  <2>3. QED
    BY <1>1, <2>1, <2>2
<1>8. \E f : Eq(f)
  <2> DEFINE h == [i \in 1 .. n |-> g[i]]
  <2>1. Eq(h)
    <3>1. \A i \in 1 .. n : h[i] = IF i = 1 THEN t[i] ELSE h[i - 1] \o t[i]
      <4> SUFFICES ASSUME NEW i \in 1 .. n, i # 1 PROVE h[i] = h[i - 1] \o t[i]
        BY <1>7
      <4>1. h[i] = g[i] /\ h[i - 1] = g[i - 1]
        OBVIOUS
      <4>2. QED
        BY <1>6, <4>1
    <3>2. QED
      BY <3>1
  <2> HIDE DEF Eq, h
  <2>2. QED
    BY <2>1
<1>9. Eq(flatten)
  <2> HIDE DEF Eq
  <2>1. QED
    BY <1>8
<1>10. Uart!FlattenSeq(t) = flatten[n]
  BY <1>1 DEF Uart!FlattenSeq
<1> HIDE DEF flatten, F
<1>11. \A i \in 1 .. n : flatten[i] = IF i = 1 THEN t[i] ELSE flatten[i - 1] \o t[i]
  BY <1>9
<1>12. \A i \in 1 .. n : flatten[i] \in Seq(S)
  <2> DEFINE D == {i \in Nat : i \in 1 .. n => flatten[i] \in Seq(S)}
  <2>1. 0 \in D
    OBVIOUS
  <2>2. ASSUME NEW i \in Nat, i \in D PROVE i + 1 \in D
    <3> SUFFICES ASSUME i + 1 \in 1 .. n PROVE flatten[i + 1] \in Seq(S)
      OBVIOUS
    <3>1. CASE i = 0
      BY <1>1, <1>11, <3>1
    <3>2. CASE i # 0
      <4>1. flatten[i] \in Seq(S) /\ t[i + 1] \in Seq(S)
        BY <1>1, <2>2, <3>2
      <4>2. flatten[i + 1] = flatten[i] \o t[i + 1]
        <5>1. i + 1 \in 1 .. n /\ i + 1 # 1 /\ (i + 1) - 1 = i
          BY <3>2
        <5>2. QED
          BY <1>11, <5>1
      <4>3. QED
        BY <4>1, <4>2
    <3>3. QED
      BY <3>1, <3>2
  <2> HIDE DEF D
  <2>3. \A i \in Nat : i \in D
    BY <2>1, <2>2, SetInduction
  <2>4. QED
    BY <2>3 DEF D
<1>13. flatten \in [1 .. n -> Seq(S)]
  <2>1. flatten = [i \in 1 .. n |-> flatten[i]]
    BY <1>9
  <2>2. QED
    BY <1>12, <2>1
<1>14. QED
  <2>1. ASSUME NEW i \in 2 .. n PROVE flatten[i] = flatten[i - 1] \o t[i]
    <3>1. i \in 1 .. n /\ i # 1
      OBVIOUS
    <3>2. QED
      BY <1>11, <3>1
  <2>2. flatten[1] = t[1]
    BY <1>1, <1>11
  <2>3. QED
    BY <1>10, <1>13, <2>1, <2>2

\* FlattenSeq and Append
LEMMA FlattenAppend ==
    ASSUME NEW S, NEW t \in Seq(Seq(S)), NEW u \in Seq(S)
    PROVE  /\ Uart!FlattenSeq(t) \in Seq(S)
           /\ Uart!FlattenSeq(Append(t, u)) = Uart!FlattenSeq(t) \o u
<1> DEFINE n == Len(t)
           v == Append(t, u)
<1>1. v \in Seq(Seq(S)) /\ v # <<>> /\ Len(v) = n + 1 /\ v[n + 1] = u /\ n \in Nat
         /\ \A i \in 1 .. n : v[i] = t[i]
  BY AppendProperties
<1> HIDE DEF v
<1>2. PICK f \in [1 .. n + 1 -> Seq(S)] :
              /\ Uart!FlattenSeq(v) = f[n + 1]
              /\ f[1] = v[1]
              /\ \A i \in 2 .. n + 1 : f[i] = f[i - 1] \o v[i]
  <2>1. \E f \in [1 .. Len(v) -> Seq(S)] :
              /\ Uart!FlattenSeq(v) = f[Len(v)]
              /\ f[1] = v[1]
              /\ \A i \in 2 .. Len(v) : f[i] = f[i - 1] \o v[i]
    <3>1. v \in Seq(Seq(S)) /\ v # <<>>
      BY <1>1
    <3>2. QED
      BY <3>1, FlattenSteps, Zenon
  <2>2. Len(v) = n + 1
    BY <1>1
  <2>3. QED
    BY <2>1, <2>2, Zenon
<1>3. CASE t = <<>>
  <2>1. Uart!FlattenSeq(t) = <<>>
    BY <1>3 DEF Uart!FlattenSeq
  <2>2. n = 0 /\ Uart!FlattenSeq(v) = u
    BY <1>1, <1>2, <1>3
  <2>3. QED
    BY <2>1, <2>2 DEF v
<1>4. CASE t # <<>>
  <2>1. PICK g \in [1 .. n -> Seq(S)] :
              /\ Uart!FlattenSeq(t) = g[n]
              /\ g[1] = t[1]
              /\ \A i \in 2 .. n : g[i] = g[i - 1] \o t[i]
    BY <1>4, FlattenSteps
  <2>2. n \in Nat \ {0}
    BY <1>4
  <2> DEFINE D == {i \in Nat : i \in 1 .. n => f[i] = g[i]}
  <2>3. 0 \in D
    OBVIOUS
  <2>4. ASSUME NEW i \in Nat, i \in D PROVE i + 1 \in D
    <3> SUFFICES ASSUME i + 1 \in 1 .. n PROVE f[i + 1] = g[i + 1]
      OBVIOUS
    <3>1. CASE i = 0
      BY <1>1, <1>2, <2>1, <3>1
    <3>2. CASE i # 0
      <4>1. f[i] = g[i] /\ v[i + 1] = t[i + 1]
        BY <1>1, <2>4, <3>2
      <4>2. f[i + 1] = f[i] \o v[i + 1] /\ g[i + 1] = g[i] \o t[i + 1]
        <5>1. i + 1 \in 2 .. n /\ i + 1 \in 2 .. n + 1 /\ (i + 1) - 1 = i
          BY <1>1, <3>2
        <5>2. QED
          BY <1>2, <2>1, <5>1
      <4>3. QED
        BY <4>1, <4>2
    <3>3. QED
      BY <3>1, <3>2
  <2> HIDE DEF D
  <2>5. \A i \in Nat : i \in D
    BY <2>3, <2>4, SetInduction
  <2>6. f[n] = g[n]
    <3>1. n \in Nat /\ n \in 1 .. n
      BY <2>2
    <3>2. QED
      BY <2>5, <3>1 DEF D
  <2>7. f[n + 1] = f[n] \o v[n + 1]
    <3>1. n + 1 \in 2 .. n + 1 /\ (n + 1) - 1 = n
      BY <2>2
    <3>2. QED
      BY <1>2, <3>1
  <2>8. QED
    BY <1>1, <1>2, <2>1, <2>2, <2>6, <2>7 DEF v
<1>5. QED
  BY <1>3, <1>4

\* The terminators of readline() (Uart.cpp:302-306)
Ends == {<<"NUL">>, <<"LF">>, <<"CR", "LF">>}

\* One byte more leaves the others of a line as they were, but for a carriage return
\* before it that turns out to be a stray one.
LEMMA DoubledAppend ==
    ASSUME NEW end \in Ends, NEW s \in Seq(Uart!Bytes), NEW b \in Uart!Bytes
    PROVE  /\ Uart!Doubled(end, s) \in Seq(Uart!Bytes)
           /\ Uart!Doubled(end, Append(s, b)) =
                 IF s # <<>> /\ Uart!Stray(end, Append(s, b), Len(s))
                 THEN Append(Append(Uart!Doubled(end, s), s[Len(s)]), b)
                 ELSE Append(Uart!Doubled(end, s), b)
<1> DEFINE B == Uart!Bytes
           n == Len(s)
           r == Append(s, b)
           Piece(q, i) == IF Uart!Stray(end, q, i) THEN <<q[i], q[i]>> ELSE <<q[i]>>
           t == [i \in DOMAIN s |-> Piece(s, i)]
           v == [i \in DOMAIN r |-> Piece(r, i)]
<1>1. n \in Nat /\ DOMAIN s = 1 .. n /\ DOMAIN r = 1 .. n + 1 /\ Len(r) = n + 1
  BY AppendProperties
<1>2. r \in Seq(B) /\ r[n + 1] = b /\ \A i \in 1 .. n : r[i] = s[i] /\ s[i] \in B
  BY AppendProperties
<1> HIDE DEF r
<1>3. ASSUME NEW q \in Seq(B), NEW i \in 1 .. Len(q) PROVE Piece(q, i) \in Seq(B)
  BY <1>3
<1>4. t \in Seq(Seq(B)) /\ Len(t) = n
  <2>1. \A i \in 1 .. n : Piece(s, i) \in Seq(B)
    BY <1>3
  <2> HIDE DEF Piece
  <2>2. QED
    BY <1>1, <2>1
<1>5. Piece(r, n + 1) = <<b>>
  BY <1>1, <1>2 DEF Uart!Stray
<1>6. ASSUME NEW i \in 1 .. n, i # n PROVE Piece(r, i) = Piece(s, i)
  <2>1. r[i] = s[i] /\ r[i + 1] = s[i + 1] /\ i < Len(r) /\ i < n
    BY <1>1, <1>2, <1>6
  <2>2. Uart!Stray(end, r, i) <=> Uart!Stray(end, s, i)
    BY <2>1 DEF Uart!Stray
  <2>3. QED
    BY <2>1, <2>2
<1>7. s # <<>> => Piece(s, n) = <<s[n]>>
  BY <1>1, <1>2 DEF Uart!Stray
<1>8. Uart!Doubled(end, s) = Uart!FlattenSeq(t) /\ Uart!Doubled(end, r) = Uart!FlattenSeq(v)
  BY DEF Uart!Doubled
<1>9. Uart!FlattenSeq(t) \in Seq(B)
  <2> HIDE DEF t
  <2>1. <<>> \in Seq(B)
    OBVIOUS
  <2>2. QED
    BY <1>4, <2>1, FlattenAppend, Zenon
<1>10. CASE s = <<>>
  <2>1. t = <<>> /\ n = 0
    BY <1>1, <1>4, <1>10
  <2>2. v = Append(t, <<b>>)
    <3>1. v = [i \in 1 .. 1 |-> <<b>>]
      BY <1>1, <1>5, <2>1
    <3>2. QED
      BY <2>1, <3>1
  <2>3. Uart!FlattenSeq(v) = Uart!FlattenSeq(t) \o <<b>>
    <3> HIDE DEF t, v
    <3>1. <<b>> \in Seq(B)
      OBVIOUS
    <3>2. QED
      BY <1>4, <2>2, <3>1, FlattenAppend, Zenon
  <2>4. Uart!FlattenSeq(t) \o <<b>> = Append(Uart!FlattenSeq(t), b)
    <3> HIDE DEF t, B
    <3>1. QED
      BY <1>9
  <2>5. QED
    BY <1>8, <1>9, <1>10, <2>3, <2>4 DEF r
<1>11. CASE s # <<>>
  <2> DEFINE w == [i \in 1 .. n - 1 |-> Piece(s, i)]
             u == Piece(r, n)
  <2>1. n \in Nat \ {0} /\ n - 1 \in Nat
    BY <1>1, <1>11
  <2>2. w \in Seq(Seq(B)) /\ Len(w) = n - 1
    <3>1. \A i \in 1 .. n - 1 : Piece(s, i) \in Seq(B)
      BY <1>1, <1>3
    <3> HIDE DEF Piece
    <3>2. QED
      BY <2>1, <3>1
  <2>3. u \in Seq(B) /\ <<s[n]>> \in Seq(B) /\ <<b>> \in Seq(B)
    BY <1>1, <1>2, <1>3, <2>1
  <2>4. t = Append(w, <<s[n]>>)
    <3> HIDE DEF Piece
    <3>1. QED
      BY <1>1, <1>7, <1>11, <2>1, <2>2
  <2>5. v = Append(Append(w, u), <<b>>)
    <3> HIDE DEF Piece
    <3>1. Append(w, u) \in Seq(Seq(B)) /\ Len(Append(w, u)) = n
             /\ Append(w, u)[n] = u /\ \A i \in 1 .. n - 1 : Append(w, u)[i] = w[i]
      <4> HIDE DEF w, u, B
      <4>1. QED
        BY <2>1, <2>2, <2>3, AppendProperties
    <3>2. ASSUME NEW i \in 1 .. n PROVE Append(w, u)[i] = Piece(r, i)
      <4>1. CASE i = n
        BY <3>1, <4>1
      <4>2. CASE i # n
        <5>1. i \in 1 .. n - 1
          BY <2>1, <4>2
        <5>2. Append(w, u)[i] = w[i]
          <6> HIDE DEF w, u
          <6>1. QED
            BY <3>1, <5>1
        <5>3. w[i] = Piece(s, i)
          BY <5>1
        <5>4. QED
          BY <1>6, <4>2, <5>2, <5>3
      <4>3. QED
        BY <4>1, <4>2
    <3> HIDE DEF w, u
    <3>3. \A z \in Seq(Seq(B)) : Len(z) = n =>
             Append(z, <<b>>) = [i \in 1 .. n + 1 |-> IF i <= n THEN z[i] ELSE <<b>>]
      BY <2>3
    <3>4. Append(Append(w, u), <<b>>) =
             [i \in 1 .. n + 1 |-> IF i <= n THEN Append(w, u)[i] ELSE <<b>>]
      BY <3>1, <3>3, Zenon
    <3>5. \A i \in 1 .. n + 1 : Piece(r, i) = IF i <= n THEN Append(w, u)[i] ELSE <<b>>
      <4> SUFFICES ASSUME NEW i \in 1 .. n + 1
                   PROVE  Piece(r, i) = IF i <= n THEN Append(w, u)[i] ELSE <<b>>
        OBVIOUS
      <4>1. CASE i = n + 1
        BY <1>5, <2>1, <4>1
      <4>2. CASE i # n + 1
        <5>1. i \in 1 .. n
          BY <2>1, <4>2
        <5>2. i <= n
          BY <5>1
        <5>3. QED
          BY <3>2, <5>1, <5>2
      <4>3. QED
        BY <4>1, <4>2
    <3>6. QED
      BY <1>1, <3>4, <3>5
  <2> HIDE DEF w, u, t, v
  <2>6. Uart!FlattenSeq(t) = Uart!FlattenSeq(w) \o <<s[n]>>
    BY <2>2, <2>3, <2>4, FlattenAppend, Zenon
  <2>7. Append(w, u) \in Seq(Seq(B))
    BY <2>2, <2>3
  <2>8. Uart!FlattenSeq(v) = (Uart!FlattenSeq(w) \o u) \o <<b>>
    <3>1. Uart!FlattenSeq(v) = Uart!FlattenSeq(Append(w, u)) \o <<b>>
      BY <2>3, <2>5, <2>7, FlattenAppend, Zenon
    <3>2. Uart!FlattenSeq(Append(w, u)) = Uart!FlattenSeq(w) \o u
      BY <2>2, <2>3, FlattenAppend, Zenon
    <3>3. QED
      BY <3>1, <3>2
  <2>9. Uart!FlattenSeq(w) \in Seq(B)
    BY <2>2, <2>3, FlattenAppend, Zenon
  <2> DEFINE x == Uart!FlattenSeq(w)
  <2>10. u = IF Uart!Stray(end, r, n) THEN <<s[n], s[n]>> ELSE <<s[n]>>
    <3>1. r[n] = s[n]
      BY <1>2, <2>1
    <3>2. QED
      BY <3>1 DEF u
  <2>11. (x \o <<s[n]>>) \o <<b>> = Append(x \o <<s[n]>>, b)
    <3> HIDE DEF x, B
    <3>1. QED
      BY <2>3, <2>9
  <2>12. (x \o <<s[n], s[n]>>) \o <<b>> = Append(Append(x \o <<s[n]>>, s[n]), b)
    <3> HIDE DEF x, B
    <3>1. s[n] \in B
      BY <1>2, <2>1
    <3>2. QED
      BY <2>9, <3>1
  <2>13. QED
    BY <1>8, <1>9, <1>11, <2>6, <2>8, <2>10, <2>11, <2>12 DEF r
<1>12. QED
  BY <1>10, <1>11

\* The bytes s end with the terminator.
Ended(end, s) ==
    /\ Len(end) <= Len(s)
    /\ \A j \in 1 .. Len(end) : s[Len(s) - Len(end) + j] = end[j]

\* What a terminator is.
LEMMA EndsAre ==
    ASSUME NEW end \in Ends
    PROVE  /\ end \in Seq(Uart!Bytes) /\ Len(end) \in {1, 2}
           /\ \A j \in 1 .. Len(end) : end[j] \in Uart!Bytes
           /\ Len(end) = 2 => end[1] # end[2]
<1>1. CASE end = <<"NUL">>
  BY <1>1 DEF Uart!Bytes
<1>2. CASE end = <<"LF">>
  BY <1>2 DEF Uart!Bytes
<1>3. CASE end = <<"CR", "LF">>
  BY <1>3 DEF Uart!Bytes
<1>4. QED
  BY <1>1, <1>2, <1>3 DEF Ends

\* A part of s is the terminator if its bytes are.
LEMMA PartIs ==
    ASSUME NEW end \in Ends, NEW s \in Seq(Uart!Bytes), NEW i \in 1 .. Len(s) - Len(end) + 1
    PROVE  SubSeq(s, i, i + Len(end) - 1) = end <=> \A j \in 1 .. Len(end) : s[i + j - 1] = end[j]
<1> DEFINE m == Len(end)
           p == SubSeq(s, i, i + m - 1)
<1>1. m \in {1, 2} /\ end \in Seq(Uart!Bytes) /\ Len(s) \in Nat
  BY EndsAre
<1>2. p = [j \in 1 .. m |-> s[i + j - 1]]
  <2> HIDE DEF m
  <2>1. (i + m - 1) - i + 1 = m
    BY <1>1
  <2>2. QED
    BY <1>1, <2>1
<1>3. end = [j \in 1 .. m |-> end[j]]
  BY <1>1
<1>4. QED
  BY <1>2, <1>3

\* The library's suffix is the same.
LEMMA SuffixIs ==
    ASSUME NEW end \in Ends, NEW s \in Seq(Uart!Bytes)
    PROVE  Uart!IsSuffix(end, s) <=> Ended(end, s)
<1> DEFINE m == Len(end)
           n == Len(s)
           r == [i \in 1 .. m |-> end[m - i + 1]]
           t == [i \in 1 .. n |-> s[n - i + 1]]
<1>1. m \in {1, 2} /\ n \in Nat /\ \A j \in 1 .. m : end[j] \in Uart!Bytes
  BY EndsAre
<1>2. r \in Seq(Uart!Bytes) /\ t \in Seq(Uart!Bytes) /\ Len(r) = m /\ Len(t) = n
  <2>1. \A i \in 1 .. m : m - i + 1 \in 1 .. m
    BY <1>1
  <2>2. \A i \in 1 .. n : n - i + 1 \in 1 .. n
    BY <1>1
  <2>3. QED
    BY <1>1, <2>1, <2>2
<1>3. Uart!IsSuffix(end, s) <=> m <= n /\ r = SubSeq(t, 1, m)
  <2>1. Uart!Reverse(end) = r /\ Uart!Reverse(s) = t
    BY DEF Uart!Reverse
  <2> HIDE DEF r, t
  <2>2. QED
    BY <1>1, <1>2, <2>1 DEF Uart!IsSuffix, Uart!IsPrefix
<1>4. CASE m <= n
  <2>1. SubSeq(t, 1, m) = [i \in 1 .. m |-> s[n - i + 1]]
    BY <1>1, <1>2, <1>4
  <2>2. r = SubSeq(t, 1, m) <=> \A i \in 1 .. m : end[m - i + 1] = s[n - i + 1]
    <3> DEFINE x == [i \in 1 .. m |-> s[n - i + 1]]
    <3>1. r = x <=> \A i \in 1 .. m : r[i] = x[i]
      OBVIOUS
    <3>2. \A i \in 1 .. m : r[i] = end[m - i + 1] /\ x[i] = s[n - i + 1]
      OBVIOUS
    <3> HIDE DEF r, x, t, m, n
    <3>3. (\A i \in 1 .. m : r[i] = x[i]) <=> \A i \in 1 .. m : end[m - i + 1] = s[n - i + 1]
      BY <3>2
    <3>4. SubSeq(t, 1, m) = x
      BY <2>1 DEF x
    <3>5. QED
      BY <3>1, <3>3, <3>4
  <2>3. (\A i \in 1 .. m : end[m - i + 1] = s[n - i + 1]) <=>
        (\A j \in 1 .. m : s[n - m + j] = end[j])
    <3>1. ASSUME \A i \in 1 .. m : end[m - i + 1] = s[n - i + 1], NEW j \in 1 .. m
          PROVE  s[n - m + j] = end[j]
      <4>1. m - j + 1 \in 1 .. m /\ m - (m - j + 1) + 1 = j /\ n - (m - j + 1) + 1 = n - m + j
        BY <1>1
      <4>2. QED
        BY <3>1, <4>1
    <3>2. ASSUME \A j \in 1 .. m : s[n - m + j] = end[j], NEW i \in 1 .. m
          PROVE  end[m - i + 1] = s[n - i + 1]
      <4>1. m - i + 1 \in 1 .. m /\ n - m + (m - i + 1) = n - i + 1
        BY <1>1
      <4>2. QED
        BY <3>2, <4>1
    <3>3. QED
      BY <3>1, <3>2
  <2>4. QED
    BY <1>3, <1>4, <2>2, <2>3 DEF Ended
<1>5. QED
  BY <1>3, <1>4 DEF Ended

\* A terminator that is in a longer line was there before, or is at its end.
LEMMA OccursAppend ==
    ASSUME NEW end \in Ends, NEW s \in Seq(Uart!Bytes), NEW b \in Uart!Bytes
    PROVE  Uart!Occurs(end, Append(s, b)) <=> Uart!Occurs(end, s) \/ Ended(end, Append(s, b))
<1> DEFINE m == Len(end)
           n == Len(s)
           r == Append(s, b)
           At(q, i) == \A j \in 1 .. m : q[i + j - 1] = end[j]
<1>1. m \in {1, 2} /\ n \in Nat /\ Len(r) = n + 1 /\ r \in Seq(Uart!Bytes)
         /\ \A i \in 1 .. n : r[i] = s[i]
  BY EndsAre, AppendProperties
<1> HIDE DEF r
<1>2. ASSUME NEW q \in Seq(Uart!Bytes)
      PROVE  Uart!Occurs(end, q) <=> \E i \in 1 .. Len(q) - m + 1 : At(q, i)
  <2> HIDE DEF m
  <2>1. \A i \in 1 .. Len(q) - m + 1 : SubSeq(q, i, i + m - 1) = end <=> At(q, i)
    BY PartIs DEF m
  <2> HIDE DEF At
  <2>2. QED
    BY <2>1 DEF Uart!Occurs, m
<1>3. ASSUME NEW i \in 1 .. n - m + 1 PROVE At(r, i) <=> At(s, i)
  <2>1. \A j \in 1 .. m : i + j - 1 \in 1 .. n
    BY <1>1
  <2>2. QED
    BY <1>1, <2>1
<1>4. Ended(end, r) <=> n - m + 2 \in 1 .. (n + 1) - m + 1 /\ At(r, n - m + 2)
  <2>1. \A j \in 1 .. m : (n - m + 2) + j - 1 = (n + 1) - m + j
    BY <1>1
  <2>2. m <= n + 1 <=> n - m + 2 \in 1 .. (n + 1) - m + 1
    BY <1>1
  <2>3. QED
    BY <1>1, <2>1, <2>2 DEF Ended
<1>5. 1 .. (n + 1) - m + 1 = (1 .. n - m + 1) \cup (IF n - m + 2 >= 1 THEN {n - m + 2} ELSE {})
  BY <1>1
<1>6. QED
  <2>1. Uart!Occurs(end, r) <=> \E i \in 1 .. (n + 1) - m + 1 : At(r, i)
    <3> HIDE DEF At, m, n
    <3>1. QED
      BY <1>1, <1>2
  <2>2. Uart!Occurs(end, s) <=> \E i \in 1 .. n - m + 1 : At(s, i)
    BY <1>2
  <2> HIDE DEF At, m, n
  <2>3. QED
    BY <1>1, <1>3, <1>4, <1>5, <2>1, <2>2 DEF r

\* What the loop of readline() knows of the bytes it has looked at: it stops at the
\* first terminator, and has begun on one exactly if the last byte is a carriage return.
Searches(end) ==
    {st \in [endIdx : Nat, line : Seq(Uart!Bytes), seen : Seq(Uart!Bytes)] :
        /\ st.endIdx <= Len(end)
        /\ st.line = Uart!Doubled(end, st.seen)
        /\ IF st.endIdx = Len(end)
           THEN Ended(end, st.seen) /\ ~Uart!Occurs(end, Uart!Front(st.seen))
           ELSE ~Uart!Occurs(end, st.seen)
        /\ Len(end) = 2 =>
              (st.endIdx = 1 <=> st.seen # <<>> /\ st.seen[Len(st.seen)] = end[1])}

\* One byte more: what a line ends with, and what becomes of its last byte.
LEMMA OneMore ==
    ASSUME NEW end \in Ends, NEW s \in Seq(Uart!Bytes), NEW b \in Uart!Bytes
    PROVE  LET r == Append(s, b)
               begun == s # <<>> /\ s[Len(s)] = end[1]
           IN  /\ r \in Seq(Uart!Bytes) /\ r # <<>> /\ r[Len(r)] = b
               /\ Uart!Front(r) = s
               /\ Len(end) = 1 => (Ended(end, r) <=> b = end[1])
               /\ Len(end) = 2 => (Ended(end, r) <=> begun /\ b = end[2])
               /\ s # <<>> /\ Uart!Stray(end, r, Len(s)) <=>
                     Len(end) = 2 /\ begun /\ b \notin {end[1], end[2]}
<1> DEFINE r == Append(s, b)
           n == Len(s)
           begun == s # <<>> /\ s[n] = end[1]
<1>1. n \in Nat /\ Len(r) = n + 1 /\ r \in Seq(Uart!Bytes) /\ r # <<>> /\ r[n + 1] = b
         /\ (s # <<>> <=> n >= 1) /\ \A i \in 1 .. n : r[i] = s[i]
  BY AppendProperties
<1>2. Uart!Front(r) = s
  <2>1. SubSeq(r, 1, n) = s
    OBVIOUS
  <2>2. Len(r) - 1 = n
    BY <1>1
  <2> HIDE DEF r, n
  <2>3. QED
    BY <2>1, <2>2 DEF Uart!Front
<1> HIDE DEF r
<1>3. Len(end) = 1 => (Ended(end, r) <=> b = end[1])
  <2> SUFFICES ASSUME Len(end) = 1 PROVE Ended(end, r) <=> b = end[1]
    OBVIOUS
  <2>1. \A j \in 1 .. 1 : j = 1 /\ (n + 1) - 1 + j = n + 1
    BY <1>1
  <2>2. Ended(end, r) <=> 1 <= n + 1 /\ \A j \in 1 .. 1 : r[(n + 1) - 1 + j] = end[j]
    BY <1>1 DEF Ended
  <2>3. QED
    BY <1>1, <2>1, <2>2
<1>4. Len(end) = 2 => (Ended(end, r) <=> begun /\ b = end[2])
  <2> SUFFICES ASSUME Len(end) = 2 PROVE Ended(end, r) <=> begun /\ b = end[2]
    OBVIOUS
  <2>1. Ended(end, r) <=> 2 <= n + 1 /\ \A j \in 1 .. 2 : r[(n + 1) - 2 + j] = end[j]
    BY <1>1 DEF Ended
  <2>2. (\A j \in 1 .. 2 : r[(n + 1) - 2 + j] = end[j]) <=> r[n] = end[1] /\ r[n + 1] = end[2]
    <3>1. 1 .. 2 = {1, 2} /\ (n + 1) - 2 + 1 = n /\ (n + 1) - 2 + 2 = n + 1
      BY <1>1
    <3>2. QED
      BY <3>1
  <2>3. n >= 1 => r[n] = s[n]
    BY <1>1
  <2>4. QED
    BY <1>1, <2>1, <2>2, <2>3
<1>5. s # <<>> /\ Uart!Stray(end, r, n) <=> Len(end) = 2 /\ begun /\ b \notin {end[1], end[2]}
  <2>1. n >= 1 => r[n] = s[n]
    BY <1>1
  <2>2. QED
    BY <1>1, <2>1 DEF Uart!Stray
<1>6. QED
  BY <1>1, <1>2, <1>3, <1>4, <1>5 DEF r

\* One turn of the loop (Uart.cpp:357-383).
LEMMA TurnSearches ==
    ASSUME reading \in Uart!EscapeSequence,
           NEW st \in Searches(Uart!EndOfLine[reading]), NEW b \in Uart!Bytes
    PROVE  Uart!MatchByte(st, b) \in Searches(Uart!EndOfLine[reading])
<1> DEFINE end == Uart!EndOfLine[reading]
           B == Uart!Bytes
           s == st.seen
           r == Append(s, b)
           begun == s # <<>> /\ s[Len(s)] = end[1]
           next == Uart!MatchByte(st, b)
           again == st.line \o SubSeq(end, 1, st.endIdx)
<1>1. end \in Ends
  BY DEF Uart!EscapeSequence, Uart!EndOfLine, Ends
<1>2. /\ Len(end) \in {1, 2} /\ end \in Seq(B)
      /\ Len(end) = 2 => end[1] # end[2]
      /\ end[1] \in B
  BY <1>1, EndsAre
<1>3. /\ st \in [endIdx : Nat, line : Seq(B), seen : Seq(B)]
      /\ st.endIdx <= Len(end) /\ st.line = Uart!Doubled(end, s)
      /\ st.endIdx # Len(end) => ~Uart!Occurs(end, s)
      /\ Len(end) = 2 => (st.endIdx = 1 <=> begun)
  BY DEF Searches
<1>4. /\ r \in Seq(B) /\ r # <<>> /\ r[Len(r)] = b
      /\ Uart!Front(r) = s
      /\ Len(end) = 1 => (Ended(end, r) <=> b = end[1])
      /\ Len(end) = 2 => (Ended(end, r) <=> begun /\ b = end[2])
      /\ s # <<>> /\ Uart!Stray(end, r, Len(s)) <=>
            Len(end) = 2 /\ begun /\ b \notin {end[1], end[2]}
  <2> HIDE DEF end
  <2>1. QED
    BY <1>1, <1>3, OneMore
<1>5. Uart!Doubled(end, r) =
         IF Len(end) = 2 /\ begun /\ b \notin {end[1], end[2]}
         THEN Append(Append(st.line, s[Len(s)]), b) ELSE Append(st.line, b)
  <2> HIDE DEF end
  <2>1. QED
    BY <1>1, <1>3, <1>4, DoubledAppend
<1>6. Uart!Occurs(end, r) <=> Uart!Occurs(end, s) \/ Ended(end, r)
  <2> HIDE DEF end
  <2>1. QED
    BY <1>1, <1>3, OccursAppend
<1>7. next = CASE st.endIdx = Len(end) -> st
               [] st.endIdx < Len(end) /\ b = end[st.endIdx + 1] ->
                     [[st EXCEPT !.seen = r] EXCEPT !.endIdx = @ + 1, !.line = Append(@, b)]
               [] OTHER ->
                     IF st.endIdx > 0 /\ b = end[1]
                     THEN [[st EXCEPT !.seen = r] EXCEPT !.endIdx = 1, !.line = again]
                     ELSE [[st EXCEPT !.seen = r] EXCEPT !.endIdx = 0, !.line = Append(again, b)]
  BY DEF Uart!MatchByte
<1>8. /\ st.endIdx = 0 => again = st.line
      /\ st.endIdx = 1 => again = Append(st.line, end[1])
  <2>1. SubSeq(end, 1, 0) = <<>> /\ SubSeq(end, 1, 1) = <<end[1]>>
    <3> HIDE DEF end
    <3>1. Len(end) >= 1 /\ Len(end) \in Nat /\ end[1] \in B
      BY <1>2
    <3>2. SubSeq(end, 1, 0) = <<>>
      BY <1>2
    <3>3. SubSeq(end, 1, 1) = [i \in 1 .. 1 |-> end[i]]
      BY <1>2, <3>1
    <3>4. <<end[1]>> = [i \in 1 .. 1 |-> end[1]]
      OBVIOUS
    <3>5. [i \in 1 .. 1 |-> end[i]] = [i \in 1 .. 1 |-> end[1]]
      OBVIOUS
    <3>6. QED
      BY <3>2, <3>3, <3>4, <3>5, Zenon
  <2> HIDE DEF end
  <2>2. st.line \o <<>> = st.line /\ st.line \o <<end[1]>> = Append(st.line, end[1])
    BY <1>2, <1>3
  <2>3. QED
    BY <2>1, <2>2
<1>9. SUFFICES next \in Searches(end)
  OBVIOUS
<1>10. st \in Searches(end)
  OBVIOUS
<1> HIDE DEF end, r, again, next, B
\* A state after which the loop goes on, or stops at a terminator
<1> DEFINE After(k, l) == [endIdx |-> k, line |-> l, seen |-> r]
<1> DEFINE seen == [st EXCEPT !.seen = r]
<1>11. ASSUME NEW k, NEW l PROVE [seen EXCEPT !.endIdx = k, !.line = l] = After(k, l)
  <2>1. st = [endIdx |-> st.endIdx, line |-> st.line, seen |-> s]
    BY <1>3
  <2>2. seen = [endIdx |-> st.endIdx, line |-> st.line, seen |-> r]
    <3>1. [[endIdx |-> st.endIdx, line |-> st.line, seen |-> s] EXCEPT !.seen = r]
             = [endIdx |-> st.endIdx, line |-> st.line, seen |-> r]
      OBVIOUS
    <3>2. QED
      BY <2>1, <3>1, Zenon
  <2> HIDE DEF seen
  <2>3. [[endIdx |-> st.endIdx, line |-> st.line, seen |-> r] EXCEPT !.endIdx = k, !.line = l]
           = After(k, l)
    <3>1. [[endIdx |-> st.endIdx, line |-> st.line, seen |-> r] EXCEPT !.endIdx = k]
             = [endIdx |-> k, line |-> st.line, seen |-> r]
      OBVIOUS
    <3>2. [[endIdx |-> k, line |-> st.line, seen |-> r] EXCEPT !.line = l]
             = [endIdx |-> k, line |-> l, seen |-> r]
      OBVIOUS
    <3>3. QED
      BY <3>1, <3>2, Zenon
  <2>4. QED
    BY <2>2, <2>3, Zenon
<1>12. ASSUME NEW k \in 0 .. 2, NEW l \in Seq(B), next = After(k, l), k <= Len(end),
             l = Uart!Doubled(end, r), k = Len(end) <=> Ended(end, r),
             ~Uart!Occurs(end, s),
             Len(end) = 2 => (k = 1 <=> b = end[1])
      PROVE  next \in Searches(end)
  <2>1. next \in [endIdx : Nat, line : Seq(B), seen : Seq(B)] /\ next.endIdx = k
           /\ next.line = l /\ next.seen = r
    BY <1>4, <1>12
  <2>2. IF k = Len(end) THEN Ended(end, r) /\ ~Uart!Occurs(end, Uart!Front(r))
                        ELSE ~Uart!Occurs(end, r)
    BY <1>4, <1>6, <1>12
  <2>3. Len(end) = 2 => (k = 1 <=> r # <<>> /\ r[Len(r)] = end[1])
    BY <1>4, <1>12
  <2>4. QED
    BY <1>12, <2>1, <2>2, <2>3 DEF Searches, B
<1>13. CASE st.endIdx = Len(end)
  <2>1. next = st
    BY <1>7, <1>13
  <2>2. QED
    BY <1>10, <2>1
<1>14. CASE st.endIdx < Len(end) /\ b = end[st.endIdx + 1]
  <2>1. next = After(st.endIdx + 1, Append(st.line, b))
    <3>1. next = [seen EXCEPT !.endIdx = @ + 1, !.line = Append(@, b)]
      BY <1>3, <1>7, <1>14
    <3>2. seen.endIdx = st.endIdx /\ seen.line = st.line
      BY <1>3
    <3>3. QED
      BY <1>11, <3>1, <3>2
  <2>2. Append(st.line, b) \in Seq(B) /\ st.endIdx + 1 \in 0 .. 2 /\ st.endIdx \in {0, 1}
    BY <1>2, <1>3, <1>14 DEF B
  <2>3. Append(st.line, b) = Uart!Doubled(end, r)
    BY <1>2, <1>3, <1>5, <1>14, <2>2
  <2>4. st.endIdx + 1 = Len(end) <=> Ended(end, r)
    <3>1. CASE Len(end) = 1
      <4>1. st.endIdx = 0 /\ b = end[1]
        BY <1>14, <2>2, <3>1
      <4>2. QED
        BY <1>4, <3>1, <4>1
    <3>2. CASE Len(end) = 2
      <4>1. st.endIdx = 0 => b # end[2]
        BY <1>2, <1>14, <3>2
      <4>2. st.endIdx = 1 => b = end[2]
        BY <1>14
      <4>3. QED
        BY <1>3, <1>4, <2>2, <3>2, <4>1, <4>2
    <3>3. QED
      BY <1>2, <3>1, <3>2
  <2>5. Len(end) = 2 => (st.endIdx + 1 = 1 <=> b = end[1])
    BY <1>2, <1>14, <2>2
  <2>6. QED
    <3>1. st.endIdx + 1 <= Len(end) /\ ~Uart!Occurs(end, s)
      BY <1>2, <1>3, <1>14, <2>2
    <3>2. QED
      BY <1>12, <2>1, <2>2, <2>3, <2>4, <2>5, <3>1, Zenon
<1>15. CASE st.endIdx < Len(end) /\ b # end[st.endIdx + 1] /\ st.endIdx > 0 /\ b = end[1]
  <2>1. st.endIdx = 1 /\ Len(end) = 2
    BY <1>2, <1>3, <1>15
  <2>2. next = After(1, Append(st.line, b))
    <3>1. next = [seen EXCEPT !.endIdx = 1, !.line = again]
      BY <1>3, <1>7, <1>15
    <3>2. again = Append(st.line, b)
      BY <1>8, <1>15, <2>1
    <3>3. QED
      BY <1>11, <3>1, <3>2
  <2>3. Append(st.line, b) = Uart!Doubled(end, r) /\ Append(st.line, b) \in Seq(B)
    BY <1>3, <1>5, <1>15, <2>1 DEF B
  <2>4. 1 = Len(end) <=> Ended(end, r)
    BY <1>2, <1>4, <1>15, <2>1
  <2>5. QED
    BY <1>3, <1>12, <1>15, <2>1, <2>2, <2>3, <2>4
<1>16. CASE st.endIdx < Len(end) /\ b # end[st.endIdx + 1] /\ ~(st.endIdx > 0 /\ b = end[1])
  <2>1. next = After(0, Append(again, b))
    <3>1. next = [seen EXCEPT !.endIdx = 0, !.line = Append(again, b)]
      BY <1>3, <1>7, <1>16
    <3>2. QED
      BY <1>11, <3>1
  <2>2. st.endIdx \in {0, 1} /\ b # end[1] /\ (Len(end) = 2 => (begun <=> st.endIdx = 1))
    BY <1>2, <1>3, <1>16
  <2>3. Append(again, b) = Uart!Doubled(end, r)
    <3>1. CASE st.endIdx = 0
      BY <1>2, <1>5, <1>8, <2>2, <3>1
    <3>2. CASE st.endIdx = 1
      <4>1. Len(end) = 2 /\ b # end[2] /\ begun
        BY <1>2, <1>16, <2>2, <3>2
      <4>2. QED
        BY <1>5, <1>8, <2>2, <3>2, <4>1
    <3>3. QED
      BY <2>2, <3>1, <3>2
  <2>4. Append(again, b) \in Seq(B)
    <3>1. st.line \in Seq(B) /\ end[1] \in B /\ b \in B
      BY <1>2, <1>3 DEF B
    <3>2. \A l \in Seq(B), x \in B : Append(l, x) \in Seq(B)
      OBVIOUS
    <3>3. again \in Seq(B)
      BY <1>8, <2>2, <3>1, <3>2
    <3>4. QED
      BY <3>1, <3>2, <3>3
  <2>5. 0 = Len(end) <=> Ended(end, r)
    BY <1>2, <1>4, <1>16, <2>2
  <2>6. QED
    BY <1>3, <1>12, <1>16, <2>1, <2>2, <2>3, <2>4, <2>5
<1>17. QED
  BY <1>2, <1>3, <1>13, <1>14, <1>15, <1>16

\* The loop over a piece of any length (Uart.cpp:354-384).
LEMMA ScanSearches ==
    ASSUME reading \in Uart!EscapeSequence, wire \in Seq(Uart!Bytes),
           NEW st0 \in Searches(Uart!EndOfLine[reading]), NEW n \in 1 .. Len(wire)
    PROVE  Uart!Scan(st0, n) \in Searches(Uart!EndOfLine[reading])
<1> DEFINE X == Searches(Uart!EndOfLine[reading])
           F == [p \in X \X (1 .. n) |-> Uart!MatchByte(p[1], wire[p[2]])]
           Eq(f) == f = [k \in 0 .. n |-> IF k = 0 THEN st0 ELSE Uart!MatchByte(f[k - 1], wire[k])]
           st == CHOOSE f : Eq(f)
<1>1. n \in Nat \ {0} /\ \A k \in 1 .. n : wire[k] \in Uart!Bytes
  OBVIOUS
<1>2. \A x \in X, k \in 1 .. n : Uart!MatchByte(x, wire[k]) \in X
  BY <1>1, TurnSearches
<1> HIDE DEF X
<1>3. F \in StepsOf(X, n)
  BY <1>2 DEF StepsOf
<1>4. \E g : MakesSteps(g, X, st0, n, F)
  <2> HIDE DEF F
  <2>1. st0 \in X
    BY DEF X
  <2>2. QED
    BY <1>1, <1>3, <2>1, Recursion, Zenon
<1>5. PICK g : MakesSteps(g, X, st0, n, F)
  BY <1>4
<1>6. g \in [0 .. n -> X] /\ g[0] = st0 /\ \A k \in 1 .. n : g[k] = F[<<g[k - 1], k>>]
  BY <1>5, Zenon DEF MakesSteps
<1>7. \A k \in 1 .. n : g[k] = Uart!MatchByte(g[k - 1], wire[k])
  <2> SUFFICES ASSUME NEW k \in 1 .. n PROVE g[k] = Uart!MatchByte(g[k - 1], wire[k])
    OBVIOUS
  <2>1. <<g[k - 1], k>> \in X \X (1 .. n)
    <3>1. k - 1 \in 0 .. n
      BY <1>1
    <3>2. QED
      BY <1>6, <3>1
  <2>2. F[<<g[k - 1], k>>] = Uart!MatchByte(g[k - 1], wire[k])
    BY <2>1
  <2> HIDE DEF F
  <2>3. QED
    BY <1>6, <2>2
<1>8. \E f : Eq(f)
  <2>1. g = [k \in 0 .. n |-> g[k]]
    BY <1>6
  <2>2. \A k \in 0 .. n : g[k] = IF k = 0 THEN st0 ELSE Uart!MatchByte(g[k - 1], wire[k])
    BY <1>6, <1>7
  <2>3. Eq(g)
    BY <2>1, <2>2
  <2> HIDE DEF Eq
  <2>4. QED
    BY <2>3
<1>9. Eq(st)
  <2> HIDE DEF Eq
  <2>1. QED
    BY <1>8
<1>10. Uart!Scan(st0, n) = st[n]
  BY DEF Uart!Scan
<1> HIDE DEF st, F
<1>11. \A k \in 0 .. n : st[k] = IF k = 0 THEN st0 ELSE Uart!MatchByte(st[k - 1], wire[k])
  BY <1>9
<1> DEFINE D == {k \in Nat : k \in 0 .. n => st[k] \in X}
<1>12. 0 \in D
  BY <1>11 DEF X
<1>13. ASSUME NEW k \in Nat, k \in D PROVE k + 1 \in D
  <2> SUFFICES ASSUME k + 1 \in 0 .. n PROVE st[k + 1] \in X
    OBVIOUS
  <2>1. st[k] \in X /\ k + 1 \in 1 .. n
    BY <1>13
  <2>2. st[k + 1] = Uart!MatchByte(st[k], wire[k + 1])
    <3>1. k + 1 # 0 /\ (k + 1) - 1 = k
      OBVIOUS
    <3>2. QED
      BY <1>11, <3>1
  <2>3. QED
    BY <1>2, <2>1, <2>2
<1> HIDE DEF D
<1>14. \A k \in Nat : k \in D
  BY <1>12, <1>13, SetInduction
<1>15. n \in Nat /\ n \in 0 .. n
  BY <1>1
<1>16. st[n] \in X
  BY <1>14, <1>15 DEF D
<1>17. QED
  BY <1>10, <1>16 DEF X

\* Between two pieces the terminator has not been found, and what has been returned
\* is right.
LineInv ==
    /\ wire \in Seq(Uart!Bytes)
    /\ reading \in Uart!EscapeSequence \cup {"none"}
    /\ reading # "none" =>
          match \in {st \in Searches(Uart!EndOfLine[reading]) :
                        st.endIdx # Len(Uart!EndOfLine[reading])}
    /\ Uart!LineUpToTerminator

\* The names of the terminators
LEMMA ReadingOne ==
    /\ \A e \in Uart!EscapeSequence : Uart!EndOfLine[e] \in Ends
    /\ "none" \notin Uart!EscapeSequence
BY DEF Uart!EscapeSequence, Uart!EndOfLine, Ends

\* Of a line without terminator no part has one, nor is one at its end.
LEMMA NoneAtAll ==
    ASSUME NEW end \in Ends, NEW s \in Seq(Uart!Bytes), ~Uart!Occurs(end, s)
    PROVE  ~Ended(end, s) /\ (s # <<>> => ~Uart!Occurs(end, Uart!Front(s)))
<1>1. CASE s = <<>>
  BY <1>1, EndsAre DEF Ended
<1>2. CASE s # <<>>
  <2> DEFINE f == SubSeq(s, 1, Len(s) - 1)
             b == s[Len(s)]
  <2>1. f \in Seq(Uart!Bytes) /\ b \in Uart!Bytes /\ s = Append(f, b)
    BY <1>2
  <2>2. f = Uart!Front(s)
    BY DEF Uart!Front
  <2> HIDE DEF f, b
  <2>3. QED
    BY <2>1, <2>2, OccursAppend
<1>3. QED
  BY <1>1, <1>2

\* A search begins with nothing.
LEMMA NothingFound ==
    ASSUME NEW end \in Ends
    PROVE  Uart!Nothing \in Searches(end) /\ Uart!Nothing.endIdx # Len(end)
<1>1. Len(end) \in {1, 2}
  BY EndsAre
<1>2. Uart!Doubled(end, <<>>) = <<>>
  BY DEF Uart!Doubled, Uart!FlattenSeq
<1>3. ~Uart!Occurs(end, <<>>)
  BY <1>1 DEF Uart!Occurs
<1>4. <<>> \in Seq(Uart!Bytes)
  OBVIOUS
<1>5. QED
  BY <1>1, <1>2, <1>3, <1>4 DEF Searches, Uart!Nothing

\* Initially nothing has been read.
LEMMA LineInit == Uart!Init => LineInv
BY ReadingOne DEF Uart!Init, LineInv, Uart!LineUpToTerminator, Uart!NoLine

\* What has been looked at, when the search is over or not yet
LEMMA SearchHolds ==
    ASSUME NEW end \in Ends, NEW st \in Searches(end)
    PROVE  /\ st.line = Uart!Doubled(end, st.seen) /\ st.seen \in Seq(Uart!Bytes)
           /\ st.endIdx # Len(end) => ~Uart!Occurs(end, st.seen)
           /\ st.endIdx = Len(end) <=> Uart!IsSuffix(end, st.seen)
           /\ st.seen # <<>> => ~Uart!Occurs(end, Uart!Front(st.seen))
<1>1. /\ st.line = Uart!Doubled(end, st.seen) /\ st.seen \in Seq(Uart!Bytes)
      /\ IF st.endIdx = Len(end)
         THEN Ended(end, st.seen) /\ ~Uart!Occurs(end, Uart!Front(st.seen))
         ELSE ~Uart!Occurs(end, st.seen)
  BY DEF Searches
<1>2. Uart!IsSuffix(end, st.seen) <=> Ended(end, st.seen)
  BY <1>1, SuffixIs
<1>3. ~Uart!Occurs(end, st.seen) =>
         ~Ended(end, st.seen) /\ (st.seen # <<>> => ~Uart!Occurs(end, Uart!Front(st.seen)))
  BY <1>1, NoneAtAll
<1>4. QED
  BY <1>1, <1>2, <1>3

\* readline() returns, complete exactly if its search is over.
LEMMA ReturnIsRight ==
    ASSUME reading \in Uart!EscapeSequence,
           NEW st \in Searches(Uart!EndOfLine[reading]),
           NEW complete, complete <=> st.endIdx = Len(Uart!EndOfLine[reading]),
           Uart!Return(st, complete)
    PROVE  reading' = "none" /\ Uart!LineUpToTerminator'
<1> DEFINE end == Uart!EndOfLine[reading]
<1>1. end \in Ends
  BY ReadingOne
<1>2. /\ reading' = "none" /\ last'.end = reading /\ last'.complete = complete
      /\ last'.line = st.line /\ last'.seen = st.seen
  BY DEF Uart!Return
<1> HIDE DEF end
<1>3. /\ st.line = Uart!Doubled(end, st.seen)
      /\ st.endIdx = Len(end) <=> Uart!IsSuffix(end, st.seen)
      /\ st.seen # <<>> => ~Uart!Occurs(end, Uart!Front(st.seen))
  BY <1>1, SearchHolds DEF end
<1>4. Uart!EndOfLine[last'.end] = end
  BY <1>2 DEF end
<1>5. QED
  BY <1>2, <1>3, <1>4 DEF Uart!LineUpToTerminator, end

\* While a search goes on, nothing of the terminator is complete.
LEMMA SearchIsRight ==
    ASSUME reading' \in Uart!EscapeSequence,
           match' \in Searches(Uart!EndOfLine[reading']),
           match'.endIdx # Len(Uart!EndOfLine[reading']),
           last'.end # "none" => UNCHANGED last /\ Uart!LineUpToTerminator
    PROVE  Uart!LineUpToTerminator'
<1> DEFINE end == Uart!EndOfLine[reading']
<1>1. end \in Ends
  BY ReadingOne
<1>2. ~Uart!Occurs(end, match'.seen) /\ match'.line = Uart!Doubled(end, match'.seen)
  <2> HIDE DEF end
  <2>1. QED
    BY <1>1, SearchHolds DEF end
<1>3. QED
  BY <1>2 DEF Uart!LineUpToTerminator

\* Each step of a port that reads.
LEMMA LineStep ==
    ASSUME LineInv, [Uart!Next]_uartVars
    PROVE  LineInv'
<1>1. /\ wire \in Seq(Uart!Bytes)
      /\ reading \in Uart!EscapeSequence \cup {"none"}
      /\ reading # "none" => /\ reading \in Uart!EscapeSequence
                             /\ match \in Searches(Uart!EndOfLine[reading])
                             /\ match.endIdx # Len(Uart!EndOfLine[reading])
      /\ Uart!LineUpToTerminator
  BY DEF LineInv
<1>2. ASSUME wire' \in Seq(Uart!Bytes), UNCHANGED <<reading, match, last>> PROVE LineInv'
  BY <1>2 DEF LineInv, Uart!LineUpToTerminator
<1>3. CASE UNCHANGED <<wire, reading, match, last>>
  BY <1>1, <1>2, <1>3
<1>4. CASE Uart!Open \/ Uart!CreateFile \/ Uart!Configure \/ Uart!Destroy \/ Uart!Misuse
  BY <1>3, <1>4 DEF Uart!Open, Uart!CreateFile, Uart!Configure, Uart!Destroy, Uart!Misuse,
     Uart!wireVars, Uart!lineVars
<1>5. CASE Uart!Close
  <2>1. wire' \in {wire, <<>>} /\ UNCHANGED <<reading, match, last>>
    BY <1>5 DEF Uart!Close, Uart!lineVars
  <2>2. <<>> \in Seq(Uart!Bytes)
    OBVIOUS
  <2>3. wire' \in Seq(Uart!Bytes)
    BY <1>1, <2>1, <2>2, Zenon
  <2>4. QED
    BY <1>2, <2>1, <2>3
<1>6. CASE Uart!Read
  <2>1. PICK n \in 1 .. Len(wire) : wire' = SubSeq(wire, n + 1, Len(wire))
    BY <1>6 DEF Uart!Read
  <2>2. SubSeq(wire, n + 1, Len(wire)) \in Seq(Uart!Bytes)
    <3>1. n + 1 \in Int /\ Len(wire) \in Int
             /\ \A i \in n + 1 .. Len(wire) : wire[i] \in Uart!Bytes
      BY <1>1
    <3>2. QED
      BY <3>1, SubSeqProperties
  <2>3. QED
    BY <1>2, <1>6, <2>1, <2>2 DEF Uart!Read, Uart!lineVars
<1>7. CASE Uart!CallRead \/ Uart!Write
  BY <1>3, <1>7 DEF Uart!CallRead, Uart!Write, Uart!lineVars
<1>8. CASE Uart!ReadFile
  <2>1. wire' = wire \/ (wire # <<>> /\ wire' = Tail(wire))
    BY <1>8 DEF Uart!ReadFile
  <2>2. wire' \in Seq(Uart!Bytes)
    BY <1>1, <2>1
  <2>3. QED
    BY <1>2, <1>8, <2>2 DEF Uart!ReadFile, Uart!lineVars
<1>9. ASSUME NEW b \in Uart!Bytes, Uart!Arrive(b) PROVE LineInv'
  <2>1. wire' \in Seq(Uart!Bytes)
    BY <1>1, <1>9 DEF Uart!Arrive
  <2>2. QED
    BY <1>2, <1>9, <2>1 DEF Uart!Arrive, Uart!lineVars
<1>10. ASSUME NEW e \in Uart!EscapeSequence, Uart!CallReadline(e) PROVE LineInv'
  <2>1. reading' = e /\ match' = Uart!Nothing /\ last' = Uart!NoLine /\ wire' = wire
    BY <1>10 DEF Uart!CallReadline, Uart!wireVars
  <2>2. /\ reading' \in Uart!EscapeSequence /\ last'.end = "none"
        /\ match' \in Searches(Uart!EndOfLine[reading'])
        /\ match'.endIdx # Len(Uart!EndOfLine[reading'])
    BY <2>1, ReadingOne, NothingFound DEF Uart!NoLine
  <2>3. Uart!LineUpToTerminator'
    BY <2>2, SearchIsRight
  <2>4. QED
    BY <1>1, <2>1, <2>2, <2>3 DEF LineInv
<1>11. CASE Uart!ReadChunk
  <2> DEFINE end == Uart!EndOfLine[reading]
  <2>1. reading \in Uart!EscapeSequence
    BY <1>1, <1>11 DEF Uart!ReadChunk
  <2>2. PICK n \in 1 .. Len(wire) :
           LET st == Uart!Scan(match, n)
           IN  /\ wire' = SubSeq(wire, n + 1, Len(wire))
               /\ IF st.endIdx = Len(end)
                  THEN Uart!Return(st, TRUE)
                  ELSE match' = st /\ UNCHANGED <<reading, last>>
    BY <1>11 DEF Uart!ReadChunk, Uart!Pieces
  <2> DEFINE st == Uart!Scan(match, n)
  <2>3. st \in Searches(end)
    BY <1>1, <2>1, ReadingOne, ScanSearches
  <2>4. wire' \in Seq(Uart!Bytes)
    BY <1>1, <2>2
  <2> HIDE DEF st
  <2>5. CASE st.endIdx = Len(end)
    <3>1. Uart!Return(st, TRUE)
      BY <2>2, <2>5 DEF st
    <3>2. reading' = "none" /\ Uart!LineUpToTerminator'
      BY <2>1, <2>3, <2>5, <3>1, ReturnIsRight
    <3>3. QED
      BY <2>4, <3>2 DEF LineInv
  <2>6. CASE st.endIdx # Len(end)
    <3>1. match' = st /\ UNCHANGED <<reading, last>>
      BY <2>2, <2>6 DEF st
    <3>2. /\ reading' \in Uart!EscapeSequence
          /\ match' \in Searches(Uart!EndOfLine[reading'])
          /\ match'.endIdx # Len(Uart!EndOfLine[reading'])
      BY <2>1, <2>3, <2>6, <3>1
    <3>3. Uart!LineUpToTerminator'
      BY <1>1, <3>1, <3>2, SearchIsRight
    <3>4. QED
      BY <2>4, <3>2, <3>3 DEF LineInv
  <2>7. QED
    BY <2>5, <2>6
<1>12. CASE Uart!GiveUp
  <2>1. /\ reading \in Uart!EscapeSequence /\ Uart!Return(match, FALSE) /\ wire' = wire
    BY <1>1, <1>12 DEF Uart!GiveUp, Uart!wireVars
  <2>2. reading' = "none" /\ Uart!LineUpToTerminator'
    BY <1>1, <2>1, ReadingOne, ReturnIsRight
  <2>3. QED
    BY <1>1, <2>1, <2>2 DEF LineInv
<1>13. CASE UNCHANGED uartVars
  BY <1>3, <1>13 DEF uartVars
<1>14. QED
  BY <1>4, <1>5, <1>6, <1>7, <1>8, <1>9, <1>10, <1>11, <1>12, <1>13 DEF Uart!Next

-----------------------------------------------------------------------------
(* Socket                                                                  *)

OfServers == {"setsockopt", "bind", "listen", "accept"}
OfClients == {"address", "connect"}
InOpen == OfServers \cup OfClients

SocketTypes ==
    /\ present \in [Socket!Sockets -> BOOLEAN]
    /\ upc \in [Socket!Sockets -> {"new", "prepared", "open", "failed", "closed"} \cup InOpen]
    /\ DOMAIN sockets = Socket!Sockets /\ DOMAIN conn = Socket!Sockets
    /\ prepares \in [Socket!Sockets -> Nat]
    /\ DOMAIN holder = Socket!Descriptors

\* Of a socket that has been prepared at most once: the descriptors it holds are
\* those of which it knows the numbers, and that of a connection only when open() has
\* come to it.  A client connects the descriptor it has.
Known(s) ==
    /\ prepares[s] = 0 => upc[s] = "new" /\ Socket!Held(s) = {}
    /\ Socket!Held(s) \subseteq {sockets[s], conn[s]}
    /\ upc[s] \notin {"open", "closed"} => conn[s] = -1
    /\ s \in Clients => conn[s] \in {-1, sockets[s]}
    /\ s \in Servers /\ upc[s] = "failed" => Socket!Held(s) = {}

\* A socket without a user is in no call of open(), and has been closed.
Dropped(s) ==
    ~present[s] => upc[s] \notin InOpen /\ sockets[s] \notin Socket!Held(s)

SocketOf(s) ==
    /\ prepares[s] <= 1 => Known(s)
    /\ Dropped(s)
    /\ upc[s] \in OfServers => s \in Servers
    /\ upc[s] \in OfClients => s \in Clients

SocketInv == SocketTypes /\ \A s \in Socket!Sockets : SocketOf(s)

\* close() takes a number from whoever holds it, and from nobody anything else
\* (Socket.cpp:290-299).
LEMMA CloseReleases ==
    ASSUME SocketTypes, NEW n, holder' = Socket!Closed(n), NEW s \in Socket!Sockets
    PROVE  /\ Socket!Held(s)' \subseteq Socket!Held(s) \ {n}
           /\ DOMAIN holder' = Socket!Descriptors
<1>1. s # Socket!Free
  BY SocketsAssumption
<1>2. CASE n \in Socket!Descriptors
  BY <1>1, <1>2 DEF Socket!Closed, Socket!Held, SocketTypes
<1>3. CASE n \notin Socket!Descriptors
  BY <1>3 DEF Socket!Closed, Socket!Held, SocketTypes
<1>4. QED
  BY <1>2, <1>3

\* A number that is handed out is one more for whoever gets it, and for nobody else.
LEMMA OpenTakes ==
    ASSUME SocketTypes, NEW n, NEW h, holder' = [holder EXCEPT ![n] = h], NEW s \in Socket!Sockets
    PROVE  /\ Socket!Held(s)' \subseteq Socket!Held(s) \cup {n}
           /\ s # h => Socket!Held(s)' \subseteq Socket!Held(s)
           /\ DOMAIN holder' = Socket!Descriptors
BY DEF Socket!Held, SocketTypes

\* -1 is no descriptor.
LEMMA NoDescriptor == \A s : -1 \notin Socket!Held(s)
BY SocketsAssumption DEF Socket!Held, Socket!Descriptors

\* A step of another socket may take descriptors away, and does nothing else.
LEMMA OthersKeep ==
    ASSUME NEW s \in Socket!Sockets, SocketOf(s), Socket!Held(s)' \subseteq Socket!Held(s),
           present'[s] = present[s], upc'[s] = upc[s], sockets'[s] = sockets[s],
           conn'[s] = conn[s], prepares'[s] = prepares[s]
    PROVE  SocketOf(s)'
BY DEF SocketOf, Known, Dropped

\* A step of open() that fails closes, and nothing is open then
\* (Socket.cpp:189-299).
LEMMA FailureCloses ==
    ASSUME SocketInv, NEW s \in Socket!Sockets, upc[s] \in InOpen,
           upc' = [upc EXCEPT ![s] = "failed"], Socket!close(s),
           conn' = conn \/ conn' = [conn EXCEPT ![s] = -1],
           UNCHANGED <<present, sockets, prepares>>
    PROVE  SocketInv'
<1>1. ASSUME NEW t \in Socket!Sockets
      PROVE  /\ Socket!Held(t)' \subseteq Socket!Held(t) \ {sockets[s]}
             /\ DOMAIN holder' = Socket!Descriptors
  BY CloseReleases DEF Socket!close, SocketInv
<1>2. SocketTypes'
  BY <1>1 DEF SocketInv, SocketTypes
<1>3. ASSUME NEW t \in Socket!Sockets, t # s PROVE SocketOf(t)'
  BY <1>1, <1>3, OthersKeep DEF SocketInv, SocketTypes
<1>4. SocketOf(s)'
  <2>1. upc'[s] = "failed" /\ present[s] /\ present'[s]
    BY DEF SocketInv, SocketTypes, SocketOf, Dropped
  <2>2. ASSUME prepares'[s] <= 1 PROVE Known(s)'
    <3>1. Known(s) /\ conn[s] = -1 /\ prepares[s] # 0
      BY <2>2 DEF SocketInv, SocketOf, Known, InOpen, OfServers, OfClients
    <3>2. conn'[s] = -1
      BY <3>1 DEF SocketInv, SocketTypes
    <3>3. Socket!Held(s)' = {}
      BY <1>1, <3>1, NoDescriptor DEF Known
    <3>4. QED
      BY <2>1, <3>1, <3>2, <3>3 DEF Known
  <2>3. QED
    BY <2>1, <2>2 DEF SocketOf, Dropped, OfServers, OfClients
<1>5. QED
  BY <1>2, <1>3, <1>4 DEF SocketInv

\* A step of open() that succeeds, or Address(), which keeps the client's descriptor.
LEMMA OpenGoesOn ==
    ASSUME SocketInv, NEW s \in Socket!Sockets, NEW to,
           upc[s] \in InOpen \cup {"prepared", "failed"}, upc' = [upc EXCEPT ![s] = to],
           present[s] \/ upc[s] \in InOpen,
           \/ to \in OfServers /\ s \in Servers
           \/ to \in OfClients \cup {"failed"} /\ s \in Clients,
           UNCHANGED <<present, sockets, conn, holder, prepares>>
    PROVE  SocketInv'
<1>1. SocketTypes'
  BY DEF SocketInv, SocketTypes, InOpen
<1>2. \A t : Socket!Held(t)' = Socket!Held(t)
  BY DEF Socket!Held
<1>3. ASSUME NEW t \in Socket!Sockets, t # s PROVE SocketOf(t)'
  BY <1>2, <1>3, OthersKeep DEF SocketInv, SocketTypes
<1>4. SocketOf(s)'
  <2>1. upc'[s] = to /\ present[s]
    BY DEF SocketInv, SocketTypes, SocketOf, Dropped
  <2>2. s \in Clients => s \notin Servers
    BY SocketsAssumption
  <2>3. ASSUME prepares'[s] <= 1 PROVE Known(s)'
    <3>1. Known(s) /\ conn[s] = -1 /\ prepares[s] # 0
      BY <2>3 DEF SocketInv, SocketOf, Known, InOpen, OfServers, OfClients
    <3>2. QED
      BY <1>2, <2>1, <2>2, <3>1 DEF Known, OfServers
  <2>4. QED
    BY <2>1, <2>2, <2>3 DEF SocketOf, Dropped, OfServers, OfClients
<1>5. QED
  BY <1>1, <1>3, <1>4 DEF SocketInv

\* A step that leaves the members of all sockets alone and may take descriptors away.
LEMMA TableShrinks ==
    ASSUME SocketInv, UNCHANGED <<present, upc, sockets, conn, prepares>>,
           DOMAIN holder' = Socket!Descriptors,
           \A s \in Socket!Sockets : Socket!Held(s)' \subseteq Socket!Held(s)
    PROVE  SocketInv'
<1>1. SocketTypes'
  BY DEF SocketInv, SocketTypes
<1>2. ASSUME NEW s \in Socket!Sockets PROVE SocketOf(s)'
  BY <1>2, OthersKeep DEF SocketInv
<1>3. QED
  BY <1>1, <1>2 DEF SocketInv

\* prepare() keeps the number socket() returns, but for 0 (Socket.cpp:189-208).
LEMMA PrepareStep ==
    ASSUME SocketInv, NEW s \in Socket!Sockets, Socket!prepare(s)
    PROVE  SocketInv'
<1>1. PICK n : /\ sockets' = [sockets EXCEPT ![s] = n]
               /\ holder' = IF n <= 0 THEN holder ELSE [holder EXCEPT ![n] = s]
               /\ upc' = [upc EXCEPT ![s] = IF n = 0 THEN "failed" ELSE "prepared"]
  BY DEF Socket!prepare
<1>2. /\ present[s] /\ upc[s] \notin InOpen /\ UNCHANGED <<present, conn>>
      /\ prepares' = [prepares EXCEPT ![s] = @ + 1]
  BY DEF Socket!prepare, InOpen, OfServers, OfClients
<1>3. ASSUME NEW t \in Socket!Sockets
      PROVE  /\ Socket!Held(t)' \subseteq Socket!Held(t) \cup {n}
             /\ t # s => Socket!Held(t)' \subseteq Socket!Held(t)
             /\ n = 0 => Socket!Held(t)' = Socket!Held(t)
             /\ DOMAIN holder' = Socket!Descriptors
  <2>1. CASE holder' = holder
    BY <2>1 DEF Socket!Held, SocketInv, SocketTypes
  <2>2. CASE holder' = [holder EXCEPT ![n] = s] /\ n # 0
    BY <2>2, OpenTakes DEF SocketInv
  <2>3. n = 0 => n <= 0
    OBVIOUS
  <2>4. QED
    BY <1>1, <2>1, <2>2, <2>3
<1>4. SocketTypes'
  BY <1>1, <1>2, <1>3 DEF SocketInv, SocketTypes
<1>5. ASSUME NEW t \in Socket!Sockets, t # s PROVE SocketOf(t)'
  BY <1>1, <1>2, <1>3, <1>5, OthersKeep DEF SocketInv, SocketTypes
<1>6. SocketOf(s)'
  <2>1. /\ upc'[s] = (IF n = 0 THEN "failed" ELSE "prepared") /\ sockets'[s] = n
        /\ prepares'[s] = prepares[s] + 1 /\ prepares[s] \in Nat
    BY <1>1, <1>2 DEF SocketInv, SocketTypes
  <2>2. ASSUME prepares'[s] <= 1 PROVE Known(s)'
    <3>1. Known(s) /\ prepares[s] = 0 /\ prepares'[s] # 0
      BY <2>1, <2>2 DEF SocketInv, SocketOf
    <3>2. Socket!Held(s) = {} /\ conn'[s] = -1
      BY <1>2, <3>1 DEF Known
    <3>3. Socket!Held(s)' \subseteq {n} /\ (n = 0 => Socket!Held(s)' = {})
      BY <1>3, <3>2
    <3>4. QED
      BY <2>1, <3>1, <3>2, <3>3 DEF Known
  <2>3. QED
    BY <1>2, <2>1, <2>2 DEF SocketOf, Dropped, OfServers, OfClients
<1>7. QED
  BY <1>4, <1>5, <1>6 DEF SocketInv

\* accept() gives the server another descriptor, whose number is in _conn at once.
LEMMA AcceptStep ==
    ASSUME SocketInv, NEW s \in Socket!Sockets, Socket!Accept(s)
    PROVE  SocketInv'
<1>1. upc[s] = "accept" /\ upc[s] \in InOpen
  BY DEF Socket!Accept, Socket!UGoto, InOpen, OfServers
<1>2. CASE /\ upc' = [upc EXCEPT ![s] = "failed"] /\ Socket!close(s)
           /\ conn' = [conn EXCEPT ![s] = -1] /\ UNCHANGED <<present, sockets, prepares>>
  BY <1>1, <1>2, FailureCloses
<1>3. ASSUME NEW n, upc' = [upc EXCEPT ![s] = "open"], conn' = [conn EXCEPT ![s] = n],
             holder' = [holder EXCEPT ![n] = s], UNCHANGED <<present, sockets, prepares>>
      PROVE  SocketInv'
  <2>1. /\ upc' = [upc EXCEPT ![s] = "open"] /\ conn' = [conn EXCEPT ![s] = n]
        /\ holder' = [holder EXCEPT ![n] = s] /\ UNCHANGED <<present, sockets, prepares>>
    BY <1>3
  <2>2. ASSUME NEW t \in Socket!Sockets
        PROVE  /\ Socket!Held(t)' \subseteq Socket!Held(t) \cup {n}
               /\ t # s => Socket!Held(t)' \subseteq Socket!Held(t)
               /\ DOMAIN holder' = Socket!Descriptors
    BY <2>1, OpenTakes DEF SocketInv
  <2>3. SocketTypes'
    BY <2>1, <2>2 DEF SocketInv, SocketTypes
  <2>4. ASSUME NEW t \in Socket!Sockets, t # s PROVE SocketOf(t)'
    BY <2>1, <2>2, <2>4, OthersKeep DEF SocketInv, SocketTypes
  <2>5. SocketOf(s)'
    <3>1. upc'[s] = "open" /\ conn'[s] = n /\ present[s] /\ s \in Servers /\ s \notin Clients
      BY <1>1, <2>1, SocketsAssumption
      DEF SocketInv, SocketTypes, SocketOf, Dropped, OfServers
    <3>2. ASSUME prepares'[s] <= 1 PROVE Known(s)'
      <4>1. Known(s) /\ conn[s] = -1 /\ prepares[s] # 0
        BY <1>1, <2>1, <3>2 DEF SocketInv, SocketOf, Known
      <4>2. Socket!Held(s)' \subseteq {sockets[s], n}
        BY <2>2, <4>1, NoDescriptor DEF Known
      <4>3. QED
        BY <2>1, <3>1, <4>1, <4>2 DEF Known
    <3>3. QED
      BY <2>1, <3>1, <3>2 DEF SocketOf, Dropped, OfServers, OfClients
  <2>6. QED
    BY <2>3, <2>4, <2>5 DEF SocketInv
<1>4. QED
  BY <1>2, <1>3 DEF Socket!Accept, Socket!UGoto

\* A client's connection is its descriptor.
LEMMA ConnectStep ==
    ASSUME SocketInv, NEW s \in Socket!Sockets, Socket!Connect(s)
    PROVE  SocketInv'
<1>1. upc[s] = "connect" /\ upc[s] \in InOpen
  BY DEF Socket!Connect, Socket!Fails, Socket!UGoto, InOpen, OfClients
<1>2. CASE Socket!Fails(s, "connect")
  BY <1>1, <1>2, FailureCloses DEF Socket!Fails, Socket!UGoto
<1>3. CASE ~Socket!Fails(s, "connect")
  <2>1. /\ upc' = [upc EXCEPT ![s] = "open"] /\ conn' = [conn EXCEPT ![s] = sockets[s]]
        /\ UNCHANGED <<present, sockets, prepares, holder>>
    BY <1>3 DEF Socket!Connect, Socket!UGoto
  <2>2. \A t : Socket!Held(t)' = Socket!Held(t)
    BY <2>1 DEF Socket!Held
  <2>3. SocketTypes'
    BY <2>1 DEF SocketInv, SocketTypes
  <2>4. ASSUME NEW t \in Socket!Sockets, t # s PROVE SocketOf(t)'
    BY <2>1, <2>2, <2>4, OthersKeep DEF SocketInv, SocketTypes
  <2>5. SocketOf(s)'
    <3>1. upc'[s] = "open" /\ conn'[s] = sockets[s] /\ present[s]
      BY <1>1, <2>1 DEF SocketInv, SocketTypes, SocketOf, Dropped
    <3>2. ASSUME prepares'[s] <= 1 PROVE Known(s)'
      <4>1. Known(s) /\ conn[s] = -1 /\ prepares[s] # 0
        BY <1>1, <2>1, <3>2 DEF SocketInv, SocketOf, Known
      <4>2. Socket!Held(s)' \subseteq {sockets[s]}
        BY <2>2, <4>1, NoDescriptor DEF Known
      <4>3. QED
        BY <2>1, <3>1, <4>1, <4>2 DEF Known
    <3>3. QED
      BY <2>1, <3>1, <3>2 DEF SocketOf, Dropped, OfServers, OfClients
  <2>6. QED
    BY <2>3, <2>4, <2>5 DEF SocketInv
<1>4. QED
  BY <1>2, <1>3

\* The steps of open(), to which a call of it that failed may come again.
LEMMA OpenStep ==
    ASSUME SocketInv, NEW s \in Socket!Sockets, Socket!Open(s)
    PROVE  SocketInv'
<1>1. SocketOf(s)
  BY DEF SocketInv
<1>2. CASE Socket!Enter(s)
  BY <1>2, OpenGoesOn DEF Socket!Enter, OfServers, OfClients, Socket!Sockets
<1>3. ASSUME NEW from \in {"setsockopt", "bind", "listen"}, Socket!Fails(s, from) PROVE SocketInv'
  BY <1>3, FailureCloses DEF Socket!Fails, Socket!UGoto, InOpen, OfServers
<1>4. ASSUME NEW from \in {"setsockopt", "bind", "listen"}, NEW to \in OfServers,
             Socket!Succeeds(s, from, to)
      PROVE  SocketInv'
  <2>1. s \in Servers /\ upc[s] \in InOpen
    BY <1>1, <1>4 DEF Socket!Succeeds, Socket!UGoto, SocketOf, OfServers, InOpen
  <2>2. QED
    BY <1>4, <2>1, OpenGoesOn DEF Socket!Succeeds, Socket!UGoto
<1>5. CASE Socket!Options(s) \/ Socket!Bind(s) \/ Socket!Listen(s)
  BY <1>3, <1>4, <1>5 DEF Socket!Options, Socket!Bind, Socket!Listen, OfServers
<1>6. CASE Socket!Address(s)
  <2>1. s \in Clients /\ upc[s] \in InOpen
    BY <1>1, <1>6 DEF Socket!Address, Socket!UGoto, SocketOf, OfClients, InOpen
  <2>2. QED
    BY <1>6, <2>1, OpenGoesOn DEF Socket!Address, Socket!UGoto, OfClients
<1>7. QED
  BY <1>2, <1>5, <1>6, AcceptStep, ConnectStep DEF Socket!Open

\* close() of a user, and of the deleter, which comes after the last reference.
LEMMA CloseStep ==
    ASSUME SocketInv, NEW s \in Socket!Sockets, Socket!Close(s) \/ Socket!Drop(s)
    PROVE  SocketInv'
<1>1. /\ present[s] /\ upc[s] \notin InOpen /\ UNCHANGED <<sockets, conn, prepares>>
      /\ holder' = Socket!Closed(sockets[s])
  BY DEF Socket!Close, Socket!Drop, Socket!close, InOpen, OfServers, OfClients
<1>2. \/ /\ upc[s] # "new" /\ upc' = [upc EXCEPT ![s] = "closed"] /\ present' = present
      \/ upc' = upc /\ present' = [present EXCEPT ![s] = FALSE]
  BY DEF Socket!Close, Socket!Drop
<1>3. ASSUME NEW t \in Socket!Sockets
      PROVE  /\ Socket!Held(t)' \subseteq Socket!Held(t) \ {sockets[s]}
             /\ DOMAIN holder' = Socket!Descriptors
  BY <1>1, CloseReleases DEF SocketInv
<1>4. SocketTypes'
  BY <1>1, <1>2, <1>3 DEF SocketInv, SocketTypes
<1>5. ASSUME NEW t \in Socket!Sockets, t # s PROVE SocketOf(t)'
  BY <1>1, <1>2, <1>3, <1>5, OthersKeep DEF SocketInv, SocketTypes
<1>6. SocketOf(s)'
  <2>1. upc'[s] \notin InOpen /\ upc'[s] \in {upc[s], "closed"}
    BY <1>1, <1>2 DEF SocketInv, SocketTypes, InOpen, OfServers, OfClients
  <2>2. sockets'[s] \notin Socket!Held(s)'
    BY <1>1, <1>3
  <2>3. ASSUME prepares'[s] <= 1 PROVE Known(s)'
    <3>1. Known(s)
      BY <1>1, <2>3 DEF SocketInv, SocketOf
    <3>2. prepares[s] = 0 => upc'[s] = "new"
      BY <1>2, <3>1 DEF Known
    <3>3. QED
      BY <1>1, <1>3, <2>1, <3>1, <3>2 DEF Known
  <2>4. QED
    BY <2>1, <2>2, <2>3 DEF SocketOf, Dropped, InOpen
<1>7. QED
  BY <1>4, <1>5, <1>6 DEF SocketInv

\* The program's other descriptors come and go.
LEMMA OtherStep ==
    ASSUME SocketInv, Socket!OtherOpens \/ Socket!OtherCloses
    PROVE  SocketInv'
<1>1. PICK n : \E h \in {Socket!Free, Socket!Other} : holder' = [holder EXCEPT ![n] = h]
  BY DEF Socket!OtherOpens, Socket!OtherCloses
<1>2. ASSUME NEW s \in Socket!Sockets PROVE Socket!Held(s)' \subseteq Socket!Held(s)
  <2>1. PICK h \in {Socket!Free, Socket!Other} : holder' = [holder EXCEPT ![n] = h]
    BY <1>1
  <2>2. s # h
    BY SocketsAssumption
  <2>3. QED
    BY <2>1, <2>2, OpenTakes DEF SocketInv
<1>3. DOMAIN holder' = Socket!Descriptors
  BY <1>1 DEF SocketInv, SocketTypes
<1>4. UNCHANGED <<present, upc, sockets, conn, prepares>>
  BY DEF Socket!OtherOpens, Socket!OtherCloses
<1>5. QED
  BY <1>2, <1>3, <1>4, TableShrinks

\* Every step of a socket, or of the program, keeps the invariant.
LEMMA SocketStep ==
    ASSUME SocketInv, [Socket!Next]_socketVars
    PROVE  SocketInv'
<1>1. CASE UNCHANGED <<present, upc, sockets, conn, prepares, holder>>
  <2>1. \A s : Socket!Held(s)' = Socket!Held(s)
    BY <1>1 DEF Socket!Held
  <2>2. QED
    BY <1>1, <2>1, TableShrinks DEF SocketInv, SocketTypes
<1>2. ASSUME NEW s \in Socket!Sockets,
             Socket!Arrive(s) \/ Socket!read(s) \/ Socket!readTimed(s) \/ Socket!send(s)
      PROVE  SocketInv'
  BY <1>1, <1>2 DEF Socket!Arrive, Socket!read, Socket!readTimed, Socket!send
<1>3. CASE UNCHANGED socketVars
  BY <1>1, <1>3 DEF socketVars
<1>4. QED
  BY <1>2, <1>3, PrepareStep, OpenStep, CloseStep, OtherStep DEF Socket!Next

-----------------------------------------------------------------------------
(* CH341                                                                   *)

\* A device that is open is the one of a valid handle, and open() sets its stream up
\* only then; a bus that was started is being stopped.
DeviceInv ==
    /\ handle \in {"unset", "invalid", "valid"}
    /\ device \in BOOLEAN /\ acked \in BOOLEAN /\ refused \in BOOLEAN
    /\ handle # "valid" => device = FALSE
    /\ user = "set stream" => handle = "valid"
    /\ CH341!NothingLeftOpen

\* Each call of the library (CH341.cpp:59-163).
LEMMA DeviceStep ==
    ASSUME ~Reopens, DeviceInv, [CH341!Next]_ch341Vars
    PROVE  DeviceInv'
<1> USE DEF DeviceInv, CH341!NothingLeftOpen, CH341!UGoto, CH341!Settled
<1>1. CASE CH341!OpenDevice
  <2>1. /\ handle # "valid" /\ (bus = "started" => refused)
        /\ UNCHANGED <<bus, acked, refused>>
        /\ \/ user' = "set stream" /\ handle' = "valid" /\ device' = TRUE
           \/ user' = "not opened" /\ handle' = "invalid" /\ device' = device
    BY <1>1 DEF CH341!OpenDevice
  <2>2. handle' # "valid" => device' = FALSE
    BY <2>1
  <2>3. device' \in BOOLEAN
    BY <2>1
  <2>4. CH341!NothingLeftOpen'
    BY <2>1, <2>2
  <2>5. QED
    BY <2>1, <2>2, <2>3, <2>4
<1>2. CASE CH341!SetStream
  BY <1>2 DEF CH341!SetStream, CH341!CloseDevice
<1>3. CASE CH341!Close
  <2>1. /\ user' = "closed" /\ (bus = "started" => refused)
        /\ UNCHANGED <<bus, acked, refused>>
    BY <1>3 DEF CH341!Close
  <2>2. handle' \in {"unset", "invalid"} /\ device' = FALSE
    BY <1>3 DEF CH341!Close, CH341!CloseDevice
  <2>3. QED
    BY <2>1, <2>2
<1>4. CASE CH341!Read
  BY <1>4 DEF CH341!Read
<1>5. CASE CH341!IssueStart
  BY <1>5 DEF CH341!IssueStart
<1>6. CASE CH341!CheckAck
  BY <1>6 DEF CH341!CheckAck
<1>7. CASE CH341!IssueStop
  BY <1>7 DEF CH341!IssueStop
<1>8. CASE CH341!StreamI2C
  BY <1>8 DEF CH341!StreamI2C
<1>9. CASE CH341!Unplug
  BY <1>9 DEF CH341!Unplug
<1>10. CASE UNCHANGED ch341Vars
  BY <1>10 DEF ch341Vars
<1> HIDE DEF DeviceInv, CH341!NothingLeftOpen, CH341!UGoto, CH341!Settled
<1>11. QED
  BY <1>1, <1>2, <1>3, <1>4, <1>5, <1>6, <1>7, <1>8, <1>9, <1>10 DEF CH341!Next, CH341!CheckDev

-----------------------------------------------------------------------------

IInv == HandleInv /\ SocketInv /\ DeviceInv

\* Initially nothing is open.
LEMMA InitIInv == Init => IInv
<1> SUFFICES ASSUME Init PROVE IInv
  OBVIOUS
<1>1. HandleInv
  BY DEF Init, Uart!Init, HandleInv, Uart!NothingLeftOpen, Uart!NoFd
<1>2. SocketInv
  <2>1. ASSUME NEW s \in Socket!Sockets PROVE Socket!Held(s) = {}
    <3>1. s # Socket!Free /\ s # Socket!Other
      BY SocketsAssumption
    <3>2. QED
      BY <3>1 DEF Init, Socket!Init, Socket!Held
  <2>2. SocketTypes
    BY DEF Init, Socket!Init, SocketTypes
  <2>3. ASSUME NEW s \in Socket!Sockets PROVE SocketOf(s)
    BY <2>1 DEF Init, Socket!Init, SocketOf, Known, Dropped, OfServers, OfClients
  <2>4. QED
    BY <2>2, <2>3 DEF SocketInv
<1>3. DeviceInv
  BY DEF Init, CH341!Init, DeviceInv, CH341!NothingLeftOpen
<1>4. QED
  BY <1>1, <1>2, <1>3 DEF IInv

\* The devices share nothing, so a step of one leaves the others' invariants alone.
LEMMA IInvStep ==
    ASSUME ~Reopens
    PROVE  IInv /\ [Next]_<<subject, uartVars, socketVars, ch341Vars>> => IInv'
<1> SUFFICES ASSUME IInv, [Next]_<<subject, uartVars, socketVars, ch341Vars>> PROVE IInv'
  OBVIOUS
<1>1. [Uart!Next]_uartVars /\ [Socket!Next]_socketVars /\ [CH341!Next]_ch341Vars
  BY DEF Next
<1>2. QED
  BY <1>1, HandleStep, SocketStep, DeviceStep DEF IInv

\* Nothing but what its owner can still close is open when a step of open() has
\* failed, whatever it was, after close(), and after the deleter, and no transaction
\* stays on the bus: for ports, sockets, which share the process's descriptors, and
\* the I2C adapter (Uart.cpp:153-266, Socket.cpp:189-299, CH341.cpp:59-163).
THEOREM NothingLeaks == ASSUME ~Reopens PROVE Spec => []NothingLeftOpen
<1>1. IInv => NothingLeftOpen
  <2> SUFFICES ASSUME IInv PROVE NothingLeftOpen
    OBVIOUS
  <2>1. ASSUME NEW s \in Socket!Sockets, prepares[s] <= 1
        PROVE  /\ s \in Servers /\ upc[s] = "failed" => Socket!Held(s) = {}
               /\ ~present[s] => /\ Socket!Held(s) \subseteq {conn[s]}
                                 /\ sockets[s] \notin Socket!Held(s)
    BY <2>1 DEF IInv, SocketInv, SocketOf, Known, Dropped
  <2>2. Socket!NothingLeftOpen
    BY <2>1 DEF Socket!NothingLeftOpen
  <2>3. QED
    BY <2>2 DEF IInv, HandleInv, DeviceInv, NothingLeftOpen
<1>2. IInv /\ [Next]_<<subject, uartVars, socketVars, ch341Vars>> => IInv'
  BY IInvStep
<1>3. QED
  BY <1>1, <1>2, InitIInv, PTL DEF Spec

\* In whatever pieces the bytes of a line come, and however many they are, readline()
\* stops at the first terminator and not before, and returns what it has looked at,
\* with a stray carriage return twice (Uart.cpp:299-386).
THEOREM LinesEnd == Spec => []LineUpToTerminator
<1>1. Init => LineInv
  BY LineInit DEF Init
<1>2. LineInv /\ [Next]_<<subject, uartVars, socketVars, ch341Vars>> => LineInv'
  <2> SUFFICES ASSUME LineInv, [Next]_<<subject, uartVars, socketVars, ch341Vars>> PROVE LineInv'
    OBVIOUS
  <2>1. [Uart!Next]_uartVars
    BY DEF Next
  <2>2. QED
    BY <2>1, LineStep
<1>3. LineInv => LineUpToTerminator
  BY DEF LineInv, LineUpToTerminator
<1>4. QED
  BY <1>1, <1>2, <1>3, PTL DEF Spec
=============================================================================
