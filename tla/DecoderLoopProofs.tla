-------------------------- MODULE DecoderLoopProofs --------------------------
(***************************************************************************)
(* Proofs about DecoderLoop, for a source of any length and codecs that    *)
(* keep back any numbers of packets.  They use no fairness.                *)
(***************************************************************************)
EXTENDS DecoderLoop, SequenceTheorems, TLAPS

-----------------------------------------------------------------------------
(* What the codec gives when it takes one packet more.                       *)

LEMMA Shifted ==
    ASSUME NEW S, NEW s \in Seq(S), NEW x \in S
    PROVE  LET t == Append(s, x) IN
           /\ Tail(t) \in Seq(S) /\ Len(Tail(t)) = Len(s)
           /\ \A i \in 1 .. Len(s) : Tail(t)[i] = IF i = Len(s) THEN x ELSE s[i + 1]
           /\ Head(t) \in S /\ Head(t) = IF Len(s) = 0 THEN x ELSE s[1]
<1> DEFINE t == Append(s, x)
<1>1. /\ t \in Seq(S) /\ Len(t) = Len(s) + 1 /\ Len(s) \in Nat
      /\ \A i \in 1 .. Len(s) : t[i] = s[i]
      /\ t[Len(s) + 1] = x
  BY AppendProperties
<1>2. t # <<>>
  BY <1>1
<1> HIDE DEF t
<1>3. /\ Head(t) = t[1] /\ Head(t) \in S
      /\ Tail(t) \in Seq(S) /\ Len(Tail(t)) = Len(t) - 1
      /\ \A i \in 1 .. Len(Tail(t)) : Tail(t)[i] = t[i + 1]
  BY <1>1, <1>2, HeadTailProperties
<1>4. \A i \in 1 .. Len(s) : Tail(t)[i] = IF i = Len(s) THEN x ELSE s[i + 1]
  BY <1>1, <1>3
<1>5. Head(t) = IF Len(s) = 0 THEN x ELSE s[1]
  BY <1>1, <1>3
<1> QED BY <1>1, <1>3, <1>4, <1>5 DEF t

-----------------------------------------------------------------------------
(* Packets s in the codec, frames up to r returned, packets up to p read.    *)

\* They lie between the frame returned last and the packet read last, in order.
Between(r, s, p) == \A i \in 1 .. Len(s) : r < s[i] /\ s[i] <= p
Ordered(s)       == \A i \in 1 .. Len(s) : \A j \in 1 .. Len(s) : i < j => s[i] < s[j]

\* They are all of those in between.
Gapless(r, s, p) ==
    /\ r + Len(s) = p
    /\ \A i \in 1 .. Len(s) : s[i] = r + i

\* The codec takes one packet and gives none.
LEMMA Taken ==
    ASSUME NEW P \in Nat, NEW s \in Seq(1 .. P), NEW p \in 0 .. P, p < P, NEW r \in 0 .. p,
           Between(r, s, p), Ordered(s)
    PROVE  LET u == Append(s, p + 1) IN
           /\ u \in Seq(1 .. P) /\ Len(u) = Len(s) + 1
           /\ Between(r, u, p + 1) /\ Ordered(u)
           /\ Gapless(r, s, p) => Gapless(r, u, p + 1)
<1> DEFINE u == Append(s, p + 1)
<1>1. /\ u \in Seq(1 .. P) /\ Len(u) = Len(s) + 1 /\ Len(s) \in Nat
      /\ \A i \in 1 .. Len(s) : u[i] = s[i]
      /\ u[Len(s) + 1] = p + 1
  BY AppendProperties
<1>2. \A i \in 1 .. Len(s) : s[i] \in 1 .. P
  BY <1>1
<1> HIDE DEF u
<1>0. Len(u) = Len(s) + 1 /\ Len(s) \in Nat
  BY <1>1
<1>3. Between(r, u, p + 1)
  <2>1. \A i \in 1 .. Len(s) : r < u[i] /\ u[i] <= p
    BY <1>1 DEF Between
  <2>2. \A i \in 1 .. Len(u) : i \in 1 .. Len(s) \/ i = Len(s) + 1
    BY <1>0
  <2>3. r < p + 1 /\ p + 1 <= p + 1 /\ \A k \in 1 .. P : k <= p => k <= p + 1
    OBVIOUS
  <2> QED BY <1>1, <1>2, <2>1, <2>2, <2>3 DEF Between
<1>4. Ordered(u)
  <2>1. ASSUME NEW i \in 1 .. Len(u), NEW j \in 1 .. Len(u), i < j PROVE u[i] < u[j]
    <3>1. i \in 1 .. Len(s)
      BY ONLY <1>0, <2>1, i \in 1 .. Len(u), j \in 1 .. Len(u)
    <3>4. u[i] = s[i]
      BY <1>1, <3>1
    <3>2. CASE j = Len(s) + 1
      BY <1>1, <1>2, <3>1, <3>2, <3>4 DEF Between
    <3>3. CASE j # Len(s) + 1
      <4>1. j \in 1 .. Len(s)
        BY ONLY <1>0, <3>3, j \in 1 .. Len(u)
      <4>2. u[j] = s[j]
        BY <1>1, <4>1
      <4> QED BY <2>1, <3>1, <3>4, <4>1, <4>2 DEF Ordered
    <3> QED BY <3>2, <3>3
  <2> QED BY <2>1 DEF Ordered
<1>5. Gapless(r, s, p) => Gapless(r, u, p + 1)
  <2>1. SUFFICES ASSUME Gapless(r, s, p) PROVE Gapless(r, u, p + 1)
    OBVIOUS
  <2>2. r + Len(s) = p /\ r + Len(u) = p + 1
    <3>1. r + Len(s) = p
      BY <2>1 DEF Gapless
    <3> QED BY <1>0, <3>1
  <2>3. ASSUME NEW i \in 1 .. Len(u) PROVE u[i] = r + i
    <3>1. CASE i = Len(s) + 1
      BY <1>1, <2>2, <3>1
    <3>2. CASE i # Len(s) + 1
      <4>1. i \in 1 .. Len(s)
        BY <1>1, <2>3, <3>2
      <4>2. u[i] = s[i]
        BY <1>1, <4>1
      <4> QED BY <2>1, <4>1, <4>2 DEF Gapless
    <3> QED BY <3>1, <3>2
  <2> QED BY <2>2, <2>3 DEF Gapless
<1> QED BY <1>1, <1>3, <1>4, <1>5 DEF u

\* The codec takes one packet and gives its oldest.
LEMMA Given ==
    ASSUME NEW P \in Nat, NEW s \in Seq(1 .. P), NEW p \in 0 .. P, p < P, NEW r \in 0 .. p,
           Between(r, s, p), Ordered(s)
    PROVE  LET t == Append(s, p + 1)
               u == Tail(t)
               h == Head(t) IN
           /\ u \in Seq(1 .. P) /\ Len(u) = Len(s)
           /\ h \in 1 .. P /\ r < h /\ h <= p + 1
           /\ Between(h, u, p + 1) /\ Between(r, u, p + 1) /\ Ordered(u)
           /\ Gapless(r, s, p) => h = r + 1 /\ Gapless(h, u, p + 1)
<1> DEFINE u == Tail(Append(s, p + 1))
           h == Head(Append(s, p + 1))
<1>1. /\ u \in Seq(1 .. P) /\ Len(u) = Len(s)
      /\ \A i \in 1 .. Len(s) : u[i] = IF i = Len(s) THEN p + 1 ELSE s[i + 1]
      /\ h \in 1 .. P /\ h = IF Len(s) = 0 THEN p + 1 ELSE s[1]
  <2>1. p + 1 \in 1 .. P
    OBVIOUS
  <2> QED BY ONLY <2>1, s \in Seq(1 .. P), Shifted
<1>2. Len(s) \in Nat /\ \A i \in 1 .. Len(s) : s[i] \in 1 .. P
  OBVIOUS
<1>0. Len(s) \in Nat
  BY <1>2
<1> HIDE DEF u, h
<1>3. r < h /\ h <= p + 1
  BY <1>1, <1>2 DEF Between
<1>4. ASSUME NEW i \in 1 .. Len(s) PROVE h < u[i] /\ u[i] <= p + 1
  <2>1. CASE i = Len(s)
    <3>1. u[i] = p + 1 /\ h = s[1] /\ 1 \in 1 .. Len(s)
      BY <1>1, <1>2, <2>1
    <3> QED BY <1>2, <3>1 DEF Between
  <2>2. CASE i # Len(s)
    <3>0. 1 \in 1 .. Len(s) /\ i + 1 \in 1 .. Len(s) /\ 1 < i + 1 /\ Len(s) # 0
      BY ONLY <1>0, <2>2, i \in 1 .. Len(s)
    <3>1. u[i] = s[i + 1] /\ h = s[1] /\ 1 \in 1 .. Len(s) /\ i + 1 \in 1 .. Len(s) /\ 1 < i + 1
      BY <1>1, <2>2, <3>0
    <3>2. s[1] < s[i + 1]
      BY <3>1 DEF Ordered
    <3>3. s[i + 1] <= p
      BY <3>1 DEF Between
    <3> QED BY <1>2, <3>1, <3>2, <3>3
  <2> QED BY <2>1, <2>2
<1>5. Between(h, u, p + 1)
  BY <1>1, <1>4 DEF Between
<1>6. Between(r, u, p + 1)
  <2>1. ASSUME NEW i \in 1 .. Len(s) PROVE r < u[i]
    <3>1. CASE i = Len(s)
      <4>1. u[i] = p + 1
        BY <1>1, <3>1
      <4> QED BY <4>1
    <3>2. CASE i # Len(s)
      <4>1. u[i] = s[i + 1] /\ i + 1 \in 1 .. Len(s)
        <5>1. i + 1 \in 1 .. Len(s)
          BY <1>0, <3>2
        <5> QED BY <1>1, <3>2, <5>1
      <4> QED BY <4>1 DEF Between
    <3> QED BY <3>1, <3>2
  <2> QED BY <1>1, <1>4, <2>1 DEF Between
<1>7. Ordered(u)
  <2>1. ASSUME NEW i \in 1 .. Len(s), NEW j \in 1 .. Len(s), i < j PROVE u[i] < u[j]
    <3>1. u[i] = s[i + 1] /\ i + 1 \in 1 .. Len(s)
      <4>1. i # Len(s) /\ i + 1 \in 1 .. Len(s)
        BY <1>0, <2>1
      <4> QED BY <1>1, <4>1
    <3>2. CASE j = Len(s)
      <4>1. u[j] = p + 1
        BY <1>1, <3>2
      <4>2. s[i + 1] <= p
        BY <3>1 DEF Between
      <4> QED BY <1>2, <3>1, <4>1, <4>2
    <3>3. CASE j # Len(s)
      <4>1. j + 1 \in 1 .. Len(s) /\ i + 1 < j + 1
        BY <1>0, <2>1, <3>3
      <4>2. u[j] = s[j + 1]
        BY <1>1, <3>3
      <4> QED BY <3>1, <4>1, <4>2 DEF Ordered
    <3> QED BY <3>2, <3>3
  <2> QED BY <1>1, <2>1 DEF Ordered
<1>8. Gapless(r, s, p) => h = r + 1 /\ Gapless(h, u, p + 1)
  <2>1. SUFFICES ASSUME Gapless(r, s, p) PROVE h = r + 1 /\ Gapless(h, u, p + 1)
    OBVIOUS
  <2>2. h = r + 1
    BY <1>1, <1>2, <2>1 DEF Gapless
  <2>3. h + Len(u) = p + 1
    <3>1. r + Len(s) = p /\ Len(u) = Len(s)
      BY <1>1, <2>1 DEF Gapless
    <3> QED BY <1>2, <2>2, <3>1
  <2>4. ASSUME NEW i \in 1 .. Len(s) PROVE u[i] = h + i
    <3>1. CASE i = Len(s)
      BY <1>1, <1>2, <2>3, <3>1
    <3>2. CASE i # Len(s)
      <4>1. u[i] = s[i + 1] /\ i + 1 \in 1 .. Len(s)
        <5>1. i + 1 \in 1 .. Len(s)
          BY <1>0, <3>2
        <5> QED BY <1>1, <3>2, <5>1
      <4>2. s[i + 1] = r + (i + 1)
        BY <2>1, <4>1 DEF Gapless
      <4> QED BY <2>2, <4>1, <4>2
    <3> QED BY <3>1, <3>2
  <2> QED BY <1>1, <2>2, <2>3, <2>4 DEF Gapless
<1> QED BY <1>1, <1>3, <1>5, <1>6, <1>7, <1>8 DEF u, h

-----------------------------------------------------------------------------
(* The inductive invariant.                                                  *)

PacketTypes ==
    /\ pos \in 0 .. Packets /\ returned \in 0 .. pos
    /\ inside \in Seq(1 .. Packets) /\ Len(inside) <= delay
    /\ delay \in Delays

OrderInv == Between(returned, inside, pos) /\ Ordered(inside)

\* Only an error takes a packet from the others.
NoneMissing == lost \/ Gapless(returned, inside, pos)

PacketInv == PacketTypes /\ OrderInv /\ NoneMissing

\* Nothing has been read yet while ret is unset.
UnsetInv == ret = "unset" => reads = 0

StateInv ==
    /\ opened \in BOOLEAN /\ started \in BOOLEAN
    /\ isrtsp \in BOOLEAN /\ seekable \in BOOLEAN
    /\ StartedIsOpened

OpensInv == opens \in 0 .. MaxOpens /\ fmtctx \in 0 .. MaxOpens /\ stream \in 0 .. MaxOpens

CallInv ==
    /\ ret \in Answers \cup Locals \cup {"crash"}
    /\ reads \in 0 .. 1
    /\ UnsetInv

FrameInv == fresh \in BOOLEAN /\ dropped \in BOOLEAN /\ lost \in BOOLEAN /\ decoded \in 0 .. Packets /\ OldFrameOnlyAtAnEnd

Inv == StateInv /\ OpensInv /\ CallInv /\ FrameInv /\ PacketInv

LEMMA NewPassInv == NewPass /\ delay' \in Delays => PacketInv' /\ lost' = FALSE
<1> SUFFICES ASSUME NewPass, delay' \in Delays PROVE PacketInv' /\ lost' = FALSE
  OBVIOUS
<1>1. inside' = <<>> /\ <<>> \in Seq(1 .. Packets) /\ Len(<<>>) = 0
  BY EmptySeq DEF NewPass
<1>2. pos' = 0 /\ returned' = 0 /\ lost' = FALSE
  BY DEF NewPass
<1>3. Packets \in Nat /\ delay' \in Nat
  BY LoopAssumption DEF LoopAssumption
<1>4. PacketTypes'
  BY <1>1, <1>2, <1>3 DEF PacketTypes
<1>5. OrderInv'
  BY <1>1, <1>2 DEF OrderInv, Between, Ordered
<1>6. NoneMissing'
  BY <1>1, <1>2 DEF NoneMissing, Gapless
<1> QED BY <1>2, <1>4, <1>5, <1>6 DEF PacketInv

LEMMA InvInit == Init => Inv
<1> SUFFICES ASSUME Init PROVE Inv
  OBVIOUS
<1>1. StateInv
  BY DEF Init, StateInv, StartedIsOpened
<1>2. OpensInv
  BY LoopAssumption DEF Init, LoopAssumption, OpensInv
<1>3. CallInv
  BY DEF Init, CallInv, UnsetInv, Answers
<1>4. FrameInv
  <2>1. fresh = FALSE /\ dropped = FALSE /\ lost = FALSE /\ ret = "none"
    BY DEF Init
  <2>2. decoded \in 0 .. Packets
    BY LoopAssumption DEF LoopAssumption, Init
  <2> QED BY <2>1, <2>2 DEF FrameInv, OldFrameOnlyAtAnEnd
<1>5. PacketInv
  <2>1. inside = <<>> /\ <<>> \in Seq(1 .. Packets) /\ Len(<<>>) = 0
    BY EmptySeq DEF Init
  <2>2. pos = 0 /\ returned = 0
    BY DEF Init
  <2>3. Packets \in Nat /\ delay \in Nat /\ delay \in Delays
    BY LoopAssumption DEF LoopAssumption, Init
  <2>4. PacketTypes
    BY <2>1, <2>2, <2>3 DEF PacketTypes
  <2>5. OrderInv
    BY <2>1, <2>2 DEF OrderInv, Between, Ordered
  <2>6. NoneMissing
    BY <2>1, <2>2 DEF NoneMissing, Gapless
  <2> QED BY <2>4, <2>5, <2>6 DEF PacketInv
<1> QED BY <1>1, <1>2, <1>3, <1>4, <1>5 DEF Inv

LEMMA PacketStep ==
    ASSUME PacketInv, Turn
    PROVE  PacketInv'
<1>a. /\ Packets \in Nat /\ delay \in Nat /\ delay \in Delays
      /\ pos \in 0 .. Packets /\ returned \in 0 .. pos /\ pos \in Nat /\ returned \in Nat
      /\ inside \in Seq(1 .. Packets) /\ Len(inside) <= delay /\ Len(inside) \in Nat
  BY LoopAssumption DEF LoopAssumption, PacketInv, PacketTypes
<1>b. Between(returned, inside, pos) /\ Ordered(inside)
  BY DEF PacketInv, OrderInv
<1>c. NoneMissing
  BY DEF PacketInv
<1>f. delay' = delay
  BY DEF Turn, Rewind, SeekFails, ReadFails, SkipPacket, RtspGarbage, KeepBack, GiveFrame, DecodeFails, state, source
<1>1. CASE Rewind
  BY <1>1, <1>a, <1>f, NewPassInv DEF Rewind
<1>7. CASE SeekFails
  <2>1. inside' = <<>> /\ <<>> \in Seq(1 .. Packets) /\ Len(<<>>) = 0
    BY <1>7, EmptySeq DEF SeekFails
  <2>2. pos' = pos /\ returned' = returned
    BY <1>7 DEF SeekFails
  <2>3. lost'
    BY <1>7 DEF SeekFails
  <2>4. PacketTypes'
    BY <1>a, <1>f, <2>1, <2>2 DEF PacketTypes
  <2>5. OrderInv'
    BY <2>1, <2>2 DEF OrderInv, Between, Ordered
  <2> QED BY <2>3, <2>4, <2>5 DEF PacketInv, NoneMissing
<1>2. CASE ReadFails \/ SkipPacket
  <2>1. pos' = pos /\ inside' = inside /\ returned' = returned /\ lost' = lost
    BY <1>2 DEF ReadFails, SkipPacket
  <2> QED BY <1>f, <2>1 DEF PacketInv, PacketTypes, OrderInv, NoneMissing
<1>d. ASSUME pos < Packets, pos' = pos + 1, inside' = inside, returned' = returned, lost'
      PROVE  PacketInv'
  <2>1. PacketTypes'
    BY <1>a, <1>f, <1>d DEF PacketTypes
  <2>2. Between(returned, inside, pos + 1)
    BY <1>a, <1>b DEF Between
  <2> QED BY <1>b, <1>d, <2>1, <2>2 DEF PacketInv, OrderInv, NoneMissing
<1>3. CASE RtspGarbage
  <2>1. pos < Packets /\ pos' = pos + 1 /\ inside' = inside /\ returned' = returned
    BY <1>3 DEF RtspGarbage
  <2>2. lost'
    BY <1>3 DEF RtspGarbage
  <2> QED BY <1>d, <2>1, <2>2
<1>4. CASE KeepBack
  <2>1. /\ pos' = pos + 1 /\ pos < Packets /\ Len(inside) < delay
        /\ returned' = returned /\ inside' = Append(inside, pos + 1)
    BY <1>4 DEF KeepBack
  <2>2. lost' = lost
    BY <1>4 DEF KeepBack
  <2>3. /\ inside' \in Seq(1 .. Packets) /\ Len(inside') = Len(inside) + 1
        /\ Between(returned, inside', pos + 1) /\ Ordered(inside')
        /\ Gapless(returned, inside, pos) => Gapless(returned, inside', pos + 1)
    BY <1>a, <1>b, <2>1, Taken
  <2>4. PacketTypes'
    BY <1>a, <1>f, <2>1, <2>3 DEF PacketTypes
  <2> QED BY <1>c, <2>1, <2>2, <2>3, <2>4 DEF PacketInv, OrderInv, NoneMissing
<1>e. ASSUME pos < Packets
      PROVE LET t == Append(inside, pos + 1)
                u == Tail(t)
                h == Head(t) IN
            /\ u \in Seq(1 .. Packets) /\ Len(u) = Len(inside)
            /\ h \in 1 .. Packets /\ returned < h /\ h <= pos + 1
            /\ Between(h, u, pos + 1) /\ Between(returned, u, pos + 1) /\ Ordered(u)
            /\ Gapless(returned, inside, pos) => h = returned + 1 /\ Gapless(h, u, pos + 1)
  BY <1>a, <1>b, <1>e, Given
<1>5. CASE GiveFrame
  <2>1. /\ pos' = pos + 1 /\ pos < Packets
        /\ inside' = Tail(Append(inside, pos + 1))
        /\ returned' = Head(Append(inside, pos + 1))
    BY <1>5 DEF GiveFrame
  <2>2. lost' = lost
    BY <1>5 DEF GiveFrame
  <2>3. /\ inside' \in Seq(1 .. Packets) /\ Len(inside') = Len(inside)
        /\ returned' \in 1 .. Packets /\ returned' <= pos + 1
        /\ Between(returned', inside', pos + 1) /\ Ordered(inside')
        /\ Gapless(returned, inside, pos) => Gapless(returned', inside', pos + 1)
    BY <1>e, <2>1
  <2>4. PacketTypes'
    <3>1. pos' \in 0 .. Packets /\ returned' \in 0 .. pos'
      BY <1>a, <2>1, <2>3
    <3>2. Len(inside') <= delay' /\ delay' \in Delays
      BY <1>a, <1>f, <2>3
    <3> QED BY <2>3, <3>1, <3>2 DEF PacketTypes
  <2> QED BY <1>c, <2>1, <2>2, <2>3, <2>4 DEF PacketInv, OrderInv, NoneMissing
<1>6. CASE DecodeFails
  <2>1. pos' = pos + 1 /\ pos < Packets /\ returned' = returned
    BY <1>6 DEF DecodeFails
  <2>2. lost'
    BY <1>6 DEF DecodeFails
  <2>3. CASE inside' = inside
    BY <1>d, <2>1, <2>2, <2>3
  <2>4. CASE inside' = Tail(Append(inside, pos + 1))
    <3>1. /\ inside' \in Seq(1 .. Packets) /\ Len(inside') = Len(inside)
          /\ Between(returned, inside', pos + 1) /\ Ordered(inside')
      BY <1>e, <2>1, <2>4
    <3>2. PacketTypes'
      BY <1>a, <1>f, <2>1, <3>1 DEF PacketTypes
    <3> QED BY <2>1, <2>2, <3>1, <3>2 DEF PacketInv, OrderInv, NoneMissing
  <2> QED BY <1>6, <2>3, <2>4 DEF DecodeFails
<1> QED BY <1>1, <1>2, <1>3, <1>4, <1>5, <1>6, <1>7 DEF Turn

\* The variables of the call, and what it holds.
LEMMA CallStep == CallInv /\ [Next]_vars => CallInv'
<1> SUFFICES ASSUME CallInv, [Next]_vars PROVE CallInv'
  OBVIOUS
<1> USE DEF CallInv, UnsetInv, Answers, Locals, call
<1>1. CASE OpenFile \/ OpenRtsp \/ Close
  BY <1>1 DEF OpenFile, OpenRtsp, Close
<1>2. CASE Start \/ Stop \/ BeginGetFrame
  BY <1>2 DEF Start, Stop, BeginGetFrame
<1>3. CASE Rewind \/ SeekFails \/ ReadFails
  BY <1>3 DEF Rewind, SeekFails, Leave, ReadFails
<1>7. CASE RtspGarbage
  <2>1. ret' \in {"ok", "error", "crash"} /\ reads' = 1
    BY <1>7 DEF RtspGarbage
  <2> QED BY <2>1
<1>4. CASE SkipPacket \/ KeepBack
  BY <1>4 DEF SkipPacket, KeepBack
<1>5. CASE GiveFrame \/ DecodeFails
  <2>1. ret' \in {"ok", "error"} /\ reads' = 1
    BY <1>5 DEF GiveFrame, DecodeFails
  <2> QED BY <2>1
<1>6. CASE UNCHANGED vars
  BY <1>6 DEF vars
<1> QED BY <1>1, <1>2, <1>3, <1>4, <1>5, <1>6, <1>7 DEF Next, Turn

\* A turn leaves an answer of success with a frame of its own, unless ret was
\* unset, so that nothing was read, or the packet that was read is thrown away.
LEMMA FrameStep == Inv /\ [Next]_vars => FrameInv'
<1> SUFFICES ASSUME Inv, [Next]_vars PROVE FrameInv'
  OBVIOUS
<1>a. /\ fresh \in BOOLEAN /\ dropped \in BOOLEAN /\ lost \in BOOLEAN /\ decoded \in 0 .. Packets
      /\ OldFrameOnlyAtAnEnd /\ CallInv /\ PacketInv
  BY DEF Inv, FrameInv
<1>1. CASE OpenFile \/ OpenRtsp \/ Close
  <2>1. decoded' = decoded /\ call' = call /\ lost' = FALSE /\ ret' # "ok"
    BY <1>1 DEF OpenFile, OpenRtsp, Close, NewPass
  <2> QED BY <1>a, <2>1 DEF FrameInv, OldFrameOnlyAtAnEnd, call
<1>2. CASE Start \/ Stop
  <2>1. decoded' = decoded /\ call' = call /\ lost' = lost /\ ret' = ret /\ isrtsp' = isrtsp
    BY <1>2 DEF Start, Stop, source
  <2> QED BY <1>a, <2>1 DEF FrameInv, OldFrameOnlyAtAnEnd, call
<1>3. CASE BeginGetFrame
  <2>1. decoded' = decoded /\ fresh' = FALSE /\ dropped' = FALSE /\ lost' = lost /\ ret' = "unset"
    BY <1>3 DEF BeginGetFrame
  <2> QED BY <1>a, <2>1 DEF FrameInv, OldFrameOnlyAtAnEnd
<1>4. CASE Rewind \/ SeekFails \/ ReadFails
  <2>1. decoded' = decoded /\ fresh' = fresh /\ reads' = reads /\ dropped' = dropped
    BY <1>4 DEF Rewind, SeekFails, ReadFails, call
  <2>2. (ret' = "ok" => ret = "unset") /\ ~isrtsp /\ isrtsp' = isrtsp
    BY <1>4 DEF Rewind, SeekFails, ReadFails, Leave, Locals, state, source
  <2>3. lost' \in BOOLEAN
    BY <1>4, <1>a DEF Rewind, SeekFails, ReadFails, NewPass
  <2>4. ret = "unset" => reads = 0
    BY <1>a DEF CallInv, UnsetInv
  <2>5. OldFrameOnlyAtAnEnd'
    BY <2>1, <2>2, <2>4 DEF OldFrameOnlyAtAnEnd
  <2> QED BY <1>a, <2>1, <2>3, <2>5 DEF FrameInv
<1>8. CASE RtspGarbage
  <2>1. decoded' = decoded /\ fresh' = fresh /\ isrtsp' = isrtsp
    BY <1>8 DEF RtspGarbage, state, source
  <2>2. isrtsp /\ dropped' = TRUE /\ lost' = TRUE
    BY <1>8 DEF RtspGarbage
  <2> QED BY <1>a, <2>1, <2>2 DEF FrameInv, OldFrameOnlyAtAnEnd
<1>5. CASE SkipPacket \/ KeepBack \/ DecodeFails
  <2>1. /\ decoded' = decoded /\ fresh' = fresh /\ dropped' = dropped
        /\ ret' # "ok" /\ lost' \in {lost, TRUE}
    BY <1>5 DEF SkipPacket, KeepBack, DecodeFails
  <2> QED BY <1>a, <2>1 DEF FrameInv, OldFrameOnlyAtAnEnd
<1>6. CASE GiveFrame
  <2>1. decoded' = Head(Append(inside, pos + 1)) /\ fresh' = TRUE /\ dropped' = dropped /\ lost' = lost /\ pos < Packets
    BY <1>6 DEF GiveFrame
  <2>2. pos + 1 \in 1 .. Packets /\ inside \in Seq(1 .. Packets)
    BY <1>a, <2>1, LoopAssumption DEF LoopAssumption, PacketInv, PacketTypes
  <2>3. Head(Append(inside, pos + 1)) \in 1 .. Packets
    BY <2>2, Shifted
  <2>4. decoded' \in 0 .. Packets
    BY <2>1, <2>3, LoopAssumption DEF LoopAssumption
  <2> QED BY <1>a, <2>1, <2>4 DEF FrameInv, OldFrameOnlyAtAnEnd
<1>7. CASE UNCHANGED vars
  <2>1. UNCHANGED <<decoded, call, lost, ret, isrtsp>>
    BY <1>7 DEF vars, state, source
  <2> QED BY <2>1, <1>a DEF call, FrameInv, OldFrameOnlyAtAnEnd
<1> QED BY <1>1, <1>2, <1>3, <1>4, <1>5, <1>6, <1>7, <1>8 DEF Next, Turn

LEMMA InvStep == Inv /\ [Next]_vars => Inv'
<1> SUFFICES ASSUME Inv, [Next]_vars PROVE Inv'
  OBVIOUS
<1>a. StateInv /\ OpensInv /\ CallInv /\ PacketInv
  BY DEF Inv
<1>b. CallInv' /\ FrameInv'
  BY <1>a, CallStep, FrameStep
<1>c. MaxOpens \in Nat
  BY LoopAssumption DEF LoopAssumption
<1>1. CASE OpenFile
  <2>1. /\ opened' \in BOOLEAN /\ isrtsp' = FALSE /\ seekable' \in BOOLEAN
        /\ started' = started /\ opened = FALSE
    BY LoopAssumption, <1>1, <1>a DEF LoopAssumption, OpenFile, StateInv
  <2>2. StateInv'
    BY <1>a, <2>1 DEF StateInv, StartedIsOpened
  <2>3. opens' = opens + 1 /\ opens < MaxOpens /\ fmtctx' \in {0, opens'} /\ stream' \in {stream, opens'}
    BY <1>1 DEF OpenFile
  <2>4. OpensInv'
    BY <1>a, <1>c, <2>3 DEF OpensInv
  <2>5. NewPass /\ delay' \in Delays
    BY <1>1 DEF OpenFile
  <2> QED BY <1>b, <2>2, <2>4, <2>5, NewPassInv DEF Inv
<1>2. CASE OpenRtsp
  <2>1. /\ opened' \in BOOLEAN /\ isrtsp' = TRUE /\ seekable' = seekable
        /\ started' = started /\ opened = FALSE
    BY <1>2, <1>a DEF OpenRtsp, StateInv
  <2>2. StateInv'
    BY <1>a, <2>1 DEF StateInv, StartedIsOpened
  <2>3. opens' = opens + 1 /\ opens < MaxOpens /\ fmtctx' = fmtctx /\ stream' = 0
    BY <1>2 DEF OpenRtsp
  <2>4. OpensInv'
    BY <1>a, <1>c, <2>3 DEF OpensInv
  <2>5. NewPass /\ delay' \in Delays
    BY <1>2 DEF OpenRtsp
  <2> QED BY <1>b, <2>2, <2>4, <2>5, NewPassInv DEF Inv
<1>3. CASE Close
  <2>1. opened' = FALSE /\ started' = FALSE /\ UNCHANGED source
    BY <1>3 DEF Close
  <2>2. StateInv'
    BY <1>a, <2>1 DEF source, StateInv, StartedIsOpened
  <2>3. opens' = opens /\ fmtctx' = 0 /\ stream' = stream
    BY <1>3 DEF Close
  <2>4. OpensInv'
    BY <1>a, <1>c, <2>3 DEF OpensInv
  <2>5. NewPass /\ delay' \in Delays
    BY <1>3, <1>a DEF Close, source, PacketInv, PacketTypes
  <2> QED BY <1>b, <2>2, <2>4, <2>5, NewPassInv DEF Inv
<1>4. CASE Start \/ Stop \/ BeginGetFrame
  <2>1. opened' = opened /\ UNCHANGED source
    BY <1>4 DEF Start, Stop, BeginGetFrame
  <2>2. started' \in BOOLEAN
    BY <1>4 DEF Start, Stop, BeginGetFrame
  <2>3. StartedIsOpened'
    BY <1>4, <2>1 DEF Start, Stop, BeginGetFrame, StartedIsOpened
  <2>3a. StateInv'
    BY <1>a, <2>1, <2>2, <2>3 DEF source, StateInv
  <2>4. OpensInv'
    BY <1>4, <1>a DEF Start, Stop, BeginGetFrame, OpensInv
  <2>5. pos' = pos /\ inside' = inside /\ returned' = returned /\ lost' = lost
    BY <1>4 DEF Start, Stop, BeginGetFrame
  <2>6. PacketInv'
    BY <1>a, <2>1, <2>5 DEF source, PacketInv, PacketTypes, OrderInv, NoneMissing
  <2> QED BY <1>b, <2>3a, <2>4, <2>6 DEF Inv
<1>5. CASE Turn
  <2>1. UNCHANGED state
    BY <1>5 DEF Turn, Rewind, SeekFails, ReadFails, SkipPacket, RtspGarbage, KeepBack, GiveFrame, DecodeFails
  <2>2. StateInv' /\ OpensInv'
    BY <1>a, <2>1 DEF state, source, StateInv, StartedIsOpened, OpensInv
  <2> QED BY <1>5, <1>a, <1>b, <2>2, PacketStep DEF Inv
<1>6. CASE UNCHANGED vars
  <2>1. StateInv' /\ OpensInv'
    BY <1>6, <1>a DEF vars, state, source, StateInv, StartedIsOpened, OpensInv
  <2>2. PacketInv'
    BY <1>6, <1>a DEF vars, state, source, PacketInv, PacketTypes, OrderInv, NoneMissing
  <2> QED BY <1>b, <2>1, <2>2 DEF Inv
<1> QED
  BY <1>1, <1>2, <1>3, <1>4, <1>5, <1>6 DEF Next

LEMMA Invariant == SafetySpec => []Inv
<1> QED BY InvInit, InvStep, PTL DEF SafetySpec

-----------------------------------------------------------------------------
(* What the invariant gives.                                                 *)

\* Every variable keeps its type, whatever the unset variables hold.
THEOREM TypeCorrect == SafetySpec => []TypeOK
<1>1. Inv => TypeOK
  <2> SUFFICES ASSUME Inv PROVE TypeOK
    OBVIOUS
  <2>1. returned \in 0 .. Packets
    BY LoopAssumption DEF LoopAssumption, Inv, PacketInv, PacketTypes
  <2> QED BY <2>1 DEF Inv, StateInv, OpensInv, CallInv, FrameInv, PacketInv, PacketTypes, TypeOK
<1> QED BY <1>1, Invariant, PTL

\* A decoder runs only on a source that is open.
THEOREM RunsOnlyWhenOpen == SafetySpec => []StartedIsOpened
<1>1. Inv => StartedIsOpened
  BY DEF Inv, StateInv
<1> QED BY <1>1, Invariant, PTL

\* get_frame() gives an old frame of a file only in a call that read no packet,
\* and one of a stream only in a call that threw its packet away.
THEOREM OldFramesOnlyAtAnEnd == SafetySpec => []OldFrameOnlyAtAnEnd
<1>1. Inv => OldFrameOnlyAtAnEnd
  BY DEF Inv, FrameInv
<1> QED BY <1>1, Invariant, PTL

\* Frames of a pass come in order and without gaps, but for errors, and what
\* the codec still holds at the end of a pass is its end.
THEOREM FramesAreInOrder == SafetySpec => FramesInOrder
<1> DEFINE Forward == returned' > 0 /\ returned' # returned =>
                        returned' = returned + 1 \/ (lost /\ returned' > returned)
           AtEnd   == returned > 0 /\ returned' = 0 => lost \/ returned + Len(inside) = pos
<1>1. Inv /\ [Next]_vars => [Forward]_vars /\ [AtEnd]_vars
  <2> SUFFICES ASSUME Inv, Next PROVE Forward /\ AtEnd
    OBVIOUS
  <2>1. AtEnd
    BY DEF Inv, PacketInv, NoneMissing, Gapless
  <2>2. Forward
    <3>1. CASE GiveFrame
      <4>1. /\ Packets \in Nat /\ pos \in 0 .. Packets /\ returned \in 0 .. pos
            /\ inside \in Seq(1 .. Packets)
            /\ Between(returned, inside, pos) /\ Ordered(inside)
        BY LoopAssumption DEF LoopAssumption, Inv, PacketInv, PacketTypes, OrderInv
      <4>2. pos < Packets /\ returned' = Head(Append(inside, pos + 1))
        BY <3>1 DEF GiveFrame
      <4>3. returned < returned' /\ (Gapless(returned, inside, pos) => returned' = returned + 1)
        BY <4>1, <4>2, Given
      <4>4. lost \/ Gapless(returned, inside, pos)
        BY DEF Inv, PacketInv, NoneMissing
      <4>5. returned' > returned
        BY <4>3
      <4> QED BY <4>3, <4>4, <4>5
    <3>2. CASE ~GiveFrame
      <4>1. returned' = returned \/ returned' = 0
        BY <3>2 DEF Next, OpenFile, OpenRtsp, Close, NewPass, Start, Stop, BeginGetFrame, Turn,
           Rewind, SeekFails, ReadFails, SkipPacket, RtspGarbage, KeepBack, DecodeFails
      <4>2. ~(0 > 0)
        OBVIOUS
      <4> QED BY <4>1, <4>2
    <3> QED BY <3>1, <3>2
  <2> QED BY <2>1, <2>2
<1> QED BY <1>1, Invariant, PTL DEF SafetySpec, FramesInOrder
=============================================================================
