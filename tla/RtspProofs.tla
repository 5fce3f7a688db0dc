----------------------------- MODULE RtspProofs ------------------------------
(***************************************************************************)
(* Proofs about the client of RTSP streams: PacketQueue, for every capacity*)
(* and every number of packets, and RtspSession, for any number of streams,*)
(* any session descriptions, and a wait for the codec that may return      *)
(* unasked or not.  They use no fairness.                                  *)
(***************************************************************************)
EXTENDS PacketQueue, RtspSession, SequenceTheorems, FiniteSetTheorems, TLAPS

-----------------------------------------------------------------------------
(* PacketQueue: what is between a stream and its decoder.                    *)

(* Runs of consecutive packets.                                              *)

Packets == 1 .. MaxPackets

\* The packets of the queue are consecutive and end with this one.
EndsWith(queue, last) ==
    \A i \in 1 .. Len(queue) : queue[i] = last - Len(queue) + i

LEMMA TailOfRun ==
    ASSUME NEW queue \in Seq(Packets), queue # <<>>, NEW last \in Int, EndsWith(queue, last)
    PROVE  /\ Tail(queue) \in Seq(Packets) /\ Len(Tail(queue)) = Len(queue) - 1
           /\ Head(queue) \in Packets /\ Head(queue) = last - Len(queue) + 1
           /\ EndsWith(Tail(queue), last)
<1>1. Len(queue) \in Nat /\ Len(queue) > 0 /\ Head(queue) = queue[1]
  BY EmptySeq
<1>2. Head(queue) = last - Len(queue) + 1
  BY <1>1 DEF EndsWith
<1>3. /\ Tail(queue) \in Seq(Packets) /\ Len(Tail(queue)) = Len(queue) - 1 /\ Head(queue) \in Packets
      /\ \A i \in 1 .. Len(Tail(queue)) : Tail(queue)[i] = queue[i + 1]
  BY HeadTailProperties
<1>4. EndsWith(Tail(queue), last)
  BY <1>1, <1>3 DEF EndsWith
<1> QED BY <1>2, <1>3, <1>4

LEMMA AppendToRun ==
    ASSUME NEW queue \in Seq(Packets), NEW last \in Int, EndsWith(queue, last), last + 1 \in Packets
    PROVE  /\ Append(queue, last + 1) \in Seq(Packets)
           /\ Len(Append(queue, last + 1)) = Len(queue) + 1
           /\ EndsWith(Append(queue, last + 1), last + 1)
<1>1. Len(queue) \in Nat
  BY LenProperties
<1>2. /\ Append(queue, last + 1) \in Seq(Packets)
      /\ Len(Append(queue, last + 1)) = Len(queue) + 1
      /\ \A i \in 1 .. Len(queue) : Append(queue, last + 1)[i] = queue[i]
      /\ Append(queue, last + 1)[Len(queue) + 1] = last + 1
  OBVIOUS
<1>3. EndsWith(Append(queue, last + 1), last + 1)
  BY <1>1, <1>2 DEF EndsWith
<1> QED BY <1>2, <1>3

-----------------------------------------------------------------------------
(* The inductive invariant.  The mutex excludes the two threads; a packet    *)
(* that left the queue was dropped or is not later than the one decoded last.*)

MutexInv ==
    /\ mutex = "sink" <=> sink \in {"trimming", "pushed"}
    /\ mutex = "decoder" <=> decoder \in {"testing", "taking"}

GapInv ==
    /\ Pushed \in 0 .. MaxPackets
    /\ decoded <= Pushed - Len(rtsp_packet_queue)
    /\ \A p \in Packets :
          decoded < p /\ p <= Pushed - Len(rtsp_packet_queue) => p \in dropped

QueueInv ==
    /\ QueueTypeOK
    /\ MutexInv
    /\ GapInv
    /\ HoldsLatestPackets
    /\ DropsOnlyWhenBehind
    /\ NoLostWakeup

LEMMA QueueInvInit == QueueInit => QueueInv
<1> SUFFICES ASSUME QueueInit PROVE QueueInv
  OBVIOUS
<1>1. Len(rtsp_packet_queue) = 0 /\ rtsp_packet_queue \in Seq(Packets)
  BY EmptySeq DEF QueueInit
<1>2. QueueTypeOK
  BY <1>1, QueueAssumption DEF QueueAssumption, QueueInit, QueueTypeOK, Packets
<1>3. Pushed = 0
  BY DEF QueueInit, Pushed
<1>4. GapInv
  BY <1>1, <1>3, QueueAssumption DEF QueueAssumption, QueueInit, GapInv, Packets
<1> QED
  BY <1>1, <1>2, <1>4 DEF QueueInit, QueueInv, MutexInv, HoldsLatestPackets, DropsOnlyWhenBehind, NoLostWakeup

LEMMA QueueInvStep == QueueInv /\ [QueueNext]_queueVars => QueueInv'
<1> SUFFICES ASSUME QueueInv, [QueueNext]_queueVars PROVE QueueInv'
  OBVIOUS
<1>a. /\ QueueTypeOK /\ MutexInv /\ GapInv /\ HoldsLatestPackets /\ DropsOnlyWhenBehind /\ NoLostWakeup
      /\ Len(rtsp_packet_queue) \in Nat
  BY LenProperties DEF QueueInv, QueueTypeOK
<1>b. /\ rtsp_packet_queue \in Seq(Packets) /\ Pushed \in Int
      /\ EndsWith(rtsp_packet_queue, Pushed)
  BY <1>a DEF QueueTypeOK, Packets, GapInv, HoldsLatestPackets, EndsWith
<1>1. CASE ReceiveFrame
  <2>1. Pushed' = Pushed
    BY <1>1, <1>a DEF ReceiveFrame, Pushed, QueueTypeOK
  <2>2. QueueTypeOK'
    BY <1>1, <1>a, QueueAssumption DEF QueueAssumption, ReceiveFrame, QueueTypeOK
  <2>3. DropsOnlyWhenBehind'
    BY <1>1, <1>a, QueueAssumption DEF QueueAssumption, ReceiveFrame, QueueTypeOK, DropsOnlyWhenBehind
  <2>4. MutexInv' /\ GapInv' /\ HoldsLatestPackets' /\ NoLostWakeup'
    BY <1>1, <1>a, <2>1 DEF ReceiveFrame, MutexInv, GapInv, HoldsLatestPackets, NoLostWakeup
  <2> QED BY <2>2, <2>3, <2>4 DEF QueueInv
<1>2. CASE DropOldest
  <2>1. rtsp_packet_queue # <<>> /\ Len(rtsp_packet_queue) = MAX_BUFFER_SIZE
    BY <1>2, <1>a, QueueAssumption, EmptySeq DEF QueueAssumption, DropOldest, Full, QueueTypeOK
  <2>2. /\ Pushed' = Pushed /\ Pushed = received - 1
        /\ rtsp_packet_queue' = Tail(rtsp_packet_queue)
        /\ dropped' = dropped \cup {Head(rtsp_packet_queue)}
        /\ UNCHANGED <<mutex, sink, decoder, received, decoded>> /\ sink = "trimming"
    BY <1>2, <1>a DEF DropOldest, Pushed
  <2>3. /\ Tail(rtsp_packet_queue) \in Seq(Packets)
        /\ Len(Tail(rtsp_packet_queue)) = Len(rtsp_packet_queue) - 1
        /\ Head(rtsp_packet_queue) \in Packets
        /\ Head(rtsp_packet_queue) = Pushed - Len(rtsp_packet_queue) + 1
        /\ EndsWith(Tail(rtsp_packet_queue), Pushed)
    BY <1>b, <2>1, TailOfRun
  <2>4. QueueTypeOK'
    <3>1. /\ rtsp_packet_queue' \in Seq(1 .. MaxPackets) /\ dropped' \subseteq 1 .. MaxPackets
      BY <1>a, <2>2, <2>3 DEF QueueTypeOK, Packets
    <3>2. Len(rtsp_packet_queue') <= MAX_BUFFER_SIZE
      BY <1>a, <2>1, <2>2, <2>3, QueueAssumption DEF QueueAssumption
    <3> QED BY <1>a, <2>2, <3>1, <3>2 DEF QueueTypeOK
  <2>5. HoldsLatestPackets'
    BY <2>2, <2>3 DEF HoldsLatestPackets, EndsWith
  <2>6. GapInv'
    BY <1>a, <2>1, <2>2, <2>3, QueueAssumption DEF QueueAssumption, GapInv, QueueTypeOK, Packets
  <2>7. DropsOnlyWhenBehind'
    BY <1>a, <2>1, <2>2, <2>3, QueueAssumption DEF QueueAssumption, DropsOnlyWhenBehind, QueueTypeOK
  <2>8. MutexInv' /\ NoLostWakeup'
    BY <1>a, <2>1, <2>2 DEF MutexInv, NoLostWakeup
  <2> QED BY <2>4, <2>5, <2>6, <2>7, <2>8 DEF QueueInv
<1>3. CASE PushPacket
  <2>1. /\ Pushed' = received /\ Pushed = received - 1 /\ received \in Packets
        /\ rtsp_packet_queue' = Append(rtsp_packet_queue, Pushed + 1)
        /\ UNCHANGED <<mutex, decoder, received, decoded, dropped>>
        /\ sink = "trimming" /\ sink' = "pushed"
        /\ Len(rtsp_packet_queue) < MAX_BUFFER_SIZE
    BY <1>3, <1>a, QueueAssumption DEF QueueAssumption, PushPacket, Full, Pushed, GapInv, QueueTypeOK, Packets
  <2>2. /\ Append(rtsp_packet_queue, Pushed + 1) \in Seq(Packets)
        /\ Len(Append(rtsp_packet_queue, Pushed + 1)) = Len(rtsp_packet_queue) + 1
        /\ EndsWith(Append(rtsp_packet_queue, Pushed + 1), Pushed + 1)
    <3>1. Pushed + 1 \in Packets
      BY <1>a, <2>1, QueueAssumption DEF QueueAssumption, QueueTypeOK, Packets
    <3> QED BY <1>b, <3>1, AppendToRun
  <2>3. QueueTypeOK'
    BY <1>a, <2>1, <2>2, QueueAssumption DEF QueueAssumption, QueueTypeOK, Packets
  <2>4. HoldsLatestPackets'
    <3>1. EndsWith(rtsp_packet_queue', Pushed + 1) /\ Pushed' = Pushed + 1
      BY <1>a, <2>1, <2>2 DEF QueueTypeOK
    <3> QED BY <3>1 DEF HoldsLatestPackets, EndsWith
  <2>5. GapInv'
    BY <1>a, <2>1, <2>2, QueueAssumption DEF QueueAssumption, GapInv, QueueTypeOK, Packets
  <2>6. MutexInv' /\ NoLostWakeup' /\ DropsOnlyWhenBehind'
    BY <1>a, <2>1 DEF MutexInv, NoLostWakeup, DropsOnlyWhenBehind
  <2> QED BY <2>3, <2>4, <2>5, <2>6 DEF QueueInv
<1>4. CASE TakePacket
  <2>1. /\ rtsp_packet_queue # <<>> /\ Pushed' = Pushed
        /\ rtsp_packet_queue' = Tail(rtsp_packet_queue)
        /\ decoded' = Head(rtsp_packet_queue)
        /\ UNCHANGED <<mutex, sink, received, dropped>>
        /\ decoder = "testing" /\ decoder' = "taking"
    BY <1>4 DEF TakePacket, Pushed
  <2>2. /\ Tail(rtsp_packet_queue) \in Seq(Packets)
        /\ Len(Tail(rtsp_packet_queue)) = Len(rtsp_packet_queue) - 1
        /\ Head(rtsp_packet_queue) \in Packets
        /\ Head(rtsp_packet_queue) = Pushed - Len(rtsp_packet_queue) + 1
        /\ EndsWith(Tail(rtsp_packet_queue), Pushed)
    BY <1>b, <2>1, TailOfRun
  <2>3. QueueTypeOK'
    BY <1>a, <2>1, <2>2, QueueAssumption DEF QueueAssumption, QueueTypeOK, Packets
  <2>4. HoldsLatestPackets'
    BY <2>1, <2>2 DEF HoldsLatestPackets, EndsWith
  <2>5. GapInv'
    BY <1>a, <2>1, <2>2, QueueAssumption DEF QueueAssumption, GapInv, QueueTypeOK, Packets
  <2>6. MutexInv' /\ NoLostWakeup' /\ DropsOnlyWhenBehind'
    BY <1>a, <2>1 DEF MutexInv, NoLostWakeup, DropsOnlyWhenBehind
  <2> QED BY <2>3, <2>4, <2>5, <2>6 DEF QueueInv
<1>5. CASE SinkLocks \/ SinkUnlocks \/ SinkNotifies \/ NextPacket \/ DecoderLocks \/ DecoderWaits
             \/ DecoderWakesSpuriously \/ DecoderUnlocks \/ UNCHANGED queueVars
  <2>1. /\ UNCHANGED <<rtsp_packet_queue, received, decoded, dropped>> /\ Pushed' = Pushed
    BY <1>5, <1>a DEF SinkLocks, SinkUnlocks, SinkNotifies, NextPacket, DecoderLocks, DecoderWaits,
         DecoderWakesSpuriously, DecoderUnlocks, queueVars, Pushed
  <2>2. /\ mutex' \in {"none", "sink", "decoder"}
        /\ sink' \in {"reading", "locking", "trimming", "pushed", "notifying"}
        /\ decoder' \in {"decoding", "locking", "testing", "waiting", "taking"}
    BY <1>5, <1>a DEF SinkLocks, SinkUnlocks, SinkNotifies, NextPacket, DecoderLocks, DecoderWaits,
         DecoderWakesSpuriously, DecoderUnlocks, queueVars, QueueTypeOK
  <2>3. QueueTypeOK' /\ GapInv' /\ HoldsLatestPackets' /\ DropsOnlyWhenBehind'
    BY <1>a, <2>1, <2>2 DEF QueueTypeOK, GapInv, HoldsLatestPackets, DropsOnlyWhenBehind
  <2>4. MutexInv'
    BY <1>5, <1>a DEF SinkLocks, SinkUnlocks, SinkNotifies, NextPacket, DecoderLocks, DecoderWaits,
         DecoderWakesSpuriously, DecoderUnlocks, queueVars, MutexInv, QueueTypeOK
  <2>5. NoLostWakeup'
    BY <1>5, <1>a DEF SinkLocks, SinkUnlocks, SinkNotifies, NextPacket, DecoderLocks, DecoderWaits,
         DecoderWakesSpuriously, DecoderUnlocks, queueVars, NoLostWakeup
  <2> QED BY <2>3, <2>4, <2>5 DEF QueueInv
<1> QED
  BY <1>1, <1>2, <1>3, <1>4, <1>5 DEF QueueNext, SinkStep, DecoderStep

LEMMA QueueInvariant == QueueSafetySpec => []QueueInv
<1> QED BY QueueInvInit, QueueInvStep, PTL DEF QueueSafetySpec

-----------------------------------------------------------------------------
(* What the invariant gives.                                                 *)

\* Every variable keeps its type and the queue its bound, whatever the bound.
THEOREM QueueTypeCorrect == QueueSafetySpec => []QueueTypeOK
<1>1. QueueInv => QueueTypeOK
  BY DEF QueueInv
<1> QED BY <1>1, QueueInvariant, PTL

\* The queue is the unbroken run of the latest packets of the stream.
THEOREM LatestPacketsAreHeld == QueueSafetySpec => []HoldsLatestPackets
<1>1. QueueInv => HoldsLatestPackets
  BY DEF QueueInv
<1> QED BY <1>1, QueueInvariant, PTL

\* A packet is dropped only when MAX_BUFFER_SIZE later ones have been received.
THEOREM DropsAreOld == QueueSafetySpec => []DropsOnlyWhenBehind
<1>1. QueueInv => DropsOnlyWhenBehind
  BY DEF QueueInv
<1> QED BY <1>1, QueueInvariant, PTL

\* The decoder never sleeps on a packet whose notification is over.
THEOREM WakeupsAreKept == QueueSafetySpec => []NoLostWakeup
<1>1. QueueInv => NoLostWakeup
  BY DEF QueueInv
<1> QED BY <1>1, QueueInvariant, PTL

\* The decoder gets the packets in stream order and misses only dropped ones.
THEOREM GapsAreDrops == QueueSafetySpec => NoSilentGap
<1> DEFINE Step == decoded' # decoded => /\ decoded' > decoded
                                         /\ decoded + 1 .. decoded' - 1 \subseteq dropped
<1>1. QueueInv /\ [QueueNext]_queueVars => [Step]_queueVars
  <2> SUFFICES ASSUME QueueInv, [QueueNext]_queueVars, decoded' # decoded
               PROVE  decoded' > decoded /\ decoded + 1 .. decoded' - 1 \subseteq dropped
    OBVIOUS
  <2>1. TakePacket
    BY DEF QueueNext, SinkStep, DecoderStep, queueVars, ReceiveFrame, SinkLocks, DropOldest, PushPacket, SinkUnlocks,
         SinkNotifies, NextPacket, DecoderLocks, DecoderWaits, DecoderWakesSpuriously, DecoderUnlocks
  <2>2. /\ rtsp_packet_queue \in Seq(Packets) /\ Pushed \in Int
        /\ EndsWith(rtsp_packet_queue, Pushed) /\ rtsp_packet_queue # <<>>
    BY <2>1 DEF QueueInv, QueueTypeOK, Packets, GapInv, HoldsLatestPackets, EndsWith, TakePacket
  <2>3. decoded' \in Packets /\ decoded' = Pushed - Len(rtsp_packet_queue) + 1
    BY <2>1, <2>2, TailOfRun DEF TakePacket
  <2>4. Len(rtsp_packet_queue) \in Nat
    BY <2>2, LenProperties
  <2>5. /\ decoded \in Int /\ MaxPackets \in Nat
        /\ decoded <= Pushed - Len(rtsp_packet_queue)
        /\ \A p \in Packets : decoded < p /\ p <= Pushed - Len(rtsp_packet_queue) => p \in dropped
    BY QueueAssumption DEF QueueAssumption, QueueInv, GapInv, QueueTypeOK
  <2>6. decoded' > decoded
    BY <2>2, <2>3, <2>4, <2>5
  <2>7. ASSUME NEW p \in decoded + 1 .. decoded' - 1 PROVE p \in dropped
    <3>1. decoded \in Nat /\ decoded' \in Int /\ decoded' <= MaxPackets
      BY <2>3, <2>5 DEF QueueInv, QueueTypeOK, Packets
    <3>2. p \in Packets /\ decoded < p /\ p <= Pushed - Len(rtsp_packet_queue)
      BY <2>2, <2>3, <2>4, <2>5, <3>1 DEF Packets
    <3> QED BY <2>5, <3>2
  <2> QED BY <2>6, <2>7
<1> QED BY <1>1, QueueInvariant, PTL DEF QueueSafetySpec, NoSilentGap

\* Every step of the two threads is a step of the lossy FIFO or leaves it alone.
THEOREM IsLossyFifo == QueueSafetySpec => FIFO!SafetySpec
<1>1. QueueInit => FIFO!Init
  BY DEF QueueInit, FIFO!Init, Pushed
<1>2. QueueInv /\ [QueueNext]_queueVars => [FIFO!Next]_FIFO!vars
  <2> SUFFICES ASSUME QueueInv, [QueueNext]_queueVars PROVE FIFO!Next \/ UNCHANGED FIFO!vars
    OBVIOUS
  <2>a. QueueTypeOK /\ GapInv
    BY DEF QueueInv
  <2>1. CASE DropOldest
    <3>1. Len(rtsp_packet_queue) = MAX_BUFFER_SIZE
      BY <2>1, <2>a, QueueAssumption, LenProperties DEF QueueAssumption, DropOldest, Full, QueueTypeOK
    <3> QED BY <2>1, <3>1 DEF DropOldest, FIFO!Next, FIFO!Lose, Pushed
  <2>2. CASE PushPacket
    <3>1. Len(rtsp_packet_queue) < MAX_BUFFER_SIZE
      BY <2>2, <2>a, QueueAssumption, LenProperties DEF QueueAssumption, PushPacket, Full, QueueTypeOK
    <3>2. Pushed' = received /\ Pushed + 1 = received
      BY <2>2, <2>a DEF PushPacket, Pushed, QueueTypeOK
    <3> QED BY <2>2, <3>1, <3>2 DEF PushPacket, FIFO!Next, FIFO!Send
  <2>3. CASE TakePacket
    BY <2>3 DEF TakePacket, FIFO!Next, FIFO!Deliver, Pushed
  <2>4. CASE ReceiveFrame
    BY <2>4, <2>a DEF ReceiveFrame, FIFO!vars, Pushed, QueueTypeOK
  <2>5. CASE SinkLocks \/ SinkUnlocks \/ SinkNotifies \/ NextPacket \/ DecoderLocks \/ DecoderWaits
               \/ DecoderWakesSpuriously \/ DecoderUnlocks \/ UNCHANGED queueVars
    BY <2>5 DEF SinkLocks, SinkUnlocks, SinkNotifies, NextPacket, DecoderLocks, DecoderWaits,
         DecoderWakesSpuriously, DecoderUnlocks, queueVars, FIFO!vars, Pushed
  <2> QED BY <2>1, <2>2, <2>3, <2>4, <2>5 DEF QueueNext, SinkStep, DecoderStep
<1> QED BY <1>1, <1>2, QueueInvariant, PTL DEF QueueSafetySpec, FIFO!SafetySpec

-----------------------------------------------------------------------------
(* RtspSession: how streams begin and end.                                   *)

ClientStates == {"none", "created", "describe", "setup", "matching", "play", "playing", "closing", "closed"}

-----------------------------------------------------------------------------
(* The inductive invariant.                                                  *)

\* One stream: a client that is not receiving has no sink and no timer.
StreamInv ==
    \A s \in Streams :
        /\ client[s] \in {"none", "created", "describe", "closing", "closed"} => sinks[s] = {}
        /\ streamTimerTask[s] => client[s] = "playing"
        /\ client[s] = "playing" => sinks[s] # {}
        /\ client[s] \in {"setup", "matching"} => subsession[s] \in DOMAIN session[s]
        /\ opener[s] = "idle" => client[s] = "none"

\* A decoder that was woken by an announcement finds the client past its SETUP.
OpenInv ==
    \A s \in Streams : opener[s] \in {"woken"} \cup Ends /\ ~spurious[s] =>
        /\ client[s] \notin {"none", "created", "describe"}
        /\ session[s] = <<"video">> =>
              client[s] \notin {"setup", "matching"} /\ codec_id[s] = "video" /\ opener[s] # "no codec"

\* The count is positive as soon as a stream was counted, whatever was lost.
CountType ==
    /\ \A s \in Streams : loaded[s] # NotLoaded => client[s] \in {"created", "closing"}
    /\ \A s \in Streams : loaded[s] # NotLoaded /\ client[s] = "closing" => loaded[s] > 0
    /\ ~exited /\ (\E s \in Streams : client[s] \notin {"none", "created"}) => rtspClientCount > 0

StreamsInUse == {s \in Streams : InUse(s)}

\* Without a race one thread at a time holds the count, and holds it as it is.
CountInv ==
    ~raced =>
        /\ \A s, t \in Streams : loaded[s] # NotLoaded /\ loaded[t] # NotLoaded => s = t
        /\ \A s \in Streams : loaded[s] # NotLoaded => loaded[s] = rtspClientCount
        /\ rtspClientCount = Cardinality(StreamsInUse)
        /\ exited <=> (\E s \in Streams : client[s] = "closed") /\ StreamsInUse = {}

Inv == TypeOK /\ StreamInv /\ OpenInv /\ CountType /\ CountInv

-----------------------------------------------------------------------------
(* Helpers.                                                                  *)

LEMMA SessionLen ==
    ASSUME NEW q \in Sessions \cup {<<>>}
    PROVE  Len(q) \in Nat /\ DOMAIN q = 1 .. Len(q)
<1>1. CASE q \in Sessions
  <2>1. q \in Seq({"video", "other"})
    BY <1>1, SessionAssumption DEF SessionAssumption
  <2> QED BY <2>1
<1>2. CASE q = <<>>
  BY <1>2
<1> QED BY <1>1, <1>2

\* The next subsession is a later one of the session, or the PLAY follows.
LEMMA SetupNextMoves ==
    ASSUME TypeOK, NEW s \in Streams, session' \in [Streams -> Sessions \cup {<<>>}], SetupNext(s)
    PROVE  /\ subsession' \in [Streams -> Nat]
           /\ client' \in [Streams -> ClientStates]
           /\ client'[s] \in {"setup", "play"}
           /\ client'[s] = "setup" => subsession'[s] \in DOMAIN (session'[s]) /\ subsession'[s] > subsession[s]
           /\ \A t \in Streams \ {s} : client'[t] = client[t] /\ subsession'[t] = subsession[t]
<1>1. PICK k \in subsession[s] + 1 .. Len(session'[s]) + 1 :
        /\ subsession' = [subsession EXCEPT ![s] = k]
        /\ client' = [client EXCEPT ![s] = IF k <= Len(session'[s]) THEN "setup" ELSE "play"]
  BY DEF SetupNext
<1>2. subsession[s] \in Nat /\ subsession \in [Streams -> Nat] /\ client \in [Streams -> ClientStates]
  BY DEF TypeOK, ClientStates
<1>3. Len(session'[s]) \in Nat /\ DOMAIN (session'[s]) = 1 .. Len(session'[s])
  BY SessionLen
<1>4. k \in Nat /\ k > subsession[s]
  BY <1>1, <1>2, <1>3
<1>5. subsession'[s] = k /\ client'[s] = IF k <= Len(session'[s]) THEN "setup" ELSE "play"
  BY <1>1, <1>2
<1>6. client'[s] = "setup" => k \in DOMAIN (session'[s])
  BY <1>2, <1>3, <1>4, <1>5
<1> QED BY <1>1, <1>2, <1>4, <1>5, <1>6 DEF ClientStates

\* The handlers that end a stream.
LEMMA ShutdownMoves ==
    ASSUME TypeOK, NEW s \in Streams, Shutdown(s)
    PROVE  /\ client' \in [Streams -> ClientStates] /\ client'[s] = "closing"
           /\ sinks' \in [Streams -> SUBSET Nat] /\ sinks'[s] = {}
           /\ streamTimerTask' \in [Streams -> BOOLEAN] /\ streamTimerTask'[s] = FALSE
           /\ \A t \in Streams \ {s} : client'[t] = client[t] /\ sinks'[t] = sinks[t] /\ streamTimerTask'[t] = streamTimerTask[t]
  BY DEF TypeOK, Shutdown, ClientStates

ShutdownStep(s) ==
    /\ ~exited
    /\ client[s] \in {"describe", "setup", "play", "playing"}
    /\ Shutdown(s)
    /\ UNCHANGED <<session, subsession, openVars, countVars>>

SinkCloses(s, i) ==
    /\ ~exited
    /\ client[s] \in {"setup", "play", "playing"}
    /\ sinks[s] # {i} /\ i \in sinks[s]
    /\ sinks' = [sinks EXCEPT ![s] = @ \ {i}]
    /\ UNCHANGED <<client, session, subsession, streamTimerTask, openVars, countVars>>

\* A handler closes the stream, closes one of several sinks, or goes on.
LEMMA HandlerCases ==
    ASSUME StreamInv, NEW s \in Streams, Handler(s)
    PROVE  \/ ShutdownStep(s) \/ \E i \in sinks[s] : SinkCloses(s, i)
           \/ DescribeSucceeds(s) \/ SetupFails(s) \/ SetupSucceeds(s) \/ MatchCodec(s) \/ PlaySucceeds(s)
<1>1. CASE DescribeFails(s) \/ PlayFails(s)
  BY <1>1 DEF DescribeFails, PlayFails, ShutdownStep
<1>2. CASE TimerFires(s)
  BY <1>2 DEF StreamInv, TimerFires, ShutdownStep
<1>3. ASSUME NEW i \in sinks[s], SubsessionEnds(s, i) PROVE ShutdownStep(s) \/ SinkCloses(s, i)
  BY <1>3 DEF SubsessionEnds, ShutdownStep, SinkCloses
<1> QED BY <1>1, <1>2, <1>3 DEF Handler

-----------------------------------------------------------------------------
(* Types.                                                                    *)

LEMMA TypeInit == Init => TypeOK
<1> SUFFICES ASSUME Init PROVE TypeOK
  OBVIOUS
<1>1. session \in [Streams -> Sessions \cup {<<>>}] /\ subsession \in [Streams -> Nat]
  BY DEF Init
<1>2. sinks \in [Streams -> SUBSET Nat] /\ \A s \in Streams : sinks[s] \subseteq DOMAIN session[s]
  BY DEF Init
<1>3. loaded \in [Streams -> Nat \cup {NotLoaded}] /\ rtspClientCount \in Nat
  BY DEF Init
<1>4. /\ streamTimerTask \in [Streams -> BOOLEAN] /\ spurious \in [Streams -> BOOLEAN]
      /\ raced \in BOOLEAN /\ exited \in BOOLEAN
  BY DEF Init
<1> QED BY <1>1, <1>2, <1>3, <1>4 DEF Init, TypeOK

LEMMA TypeOpenStep ==
    ASSUME TypeOK, NEW s \in Streams, OpenStep(s)
    PROVE  TypeOK'
<1>1. CASE OpenURL(s)
  BY <1>1 DEF TypeOK, OpenURL, DecoderMoves, streamVars, countVars
<1>2. CASE StartEventLoop(s)
  BY <1>2 DEF TypeOK, StartEventLoop, DecoderMoves, streamVars, countVars
<1>3. CASE WaitForCodec(s)
  BY <1>3 DEF TypeOK, WaitForCodec, DecoderMoves, streamVars, countVars
<1>4. CASE WakesSpuriously(s)
  BY <1>4 DEF TypeOK, WakesSpuriously, DecoderMoves, streamVars, countVars
<1>5. CASE OpenCodec(s)
  BY <1>5 DEF TypeOK, Ends, OpenCodec, DecoderMoves, streamVars, countVars
<1> QED BY <1>1, <1>2, <1>3, <1>4, <1>5 DEF OpenStep

LEMMA TypeHandler ==
    ASSUME TypeOK, StreamInv, NEW s \in Streams, Handler(s)
    PROVE  TypeOK'
<1>1. CASE ShutdownStep(s)
  <2>1. UNCHANGED <<session, subsession, openVars, countVars>> /\ Shutdown(s)
    BY <1>1 DEF ShutdownStep
  <2>2. \A t \in Streams : sinks'[t] \subseteq DOMAIN session'[t]
    BY <2>1, ShutdownMoves DEF TypeOK
  <2> QED BY <2>1, <2>2, ShutdownMoves DEF TypeOK, ClientStates, openVars, countVars
<1>2. ASSUME NEW i \in sinks[s], SinkCloses(s, i) PROVE TypeOK'
  BY <1>2 DEF TypeOK, SinkCloses, openVars, countVars
<1>3. CASE DescribeSucceeds(s)
  <2>1. session' \in [Streams -> Sessions \cup {<<>>}] /\ SetupNext(s)
    BY <1>3 DEF TypeOK, DescribeSucceeds
  <2>2. \A t \in Streams : sinks'[t] \subseteq DOMAIN session'[t]
    BY <1>3 DEF TypeOK, StreamInv, DescribeSucceeds
  <2> QED BY <1>3, <2>1, <2>2, SetupNextMoves DEF TypeOK, ClientStates, DescribeSucceeds, openVars, countVars
<1>4. CASE SetupFails(s)
  BY <1>4, SetupNextMoves DEF TypeOK, ClientStates, SetupFails, openVars, countVars
<1>5. CASE SetupSucceeds(s)
  <2>1. subsession[s] \in Nat /\ subsession[s] \in DOMAIN session[s]
    BY <1>5 DEF TypeOK, StreamInv, SetupSucceeds, ClientMoves
  <2> QED BY <1>5, <2>1 DEF TypeOK, SetupSucceeds, ClientMoves, countVars
<1>6. CASE MatchCodec(s)
  <2>1. /\ codec_id' \in [Streams -> {"NONE", "video"}]
        /\ opener' \in [Streams -> {"idle", "opening", "locking", "waiting", "woken"} \cup Ends]
    BY <1>6 DEF TypeOK, MatchCodec
  <2>2. session' \in [Streams -> Sessions \cup {<<>>}] /\ SetupNext(s)
    BY <1>6 DEF TypeOK, MatchCodec
  <2> QED BY <1>6, <2>1, <2>2, SetupNextMoves DEF TypeOK, ClientStates, MatchCodec, countVars
<1>7. CASE PlaySucceeds(s)
  BY <1>7 DEF TypeOK, PlaySucceeds, ClientMoves, openVars, countVars
<1> QED BY <1>1, <1>2, <1>3, <1>4, <1>5, <1>6, <1>7, HandlerCases

LEMMA TypeCountStep ==
    ASSUME TypeOK, CountType, NEW s \in Streams, CountStep(s)
    PROVE  TypeOK'
<1>1. CASE LoadCount(s)
  <2>1. loaded' \in [Streams -> Nat \cup {NotLoaded}] /\ raced' \in BOOLEAN
    BY <1>1 DEF TypeOK, LoadCount
  <2> QED BY <1>1, <2>1 DEF TypeOK, LoadCount, streamVars, openVars
<1>2. CASE CountUp(s)
  <2>1. loaded[s] \in Nat
    BY <1>2 DEF TypeOK, CountUp
  <2> QED BY <1>2, <2>1 DEF TypeOK, CountUp, ClientMoves, streamVars, openVars
<1>3. CASE CountDown(s)
  <2>1. loaded[s] \in Nat /\ loaded[s] > 0
    BY <1>3 DEF TypeOK, CountType, CountDown, ClientMoves
  <2>2. exited' \in BOOLEAN
    BY <1>3 DEF CountDown
  <2> QED BY <1>3, <2>1, <2>2 DEF TypeOK, CountDown, ClientMoves, streamVars, openVars
<1> QED BY <1>1, <1>2, <1>3 DEF CountStep

LEMMA TypeNext == TypeOK /\ StreamInv /\ CountType /\ [Next]_vars => TypeOK'
<1>1. ASSUME TypeOK, UNCHANGED vars PROVE TypeOK'
  BY <1>1 DEF TypeOK, vars, streamVars, openVars, countVars
<1> QED BY <1>1, TypeOpenStep, TypeHandler, TypeCountStep DEF Next

-----------------------------------------------------------------------------
(* Clients and decoders.                                                     *)

LEMMA StreamInit == Init => StreamInv /\ OpenInv
  BY DEF Init, StreamInv, OpenInv, Ends

LEMMA StreamOpenStep ==
    ASSUME TypeOK, StreamInv, OpenInv, NEW s \in Streams, OpenStep(s)
    PROVE  StreamInv' /\ OpenInv'
<1>1. CASE OpenURL(s)
  <2>1. client[s] = "none" /\ opener[s] = "idle"
    BY <1>1 DEF StreamInv, OpenURL, DecoderMoves
  <2>2. StreamInv'
    BY <1>1, <2>1 DEF TypeOK, StreamInv, OpenURL, DecoderMoves, streamVars
  <2>3. OpenInv'
    BY <1>1, <2>1 DEF TypeOK, Ends, OpenInv, OpenURL, DecoderMoves, streamVars
  <2> QED BY <2>2, <2>3
<1>2. CASE OpenCodec(s)
  <2>1. StreamInv'
    BY <1>2 DEF TypeOK, Ends, StreamInv, OpenCodec, DecoderMoves, streamVars
  <2>2. OpenInv'
    BY <1>2 DEF TypeOK, Ends, OpenInv, OpenCodec, DecoderMoves, streamVars
  <2> QED BY <2>1, <2>2
<1>3. CASE StartEventLoop(s) \/ WaitForCodec(s) \/ WakesSpuriously(s)
  <2>1. StreamInv'
    BY <1>3 DEF TypeOK, StreamInv, StartEventLoop, WaitForCodec, WakesSpuriously, DecoderMoves, streamVars
  <2>2. OpenInv'
    <3>1. CASE StartEventLoop(s)
      BY <3>1 DEF TypeOK, Ends, OpenInv, StartEventLoop, DecoderMoves, streamVars
    <3>2. CASE WaitForCodec(s)
      BY <3>2 DEF TypeOK, Ends, OpenInv, WaitForCodec, DecoderMoves, streamVars
    <3>3. CASE WakesSpuriously(s)
      BY <3>3 DEF TypeOK, Ends, OpenInv, WakesSpuriously, DecoderMoves, streamVars
    <3> QED BY <1>3, <3>1, <3>2, <3>3
  <2> QED BY <2>1, <2>2
<1> QED BY <1>1, <1>2, <1>3 DEF OpenStep

LEMMA StreamHandler ==
    ASSUME TypeOK, StreamInv, OpenInv, NEW s \in Streams, Handler(s)
    PROVE  StreamInv' /\ OpenInv'
<1>1. CASE ShutdownStep(s)
  <2>1. Shutdown(s) /\ client[s] \in {"describe", "setup", "play", "playing"} /\ opener[s] # "idle"
    BY <1>1 DEF StreamInv, ShutdownStep
  <2>2. UNCHANGED <<session, subsession, codec_id, opener, spurious>>
    BY <1>1 DEF ShutdownStep, openVars
  <2>3. StreamInv'
    <3>1. ASSUME NEW t \in Streams
          PROVE  t = s \/ (client'[t] = client[t] /\ sinks'[t] = sinks[t] /\ streamTimerTask'[t] = streamTimerTask[t])
      BY <2>1, ShutdownMoves
    <3>2. client'[s] = "closing" /\ sinks'[s] = {} /\ streamTimerTask'[s] = FALSE
      BY <2>1, ShutdownMoves
    <3> QED BY <2>1, <2>2, <3>1, <3>2 DEF StreamInv
  <2>4. OpenInv'
    BY <2>1, <2>2, ShutdownMoves DEF OpenInv
  <2> QED BY <2>3, <2>4
<1>2. ASSUME NEW i \in sinks[s], SinkCloses(s, i) PROVE StreamInv' /\ OpenInv'
  <2>1. sinks' \in [Streams -> SUBSET Nat] /\ sinks'[s] # {} /\ \A t \in Streams \ {s} : sinks'[t] = sinks[t]
    BY <1>2 DEF TypeOK, SinkCloses
  <2>2. StreamInv'
    BY <1>2, <2>1 DEF StreamInv, SinkCloses, openVars
  <2>3. OpenInv'
    BY <1>2 DEF OpenInv, SinkCloses, openVars
  <2> QED BY <2>2, <2>3
<1>3. CASE DescribeSucceeds(s)
  <2>1. session' \in [Streams -> Sessions \cup {<<>>}] /\ SetupNext(s)
    BY <1>3 DEF TypeOK, DescribeSucceeds
  <2>2. \A t \in Streams \ {s} : session'[t] = session[t]
    BY <1>3 DEF TypeOK, DescribeSucceeds
  <2>3. UNCHANGED <<sinks, streamTimerTask, openVars>> /\ client[s] = "describe"
    BY <1>3 DEF DescribeSucceeds
  <2>4. StreamInv'
    BY <2>1, <2>2, <2>3, SetupNextMoves DEF StreamInv, openVars
  <2>5. OpenInv'
    BY <2>1, <2>2, <2>3, SetupNextMoves DEF OpenInv, openVars
  <2> QED BY <2>4, <2>5
<1>4. CASE SetupFails(s)
  <2>1. session' \in [Streams -> Sessions \cup {<<>>}] /\ SetupNext(s)
    BY <1>4 DEF TypeOK, SetupFails
  <2>2. UNCHANGED <<session, sinks, streamTimerTask, openVars>> /\ client[s] = "setup"
    BY <1>4 DEF SetupFails
  <2>3. StreamInv'
    BY <2>1, <2>2, SetupNextMoves DEF StreamInv, openVars
  <2>4. OpenInv'
    BY <2>1, <2>2, SetupNextMoves DEF OpenInv, openVars
  <2> QED BY <2>3, <2>4
<1>5. CASE SetupSucceeds(s)
  <2>1. StreamInv'
    BY <1>5 DEF TypeOK, StreamInv, SetupSucceeds, ClientMoves
  <2>2. OpenInv'
    BY <1>5 DEF TypeOK, Ends, OpenInv, SetupSucceeds, ClientMoves
  <2> QED BY <2>1, <2>2
<1>6. CASE MatchCodec(s)
  <2>1. /\ session' \in [Streams -> Sessions \cup {<<>>}] /\ SetupNext(s)
        /\ UNCHANGED <<session, sinks, streamTimerTask, spurious>>
        /\ client[s] = "matching" /\ subsession[s] \in DOMAIN session[s] /\ opener[s] # "idle"
    BY <1>6 DEF TypeOK, StreamInv, MatchCodec
  <2>2. /\ \A t \in Streams \ {s} : codec_id'[t] = codec_id[t] /\ opener'[t] = opener[t]
        /\ opener'[s] = (IF opener[s] = "waiting" THEN "woken" ELSE opener[s])
        /\ codec_id'[s] = IF session[s][subsession[s]] = "video" THEN "video" ELSE codec_id[s]
    BY <1>6 DEF TypeOK, MatchCodec
  <2>3. StreamInv'
    BY <2>1, <2>2, SetupNextMoves DEF StreamInv
  <2>4. ASSUME session[s] = <<"video">>
        PROVE  codec_id'[s] = "video" /\ client'[s] = "play" /\ (opener'[s] = "no codec" => opener[s] = "no codec")
    <3>1. DOMAIN session[s] = 1 .. 1 /\ session[s][1] = "video"
      BY <2>4
    <3>2. subsession[s] = 1 /\ DOMAIN (session'[s]) = 1 .. 1
      BY <2>1, <3>1
    <3>3. client'[s] \in {"setup", "play"} /\ (client'[s] = "setup" => subsession'[s] \in 1 .. 1 /\ subsession'[s] > 1)
      BY <2>1, <3>2, SetupNextMoves
    <3>4. client'[s] = "play"
      BY <3>3
    <3>5. codec_id'[s] = "video"
      BY <2>2, <3>1, <3>2
    <3>6. opener'[s] = "no codec" => opener[s] = "no codec"
      BY <2>2
    <3> QED BY <3>4, <3>5, <3>6
  <2>5. client'[s] \in {"setup", "play"} /\ \A t \in Streams \ {s} : client'[t] = client[t]
    BY <2>1, SetupNextMoves
  <2>6. OpenInv'
    <3> SUFFICES ASSUME NEW t \in Streams, opener'[t] \in {"woken"} \cup Ends, ~spurious'[t]
                 PROVE  /\ client'[t] \notin {"none", "created", "describe"}
                        /\ session'[t] = <<"video">> =>
                              /\ client'[t] \notin {"setup", "matching"}
                              /\ codec_id'[t] = "video" /\ opener'[t] # "no codec"
      BY DEF OpenInv
    <3>1. CASE t # s
      BY <3>1, <2>1, <2>2, <2>5 DEF OpenInv
    <3>2. CASE t = s
      <4>1. session'[s] = <<"video">> => client'[s] = "play" /\ codec_id'[s] = "video"
        BY <2>1, <2>4
      <4>2. session'[s] = <<"video">> => opener'[s] # "no codec"
        <5> SUFFICES ASSUME session'[s] = <<"video">>, opener'[s] = "no codec" PROVE FALSE
          OBVIOUS
        <5>1. session[s] = <<"video">> /\ opener[s] = "no codec" /\ ~spurious[s]
          BY <3>2, <2>1, <2>4
        <5> QED BY <5>1 DEF OpenInv, Ends
      <4> QED BY <3>2, <2>5, <4>1, <4>2
    <3> QED BY <3>1, <3>2
  <2> QED BY <2>3, <2>6
<1>7. CASE PlaySucceeds(s)
  <2>1. StreamInv'
    BY <1>7 DEF TypeOK, StreamInv, PlaySucceeds, ClientMoves, openVars
  <2>2. OpenInv'
    BY <1>7 DEF TypeOK, Ends, OpenInv, PlaySucceeds, ClientMoves, openVars
  <2> QED BY <2>1, <2>2
<1> QED BY <1>1, <1>2, <1>3, <1>4, <1>5, <1>6, <1>7, HandlerCases

LEMMA StreamCountStep ==
    ASSUME TypeOK, StreamInv, OpenInv, NEW s \in Streams, CountStep(s)
    PROVE  StreamInv' /\ OpenInv'
<1>1. UNCHANGED <<session, subsession, sinks, streamTimerTask, codec_id, opener, spurious>>
  BY DEF CountStep, LoadCount, CountUp, CountDown, streamVars, openVars
<1>2. /\ \/ client'[s] = client[s]
         \/ client[s] = "created" /\ client'[s] = "describe"
         \/ client[s] = "closing" /\ client'[s] = "closed"
      /\ \A t \in Streams \ {s} : client'[t] = client[t]
  BY DEF TypeOK, CountStep, LoadCount, CountUp, CountDown, ClientMoves
<1>3. StreamInv'
  BY <1>1, <1>2 DEF StreamInv
<1>4. OpenInv'
  BY <1>1, <1>2 DEF OpenInv
<1> QED BY <1>3, <1>4

LEMMA StreamNext == TypeOK /\ StreamInv /\ OpenInv /\ [Next]_vars => StreamInv' /\ OpenInv'
<1>1. ASSUME StreamInv, UNCHANGED vars PROVE StreamInv'
  <2>1. UNCHANGED <<client, session, subsession, sinks, streamTimerTask, opener>>
    BY <1>1 DEF vars, streamVars, openVars
  <2> QED BY <1>1, <2>1 DEF StreamInv
<1>2. ASSUME OpenInv, UNCHANGED vars PROVE OpenInv'
  <2>1. UNCHANGED <<client, session, codec_id, opener, spurious>>
    BY <1>2 DEF vars, streamVars, openVars
  <2> QED BY <1>2, <2>1 DEF OpenInv
<1> QED BY <1>1, <1>2, StreamOpenStep, StreamHandler, StreamCountStep DEF Next

-----------------------------------------------------------------------------
(* The count.                                                                *)

LEMMA CountInit == Init => CountType /\ CountInv
<1> SUFFICES ASSUME Init PROVE CountType /\ CountInv
  OBVIOUS
<1>1. CountType
  BY DEF Init, CountType
<1>2. StreamsInUse = {}
  BY DEF Init, StreamsInUse, InUse
<1>3. Cardinality(StreamsInUse) = 0
  BY <1>2, FS_EmptySet
<1> QED BY <1>1, <1>2, <1>3 DEF Init, CountInv

\* A handler leaves the count alone, and its stream in use.
LEMMA HandlerClients ==
    ASSUME TypeOK, StreamInv, NEW s \in Streams, Handler(s)
    PROVE  /\ ~exited /\ UNCHANGED countVars
           /\ client[s] \in {"describe", "setup", "matching", "play", "playing"}
           /\ client'[s] \in {"setup", "matching", "play", "playing", "closing"}
           /\ \A t \in Streams \ {s} : client'[t] = client[t]
<1>1. CASE ShutdownStep(s)
  BY <1>1, ShutdownMoves DEF ShutdownStep
<1>2. ASSUME NEW i \in sinks[s], SinkCloses(s, i)
      PROVE  /\ ~exited /\ UNCHANGED <<client, countVars>>
             /\ client[s] \in {"setup", "play", "playing"}
  BY <1>2 DEF SinkCloses
<1>3. CASE DescribeSucceeds(s) \/ SetupFails(s) \/ MatchCodec(s)
  <2>1. session' \in [Streams -> Sessions \cup {<<>>}] /\ SetupNext(s)
    BY <1>3 DEF TypeOK, DescribeSucceeds, SetupFails, MatchCodec
  <2> QED BY <1>3, <2>1, SetupNextMoves DEF DescribeSucceeds, SetupFails, MatchCodec
<1>4. CASE SetupSucceeds(s) \/ PlaySucceeds(s)
  BY <1>4 DEF TypeOK, SetupSucceeds, PlaySucceeds, ClientMoves
<1> QED BY <1>1, <1>2, <1>3, <1>4, HandlerCases

LEMMA OpenStepClients ==
    ASSUME TypeOK, StreamInv, NEW s \in Streams, OpenStep(s)
    PROVE  /\ UNCHANGED countVars
           /\ \/ UNCHANGED client
              \/ /\ client[s] = "none" /\ client'[s] = "created"
                 /\ \A t \in Streams \ {s} : client'[t] = client[t]
  BY DEF TypeOK, StreamInv, OpenStep, OpenURL, StartEventLoop, WaitForCodec, WakesSpuriously, OpenCodec, DecoderMoves

\* A step that neither counts a stream nor discounts one.
LEMMA UncountedKeeps ==
    ASSUME TypeOK, CountType, CountInv, UNCHANGED countVars, NEW s \in Streams,
           \A t \in Streams \ {s} : client'[t] = client[t],
           \/ client'[s] = client[s]
           \/ client[s] = "none" /\ client'[s] = "created"
           \/ /\ client[s] \in {"describe", "setup", "matching", "play", "playing"}
              /\ client'[s] \in {"setup", "matching", "play", "playing", "closing"}
    PROVE  CountType' /\ CountInv'
<1>1. CountType'
  BY DEF CountType, countVars
<1>2. StreamsInUse' = StreamsInUse /\ \A t \in Streams : client'[t] = "closed" <=> client[t] = "closed"
  BY DEF StreamsInUse, InUse
<1>3. CountInv'
  BY <1>2 DEF CountInv, countVars
<1> QED BY <1>1, <1>3

LEMMA InUseFinite == IsFiniteSet(StreamsInUse) /\ Cardinality(StreamsInUse) \in Nat
<1>1. IsFiniteSet(StreamsInUse)
  BY SessionAssumption, FS_Subset DEF SessionAssumption, StreamsInUse
<1> QED BY <1>1, FS_CardinalityType

LEMMA LoadKeeps ==
    ASSUME TypeOK, CountType, CountInv, NEW s \in Streams, LoadCount(s)
    PROVE  CountType' /\ CountInv'
<1>1. /\ loaded'[s] = rtspClientCount /\ \A t \in Streams \ {s} : loaded'[t] = loaded[t]
      /\ client[s] \in {"created", "closing"} /\ ~exited
      /\ UNCHANGED <<client, rtspClientCount, exited>>
  BY DEF TypeOK, LoadCount
<1>2. CountType'
  BY <1>1 DEF CountType
<1>3. StreamsInUse' = StreamsInUse
  BY <1>1 DEF StreamsInUse, InUse
<1>4. ~raced' => ~raced /\ \A t \in Streams : loaded[t] = NotLoaded
  BY DEF LoadCount
<1>5. CountInv'
  BY <1>1, <1>3, <1>4 DEF CountInv
<1> QED BY <1>2, <1>5

LEMMA CountUpKeeps ==
    ASSUME TypeOK, CountType, CountInv, NEW s \in Streams, CountUp(s)
    PROVE  CountType' /\ CountInv'
<1>1. /\ client[s] = "created" /\ client'[s] = "describe"
      /\ \A t \in Streams \ {s} : client'[t] = client[t] /\ loaded'[t] = loaded[t]
      /\ loaded[s] \in Nat /\ loaded[s] # NotLoaded /\ loaded'[s] = NotLoaded
      /\ rtspClientCount' = loaded[s] + 1 /\ ~exited /\ UNCHANGED <<raced, exited>>
  BY DEF TypeOK, CountUp, ClientMoves, NotLoaded
<1>2. CountType'
  BY <1>1 DEF CountType
<1>3. StreamsInUse' = StreamsInUse \cup {s} /\ s \notin StreamsInUse
  BY <1>1 DEF StreamsInUse, InUse
<1>4. Cardinality(StreamsInUse \cup {s}) = Cardinality(StreamsInUse) + 1
  BY <1>3, InUseFinite, FS_AddElement
<1>5. CountInv'
  BY <1>1, <1>3, <1>4 DEF CountInv
<1> QED BY <1>2, <1>5

LEMMA CountDownKeeps ==
    ASSUME TypeOK, CountType, CountInv, NEW s \in Streams, CountDown(s)
    PROVE  CountType' /\ CountInv'
<1>1. /\ client[s] = "closing" /\ client'[s] = "closed"
      /\ \A t \in Streams \ {s} : client'[t] = client[t] /\ loaded'[t] = loaded[t]
      /\ loaded[s] \in Nat /\ loaded[s] # NotLoaded /\ loaded'[s] = NotLoaded
      /\ rtspClientCount' = loaded[s] - 1 /\ ~exited /\ UNCHANGED raced
      /\ exited' <=> loaded[s] - 1 = 0
  BY DEF TypeOK, CountDown, ClientMoves, NotLoaded
<1>2. loaded[s] > 0
  BY <1>1 DEF CountType
<1>3. CountType'
  BY <1>1, <1>2 DEF CountType
<1>4. StreamsInUse' = StreamsInUse \ {s} /\ s \in StreamsInUse
  BY <1>1 DEF StreamsInUse, InUse
<1>5. Cardinality(StreamsInUse \ {s}) = Cardinality(StreamsInUse) - 1 /\ IsFiniteSet(StreamsInUse \ {s})
  BY <1>4, InUseFinite, FS_RemoveElement
<1>6. Cardinality(StreamsInUse \ {s}) = 0 <=> StreamsInUse \ {s} = {}
  BY <1>5, FS_EmptySet
<1>7. CountInv'
  BY <1>1, <1>4, <1>5, <1>6, InUseFinite DEF CountInv
<1> QED BY <1>3, <1>7

LEMMA CountNext ==
    ASSUME TypeOK, StreamInv, CountType, CountInv, [Next]_vars
    PROVE  CountType' /\ CountInv'
<1>1. ASSUME NEW s \in Streams, OpenStep(s) PROVE CountType' /\ CountInv'
  BY <1>1, OpenStepClients, UncountedKeeps
<1>2. ASSUME NEW s \in Streams, Handler(s) PROVE CountType' /\ CountInv'
  BY <1>2, HandlerClients, UncountedKeeps
<1>3. ASSUME NEW s \in Streams, CountStep(s) PROVE CountType' /\ CountInv'
  BY <1>3, LoadKeeps, CountUpKeeps, CountDownKeeps DEF CountStep
<1>4. CASE UNCHANGED vars
  BY <1>4 DEF CountType, CountInv, StreamsInUse, InUse, vars, countVars
<1> QED BY <1>1, <1>2, <1>3, <1>4 DEF Next

-----------------------------------------------------------------------------
(* The results.                                                              *)

LEMMA Invariance == Spec => []Inv
<1>1. Init => Inv
  BY TypeInit, StreamInit, CountInit DEF Inv
<1>2. Inv /\ [Next]_vars => Inv'
  BY TypeNext, StreamNext, CountNext DEF Inv
<1> QED BY <1>1, <1>2, PTL DEF Spec

\* Every variable keeps its type; in particular the count never goes below
\* zero, whatever changes of it are lost.
THEOREM TypeCorrect == Spec => []TypeOK
<1>1. Inv => TypeOK
  BY DEF Inv
<1> QED BY <1>1, Invariance, PTL

\* With any number of streams the count is that of the streams in use, as long
\* as no two changes of it overlapped.
THEOREM StreamsAreCounted == Spec => []CountsStreamsInUse
<1>1. Inv => CountsStreamsInUse
  BY DEF Inv, CountInv, StreamsInUse, CountsStreamsInUse
<1> QED BY <1>1, Invariance, PTL

\* Without such an overlap the process exits with its last stream, not before.
THEOREM LastStreamExits == Spec => []ExitsWithLastStream
<1>1. Inv => ExitsWithLastStream
  BY DEF Inv, CountInv, StreamsInUse, ExitsWithLastStream
<1> QED BY <1>1, Invariance, PTL

\* Nothing is left to call back into a deleted client.
THEOREM NothingCallsBack == Spec => []NoCallbackAfterClose
<1>1. Inv => NoCallbackAfterClose
  BY DEF Inv, StreamInv, NoCallbackAfterClose
<1> QED BY <1>1, Invariance, PTL

\* A playing stream has a sink whose end will close it.
THEOREM PlayingCanEnd == Spec => []PlayingStreamCanEnd
<1>1. Inv => PlayingStreamCanEnd
  BY DEF Inv, StreamInv, PlayingStreamCanEnd
<1> QED BY <1>1, Invariance, PTL

\* A decoder that is woken finds the codec of a stream of one video subsession,
\* unless the wait returned unasked.
THEOREM CodecIsFound == Spec => []WokenFindsItsCodec
<1>1. Inv => WokenFindsItsCodec
  BY DEF Inv, OpenInv, WokenFindsItsCodec
<1> QED BY <1>1, Invariance, PTL

=============================================================================
