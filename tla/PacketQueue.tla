----------------------------- MODULE PacketQueue -----------------------------
(***************************************************************************)
(* The queue between the event-loop thread of a stream and its decoder:    *)
(* rtsp_packet_queue with its mutex and condition variable, filled by      *)
(* DummySink::afterGettingFrame() (src/src/ffvartsp.cpp) and emptied by    *)
(* decoder_run() (src/src/ffvadecoder.cpp).                                *)
(*                                                                         *)
(* One thread runs the sinks of a stream and one thread its decoder, so    *)
(* each side has one program counter.  Packets are numbered in the order   *)
(* live555 delivers them.                                                  *)
(*                                                                         *)
(* Definitions introduced by "Mutant" are faulty variants of the one that  *)
(* follows them; no definition of the specification uses them.             *)
(***************************************************************************)
EXTENDS Integers, Sequences

CONSTANTS
    MAX_BUFFER_SIZE,  \* 10 in the code
    MaxPackets        \* bound on the packets live555 delivers

ASSUME QueueAssumption ==
    /\ MAX_BUFFER_SIZE \in Nat \ {0}
    /\ MaxPackets \in Nat

VARIABLES
    rtsp_packet_queue,
    mutex,             \* holder of rtsp_packet_queue_mutex: "none", "sink" or "decoder"
    sink,              \* where afterGettingFrame() is
    decoder,           \* where decoder_run() is
    received,          \* packets live555 has delivered to the sink
    decoded,           \* packet in rtsp_dec_buffer, 0 before the first
    dropped            \* packets the sink has dropped

queueVars == <<rtsp_packet_queue, mutex, sink, decoder, received, decoded, dropped>>

\* The types, and the bound of the queue however far the decoder falls behind.
QueueTypeOK ==
    /\ rtsp_packet_queue \in Seq(1 .. MaxPackets)
    /\ Len(rtsp_packet_queue) <= MAX_BUFFER_SIZE
    /\ mutex \in {"none", "sink", "decoder"}
    /\ sink \in {"reading", "locking", "trimming", "pushed", "notifying"}
    /\ decoder \in {"decoding", "locking", "testing", "waiting", "taking"}
    /\ received \in 0 .. MaxPackets
    /\ decoded \in 0 .. MaxPackets
    /\ dropped \subseteq 1 .. MaxPackets

QueueInit ==
    /\ rtsp_packet_queue = <<>>
    /\ mutex = "none"
    /\ sink = "reading"
    /\ decoder = "decoding"
    /\ received = 0
    /\ decoded = 0
    /\ dropped = {}

-----------------------------------------------------------------------------
(* afterGettingFrame(), on the event-loop thread of the stream.              *)

\* A frame of the video subsession, in an enabled codec, has been copied into
\* fReceiveBuffer_vec; one of another subsession is skipped and changes nothing.
ReceiveFrame ==
    /\ sink = "reading"
    /\ received < MaxPackets
    /\ received' = received + 1
    /\ sink' = "locking"
    /\ UNCHANGED <<rtsp_packet_queue, mutex, decoder, decoded, dropped>>

SinkLocks ==
    /\ sink = "locking"
    /\ mutex = "none"
    /\ mutex' = "sink"
    /\ sink' = "trimming"
    /\ UNCHANGED <<rtsp_packet_queue, decoder, received, decoded, dropped>>

Full == Len(rtsp_packet_queue) >= MAX_BUFFER_SIZE

\* Mutant: the queue is emptied to make room.
DropEverything ==
    /\ sink = "trimming"
    /\ Full
    /\ dropped' = dropped \cup {rtsp_packet_queue[i] : i \in 1 .. Len(rtsp_packet_queue)}
    /\ rtsp_packet_queue' = <<>>
    /\ UNCHANGED <<mutex, sink, decoder, received, decoded>>

\* One round of the loop that makes room.
DropOldest ==
    /\ sink = "trimming"
    /\ Full
    /\ dropped' = dropped \cup {Head(rtsp_packet_queue)}
    /\ rtsp_packet_queue' = Tail(rtsp_packet_queue)
    /\ UNCHANGED <<mutex, sink, decoder, received, decoded>>

PushPacket ==
    /\ sink = "trimming"
    /\ ~Full
    /\ rtsp_packet_queue' = Append(rtsp_packet_queue, received)
    /\ sink' = "pushed"
    /\ UNCHANGED <<mutex, decoder, received, decoded, dropped>>

SinkUnlocks ==
    /\ sink = "pushed"
    /\ mutex' = "none"
    /\ sink' = "notifying"
    /\ UNCHANGED <<rtsp_packet_queue, decoder, received, decoded, dropped>>

\* Mutant: only the first packet of the stream is announced.
NotifiesOnFirstOnly ==
    /\ sink = "notifying"
    /\ decoder' = IF decoder = "waiting" /\ received = 1 THEN "locking" ELSE decoder
    /\ sink' = "reading"
    /\ UNCHANGED <<rtsp_packet_queue, mutex, received, decoded, dropped>>

\* notify_one() wakes the decoder if it sleeps; continuePlaying() then asks
\* live555 for the next frame.
SinkNotifies ==
    /\ sink = "notifying"
    /\ decoder' = IF decoder = "waiting" THEN "locking" ELSE decoder
    /\ sink' = "reading"
    /\ UNCHANGED <<rtsp_packet_queue, mutex, received, decoded, dropped>>

-----------------------------------------------------------------------------
(* decoder_run() on an RTSP stream.                                          *)

\* decode_packet() is done with the packet in rtsp_dec_buffer; the loop, or the
\* next call of decoder_run(), asks for another.
NextPacket ==
    /\ decoder = "decoding"
    /\ decoder' = "locking"
    /\ UNCHANGED <<rtsp_packet_queue, mutex, sink, received, decoded, dropped>>

DecoderLocks ==
    /\ decoder = "locking"
    /\ mutex = "none"
    /\ mutex' = "decoder"
    /\ decoder' = "testing"
    /\ UNCHANGED <<rtsp_packet_queue, sink, received, decoded, dropped>>

\* Mutant: wait() without a predicate.
DecoderWaitsUntested ==
    /\ decoder = "testing"
    /\ mutex' = "none"
    /\ decoder' = "waiting"
    /\ UNCHANGED <<rtsp_packet_queue, sink, received, decoded, dropped>>

\* The predicate of wait() is false: the mutex is released as the thread blocks.
DecoderWaits ==
    /\ decoder = "testing"
    /\ rtsp_packet_queue = <<>>
    /\ mutex' = "none"
    /\ decoder' = "waiting"
    /\ UNCHANGED <<rtsp_packet_queue, sink, received, decoded, dropped>>

\* A condition variable may wake its waiter unasked.
DecoderWakesSpuriously ==
    /\ decoder = "waiting"
    /\ decoder' = "locking"
    /\ UNCHANGED <<rtsp_packet_queue, mutex, sink, received, decoded, dropped>>

TakePacket ==
    /\ decoder = "testing"
    /\ rtsp_packet_queue # <<>>
    /\ decoded' = Head(rtsp_packet_queue)
    /\ rtsp_packet_queue' = Tail(rtsp_packet_queue)
    /\ decoder' = "taking"
    /\ UNCHANGED <<mutex, sink, received, dropped>>

DecoderUnlocks ==
    /\ decoder = "taking"
    /\ mutex' = "none"
    /\ decoder' = "decoding"
    /\ UNCHANGED <<rtsp_packet_queue, sink, received, decoded, dropped>>

-----------------------------------------------------------------------------

SinkStep ==
    SinkLocks \/ DropOldest \/ PushPacket \/ SinkUnlocks \/ SinkNotifies

DecoderStep ==
    NextPacket \/ DecoderLocks \/ DecoderWaits \/ TakePacket \/ DecoderUnlocks

QueueNext == ReceiveFrame \/ SinkStep \/ DecoderStep \/ DecoderWakesSpuriously

QueueSafetySpec == QueueInit /\ [][QueueNext]_queueVars

\* Both threads run whenever they can, and one that waits for the mutex gets it
\* if it is released over and over; nothing makes a packet arrive or the
\* condition variable wake its waiter unasked.
QueueSpec ==
    /\ QueueSafetySpec
    /\ WF_queueVars(SinkStep) /\ SF_queueVars(SinkLocks)
    /\ WF_queueVars(DecoderStep) /\ SF_queueVars(DecoderLocks)

-----------------------------------------------------------------------------
(* Properties.                                                               *)

\* Packets that have been in the queue, up to this one.
Pushed == IF sink \in {"locking", "trimming"} THEN received - 1 ELSE received

\* Making room discards the oldest packets (line 506): the queue is always the
\* unbroken run of the latest packets of the stream.
HoldsLatestPackets ==
    \A i \in 1 .. Len(rtsp_packet_queue) :
        rtsp_packet_queue[i] = Pushed - Len(rtsp_packet_queue) + i

\* A packet is dropped only when MAX_BUFFER_SIZE later ones have been received.
DropsOnlyWhenBehind ==
    \A p \in dropped : received >= p + MAX_BUFFER_SIZE

\* The thread waiting at line 843 sleeps on a queue that has a packet only
\* while the sink is still between its push and its notify_one().
NoLostWakeup ==
    decoder = "waiting" /\ rtsp_packet_queue # <<>> => sink \in {"pushed", "notifying"}

\* The decoder sees the packets in stream order, and misses only those that
\* the sink dropped.
NoSilentGap ==
    [][decoded' # decoded => /\ decoded' > decoded
                             /\ decoded + 1 .. decoded' - 1 \subseteq dropped]_queueVars

\* Every packet received is dropped or decoded in the end.
EveryPacketIsHandled ==
    \A p \in 1 .. MaxPackets : received >= p ~> decoded >= p \/ p \in dropped

FIFO == INSTANCE LossyFifo WITH
    Capacity  <- MAX_BUFFER_SIZE,
    pending   <- rtsp_packet_queue,
    sent      <- Pushed,
    delivered <- decoded

\* With its locks and wake-ups the queue is a lossy FIFO (module LossyFifo).
ImplementsLossyFifo == FIFO!Spec
=============================================================================
