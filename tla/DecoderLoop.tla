----------------------------- MODULE DecoderLoop -----------------------------
(***************************************************************************)
(* The life of a decoder, src/src/ffvadecoder.cpp: opening and closing a   *)
(* source, and the loop by which ffva_decoder_get_frame() reads packets    *)
(* until the codec gives a frame.  Packets of a source are numbered in     *)
(* order, a frame bears the number of its packet.  The codec keeps some    *)
(* packets back before it gives the first frame: for a short source that   *)
(* may be all of them.                                                     *)
(*                                                                         *)
(* decoder_run() reads two local variables it may not have set: ret after  *)
(* a first read that failed or met the end, read_frame_ret for every RTSP  *)
(* packet.  Either may hold anything.                                      *)
(*                                                                         *)
(* Definitions introduced by "Mutant" are faulty variants of the one that  *)
(* follows them; no definition of the specification uses them.             *)
(***************************************************************************)
EXTENDS Integers, Sequences

CONSTANTS
    Packets,    \* packets of the video stream in a source
    Delays,     \* numbers of packets a codec may keep back
    MaxOpens,   \* bound on the calls of ffva_decoder_open()
    MayFail     \* the source and the codec may report errors

ASSUME LoopAssumption ==
    /\ Packets \in Nat /\ Delays \subseteq Nat
    /\ MaxOpens \in Nat
    /\ MayFail \in BOOLEAN

VARIABLES
    opened, started,   \* STATE_OPENED and STATE_STARTED
    isrtsp,
    delay,             \* packets the codec of the source keeps back
    seekable,          \* the source can be set back to its start
    opens,             \* calls of open so far
    fmtctx, stream,    \* the call of open the pointer is from, 0 for NULL
    pos,               \* packets read of this pass through the source
    inside,            \* packets in the codec, oldest first
    decoded,           \* number of the frame in decoded_frame, 0 for none
    ret,               \* in the loop: what ret holds; else the answer
    fresh,             \* decoded_frame was filled by this call
    reads,             \* packets this call has taken from the source, up to 1
    dropped,           \* this call threw a packet away unread
    returned,          \* number of the frame returned last in this pass
    lost               \* a packet of this pass was lost to an error

source == <<isrtsp, delay, seekable>>
state == <<opened, started, source, opens, fmtctx, stream>>
call  == <<fresh, reads, dropped>>
vars == <<state, pos, inside, decoded, ret, call, returned, lost>>

Answers == {"none", "ok", "error"}   \* outside the loop
Locals  == {"unset", "again"}        \* inside the loop

TypeOK ==
    /\ opened \in BOOLEAN /\ started \in BOOLEAN
    /\ isrtsp \in BOOLEAN /\ delay \in Delays /\ seekable \in BOOLEAN
    /\ opens \in 0 .. MaxOpens /\ fmtctx \in 0 .. MaxOpens /\ stream \in 0 .. MaxOpens
    /\ pos \in 0 .. Packets
    /\ inside \in Seq(1 .. Packets) /\ Len(inside) <= delay
    /\ decoded \in 0 .. Packets
    /\ ret \in Answers \cup Locals \cup {"crash"}
    /\ fresh \in BOOLEAN /\ reads \in 0 .. 1 /\ dropped \in BOOLEAN
    /\ returned \in 0 .. Packets
    /\ lost \in BOOLEAN

Init ==
    /\ opened = FALSE /\ started = FALSE
    /\ isrtsp = FALSE /\ delay \in Delays /\ seekable = TRUE
    /\ opens = 0 /\ fmtctx = 0 /\ stream = 0
    /\ pos = 0 /\ inside = <<>> /\ decoded = 0
    /\ ret = "none" /\ fresh = FALSE /\ reads = 0 /\ dropped = FALSE
    /\ returned = 0 /\ lost = FALSE

Idle == ret \in Answers

NewPass == pos' = 0 /\ inside' = <<>> /\ returned' = 0 /\ lost' = FALSE

-----------------------------------------------------------------------------
(* Opening and closing.  A caller closes what it could not open.             *)

\* A file whose open fails on the way leaves what it has got so far: the
\* format context, and the stream.
OpenFile ==
    /\ Idle /\ ~opened /\ fmtctx = 0 /\ opens < MaxOpens
    /\ opens' = opens + 1
    /\ isrtsp' = FALSE /\ delay' \in Delays
    /\ seekable' \in {TRUE, ~MayFail}
    /\ \/ opened' = TRUE /\ fmtctx' = opens' /\ stream' = IF stream = 0 THEN opens' ELSE stream
       \/ /\ MayFail /\ opened' = FALSE
          /\ \/ fmtctx' = 0 /\ UNCHANGED stream
             \/ fmtctx' = opens' /\ stream' \in {stream, IF stream = 0 THEN opens' ELSE stream}
    /\ NewPass
    /\ ret' = "none"
    /\ UNCHANGED <<started, decoded, call>>

\* decoder_open() of a stream, once the codec type is known (RtspSession).  The
\* message about a missing codec goes through a pointer that is not set.
OpenRtsp ==
    /\ Idle /\ ~opened /\ fmtctx = 0 /\ opens < MaxOpens
    /\ opens' = opens + 1
    /\ isrtsp' = TRUE /\ delay' \in Delays
    /\ stream' = 0
    /\ \/ opened' = TRUE /\ ret' = "none"
       \/ MayFail /\ opened' = FALSE /\ ret' \in {"none", "crash"}
    /\ NewPass
    /\ UNCHANGED <<started, seekable, fmtctx, decoded, call>>

\* decoder_close() stops the decoder; the pointer to the stream stays.
Close ==
    /\ Idle /\ (opened \/ fmtctx # 0)
    /\ opened' = FALSE /\ started' = FALSE /\ fmtctx' = 0
    /\ NewPass
    /\ ret' = "none"
    /\ UNCHANGED <<source, opens, stream, decoded, call>>

Start ==
    /\ Idle /\ opened /\ ~started
    /\ started' = TRUE
    /\ UNCHANGED <<opened, source, opens, fmtctx, stream, pos, inside, decoded, ret, call, returned, lost>>

Stop ==
    /\ Idle /\ started
    /\ started' = FALSE
    /\ UNCHANGED <<opened, source, opens, fmtctx, stream, pos, inside, decoded, ret, call, returned, lost>>

-----------------------------------------------------------------------------
(* ffva_decoder_get_frame().                                                 *)

\* A decoder that is opened is started if it must be; else this is refused.
BeginGetFrame ==
    /\ Idle /\ opened
    /\ started' = TRUE
    /\ ret' = "unset" /\ fresh' = FALSE /\ reads' = 0 /\ dropped' = FALSE
    /\ UNCHANGED <<opened, source, opens, fmtctx, stream, pos, inside, decoded, returned, lost>>

\* What a variable that is unset leads to: any answer, or another turn.
Leave(r) == IF r = "unset" THEN {"ok", "error", "again"} ELSE {r}

\* Mutant: the source is not set back to its start.
RewindUnsought ==
    /\ ret \in Locals /\ ~isrtsp /\ pos = Packets /\ seekable
    /\ inside' = <<>> /\ returned' = 0 /\ lost' = FALSE
    /\ ret' \in Leave(ret)
    /\ UNCHANGED <<state, pos, decoded, call>>

\* Mutant: the codec keeps its packets over the seek.
RewindUnflushed ==
    /\ ret \in Locals /\ ~isrtsp /\ pos = Packets /\ seekable
    /\ pos' = 0 /\ returned' = 0 /\ lost' = FALSE
    /\ ret' \in Leave(ret)
    /\ UNCHANGED <<state, inside, decoded, call>>

\* End of file: the codec is flushed, the source starts again, and the loop
\* condition is evaluated with ret as it is.
Rewind ==
    /\ ret \in Locals /\ ~isrtsp /\ pos = Packets /\ seekable
    /\ NewPass
    /\ ret' \in Leave(ret)
    /\ UNCHANGED <<state, decoded, call>>

\* The result of the seek is ignored: what the codec held is gone, and the next
\* read meets the end of the file once more.
SeekFails ==
    /\ ret \in Locals /\ ~isrtsp /\ pos = Packets /\ MayFail
    /\ inside' = <<>> /\ lost' = TRUE
    /\ ret' \in Leave(ret)
    /\ UNCHANGED <<state, pos, decoded, call, returned>>

\* av_read_frame() fails: ret is returned as it is.
ReadFails ==
    /\ ret \in Locals /\ ~isrtsp /\ MayFail
    /\ ret' \in IF ret = "unset" THEN {"ok", "error"} ELSE {"error"}
    /\ UNCHANGED <<state, pos, inside, decoded, call, returned, lost>>

\* A packet of another stream.
SkipPacket ==
    /\ ret \in Locals /\ ~isrtsp /\ pos < Packets
    /\ ret' = "again"
    /\ reads' = 1
    /\ UNCHANGED <<state, pos, inside, decoded, fresh, dropped, returned, lost>>

\* read_frame_ret of an RTSP packet happens to be negative: the packet is gone;
\* if it equals AVERROR_EOF, a context that is not there is asked to seek.
RtspGarbage ==
    /\ ret \in Locals /\ isrtsp /\ pos < Packets
    /\ pos' = pos + 1
    /\ lost' = TRUE
    /\ reads' = 1 /\ dropped' = TRUE
    /\ ret' \in IF ret = "unset" THEN {"ok", "error", "crash"} ELSE {"error", "crash"}
    /\ UNCHANGED <<state, inside, decoded, fresh, returned>>

\* decode_packet(): the codec takes the next packet and gives no frame yet.
KeepBack ==
    /\ ret \in Locals /\ pos < Packets /\ Len(inside) < delay
    /\ pos' = pos + 1
    /\ inside' = Append(inside, pos + 1)
    /\ ret' = "again"
    /\ reads' = 1
    /\ UNCHANGED <<state, decoded, fresh, dropped, returned, lost>>

\* Mutant: the loop is left before decoded_frame is filled.
GiveFrameUnfilled ==
    /\ ret \in Locals /\ pos < Packets /\ Len(inside) = delay
    /\ pos' = pos + 1
    /\ inside' = Tail(Append(inside, pos + 1))
    /\ returned' = Head(Append(inside, pos + 1))
    /\ ret' = "ok"
    /\ reads' = 1
    /\ UNCHANGED <<state, decoded, fresh, dropped, lost>>

\* decode_packet(): the codec gives its oldest frame, and handle_frame()
\* describes it in decoded_frame.
GiveFrame ==
    /\ ret \in Locals /\ pos < Packets /\ Len(inside) = delay
    /\ pos' = pos + 1
    /\ inside' = Tail(Append(inside, pos + 1))
    /\ decoded' = Head(Append(inside, pos + 1))
    /\ returned' = decoded'
    /\ ret' = "ok" /\ fresh' = TRUE
    /\ reads' = 1
    /\ UNCHANGED <<state, dropped, lost>>

\* The codec rejects the packet, or the frame it gives has no surface.
DecodeFails ==
    /\ ret \in Locals /\ pos < Packets /\ MayFail
    /\ pos' = pos + 1
    /\ \/ UNCHANGED inside
       \/ Len(inside) = delay /\ inside' = Tail(Append(inside, pos + 1))
    /\ lost' = TRUE
    /\ ret' = "error"
    /\ reads' = 1
    /\ UNCHANGED <<state, decoded, fresh, dropped, returned>>

-----------------------------------------------------------------------------

Turn ==
    \/ Rewind \/ SeekFails \/ ReadFails \/ SkipPacket \/ RtspGarbage
    \/ KeepBack \/ GiveFrame \/ DecodeFails

Next == OpenFile \/ OpenRtsp \/ Close \/ Start \/ Stop \/ BeginGetFrame \/ Turn

SafetySpec == Init /\ [][Next]_vars

\* The loop takes its turns, packets of the video stream come among those of
\* the others, and a source that can be set back is so in the end.  Nothing
\* counts on an error to end the loop.
Spec == SafetySpec /\ WF_vars(Rewind) /\ SF_vars(KeepBack \/ GiveFrame)

-----------------------------------------------------------------------------
(* Properties.                                                               *)

\* The frame of the call before comes back as a new one only from a file whose
\* end, or whose failure, was met before a packet was read, and from a stream
\* only if the call threw away the packet it took.
OldFrameOnlyAtAnEnd == ret = "ok" /\ ~fresh => IF isrtsp THEN dropped ELSE reads = 0

\* A decoder runs only on a source that is open.
StartedIsOpened == started => opened

\* Frames of a pass come in order, each once, none left out unless an error
\* took its packet; those still in the codec at the end are the last ones.
FramesInOrder ==
    /\ [][returned' > 0 /\ returned' # returned => returned' = returned + 1 \/ (lost /\ returned' > returned)]_vars
    /\ [][returned > 0 /\ returned' = 0 => lost \/ returned + Len(inside) = pos]_vars

\* "Destroys the decoder resources used for processing the previous file": an
\* open decoder works on a stream of the file it was opened for.
StreamOfThisFile == opened /\ ~isrtsp => stream = fmtctx

\* A call on a file returns if the file can be set back to its start and the
\* flush at its end leaves the codec something to give; a call on any other
\* turns for ever at the end of the file, unless an error ends it.
GetFrameReturns == ret \in Locals /\ ~isrtsp /\ seekable /\ delay < Packets ~> ret \in Answers
=============================================================================
