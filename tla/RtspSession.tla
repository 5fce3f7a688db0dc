----------------------------- MODULE RtspSession -----------------------------
(***************************************************************************)
(* The RTSP side of several decoders in one process: for each stream the   *)
(* client that ffvartsp.cpp drives through DESCRIBE, SETUP, PLAY and the   *)
(* end of the stream, the decoder that waits in decoder_open() for the     *)
(* codec of the stream, and the count of streams they all share, whose     *)
(* last decrement ends the process.                                        *)
(*                                                                         *)
(* Each stream has two threads: the one in decoder_open() and the event    *)
(* loop it detaches.  A handler of the event loop is one step except where *)
(* another thread can see it half done: the store of the codec, and the    *)
(* load and the store of the count, a plain unsigned.                      *)
(*                                                                         *)
(* Definitions introduced by "Mutant" are faulty variants of the one that  *)
(* follows them; no definition of the specification uses them.             *)
(***************************************************************************)
EXTENDS Integers, Sequences, FiniteSets

CONSTANTS
    Streams,          \* one decoder, client and event loop each
    Sessions,         \* the subsessions an SDP may list, in order
    SpuriousWakeups   \* whether the wait for the codec may return unasked

ASSUME SessionAssumption ==
    /\ IsFiniteSet(Streams)
    /\ Sessions \subseteq Seq({"video", "other"}) \ {<<>>}
    /\ SpuriousWakeups \in BOOLEAN

NotLoaded == -1

VARIABLES
    client,           \* what the client of a stream is doing
    session,          \* scs.session: its subsessions; "other" has no enabled codec
    subsession,       \* scs.subsession: the one being set up
    sinks,            \* subsessions whose sink is not NULL
    streamTimerTask,  \* whether the timer of the stream's duration is set
    codec_id,         \* rtsp_dec_codec_type_id: "video" (H264 or H265) or "NONE"
    opener,           \* where decoder_open() is
    spurious,         \* whether its wait returned without a notification
    rtspClientCount,
    loaded,           \* count that a thread of the stream has loaded to change it
    raced,            \* history: two threads were changing the count at once
    exited

streamVars == <<session, subsession, sinks, streamTimerTask>>
openVars   == <<codec_id, opener, spurious>>
countVars  == <<rtspClientCount, loaded, raced, exited>>
vars == <<client, streamVars, openVars, countVars>>

\* How decoder_open() ends once it was woken: it found no decoder, could not open
\* the one it found, or took the process with it.
Ends == {"opened", "no codec", "not opened", "crashed"}

TypeOK ==
    /\ client \in [Streams -> {"none", "created", "describe", "setup", "matching",
                               "play", "playing", "closing", "closed"}]
    /\ session \in [Streams -> Sessions \cup {<<>>}]
    /\ subsession \in [Streams -> Nat]
    /\ sinks \in [Streams -> SUBSET Nat]
    /\ \A s \in Streams : sinks[s] \subseteq DOMAIN session[s]
    /\ streamTimerTask \in [Streams -> BOOLEAN]
    /\ codec_id \in [Streams -> {"NONE", "video"}]
    /\ opener \in [Streams -> {"idle", "opening", "locking", "waiting", "woken"} \cup Ends]
    /\ spurious \in [Streams -> BOOLEAN]
    /\ rtspClientCount \in Nat
    /\ loaded \in [Streams -> Nat \cup {NotLoaded}]
    /\ raced \in BOOLEAN
    /\ exited \in BOOLEAN

Init ==
    /\ client = [s \in Streams |-> "none"]
    /\ session = [s \in Streams |-> <<>>]
    /\ subsession = [s \in Streams |-> 0]
    /\ sinks = [s \in Streams |-> {}]
    /\ streamTimerTask = [s \in Streams |-> FALSE]
    /\ codec_id = [s \in Streams |-> "NONE"]
    /\ opener = [s \in Streams |-> "idle"]
    /\ spurious = [s \in Streams |-> FALSE]
    /\ rtspClientCount = 0
    /\ loaded = [s \in Streams |-> NotLoaded]
    /\ raced = FALSE
    /\ exited = FALSE

ClientMoves(s, from, to) ==
    /\ ~exited
    /\ client[s] = from
    /\ client' = [client EXCEPT ![s] = to]

DecoderMoves(s, from, to) ==
    /\ ~exited
    /\ opener[s] = from
    /\ opener' = [opener EXCEPT ![s] = to]

-----------------------------------------------------------------------------
(* The count of streams.                                                     *)

\* A thread loads the count, to increment it in openURL() or to decrement it in
\* shutdownStream().  No lock keeps another thread from loading it as well.
LoadCount(s) ==
    /\ ~exited
    /\ client[s] \in {"created", "closing"}
    /\ loaded[s] = NotLoaded
    /\ raced' = (raced \/ \E t \in Streams : loaded[t] # NotLoaded)
    /\ loaded' = [loaded EXCEPT ![s] = rtspClientCount]
    /\ UNCHANGED <<client, streamVars, openVars, rtspClientCount, exited>>

\* Mutant: the increment is missing.
CountUpForgotten(s) ==
    /\ ClientMoves(s, "created", "describe")
    /\ loaded[s] # NotLoaded
    /\ rtspClientCount' = loaded[s]
    /\ loaded' = [loaded EXCEPT ![s] = NotLoaded]
    /\ UNCHANGED <<streamVars, openVars, raced, exited>>

\* openURL(): the stream is counted and its DESCRIBE sent.
CountUp(s) ==
    /\ ClientMoves(s, "created", "describe")
    /\ loaded[s] # NotLoaded
    /\ rtspClientCount' = loaded[s] + 1
    /\ loaded' = [loaded EXCEPT ![s] = NotLoaded]
    /\ UNCHANGED <<streamVars, openVars, raced, exited>>

\* Mutant: the count is tested before it is decremented.
CountDownTestingFirst(s) ==
    /\ ClientMoves(s, "closing", "closed")
    /\ loaded[s] # NotLoaded
    /\ rtspClientCount' = loaded[s] - 1
    /\ loaded' = [loaded EXCEPT ![s] = NotLoaded]
    /\ exited' = (loaded[s] = 0)
    /\ UNCHANGED <<streamVars, openVars, raced>>

\* shutdownStream(): the last stream takes the process with it.
CountDown(s) ==
    /\ ClientMoves(s, "closing", "closed")
    /\ loaded[s] # NotLoaded
    /\ rtspClientCount' = loaded[s] - 1
    /\ loaded' = [loaded EXCEPT ![s] = NotLoaded]
    /\ exited' = (loaded[s] - 1 = 0)
    /\ UNCHANGED <<streamVars, openVars, raced>>

-----------------------------------------------------------------------------
(* decoder_open() on an RTSP URL.                                            *)

\* openURL() creates the client; the count and the DESCRIBE follow.
OpenURL(s) ==
    /\ DecoderMoves(s, "idle", "opening")
    /\ client' = [client EXCEPT ![s] = "created"]
    /\ UNCHANGED <<streamVars, codec_id, spurious, countVars>>

\* openURL() has returned, whatever came of the DESCRIBE, and the event loop
\* is started on a thread of its own.
StartEventLoop(s) ==
    /\ DecoderMoves(s, "opening", "locking")
    /\ client[s] \in {"describe", "closed"}
    /\ UNCHANGED <<client, streamVars, codec_id, spurious, countVars>>

\* codec_type_cv.wait(), with no predicate.
WaitForCodec(s) ==
    /\ DecoderMoves(s, "locking", "waiting")
    /\ UNCHANGED <<client, streamVars, codec_id, spurious, countVars>>

WakesSpuriously(s) ==
    /\ SpuriousWakeups
    /\ DecoderMoves(s, "waiting", "woken")
    /\ spurious' = [spurious EXCEPT ![s] = TRUE]
    /\ UNCHANGED <<client, streamVars, codec_id, countVars>>

\* The decoder is looked up for whatever codec is stored now; for
\* AV_CODEC_ID_NONE there is none.  One that is found may not open, nor get its
\* frame.  A context that cannot be allocated is used all the same (line 669), and
\* the reports of a codec that is missing or does not open use one that was never
\* set (lines 698 and 701): each may end the process.
OpenCodec(s) ==
    /\ \E to \in IF codec_id[s] = "video" THEN {"opened", "not opened", "crashed"}
                                          ELSE {"no codec", "crashed"} :
          DecoderMoves(s, "woken", to)
    /\ UNCHANGED <<client, streamVars, codec_id, spurious, countVars>>

-----------------------------------------------------------------------------
(* The response handlers, on the event loop of the stream.                   *)

LoopRuns(s) == opener[s] \notin {"idle", "opening"}

\* setupNextSubsession(): the SETUP of the next subsession that initiates, or
\* the PLAY when there is none left.
SetupNext(s) ==
    \E k \in subsession[s] + 1 .. Len(session'[s]) + 1 :
        /\ subsession' = [subsession EXCEPT ![s] = k]
        /\ client' = [client EXCEPT ![s] = IF k <= Len(session'[s]) THEN "setup" ELSE "play"]

\* Mutant: the destructor of the stream's state leaves the timer scheduled.
ShutdownKeepingTimer(s) ==
    /\ client' = [client EXCEPT ![s] = "closing"]
    /\ sinks' = [sinks EXCEPT ![s] = {}]
    /\ UNCHANGED streamTimerTask

\* shutdownStream() up to the count: the sinks are closed, and the client is
\* deleted with the stream's state, whose destructor unschedules the timer.
Shutdown(s) ==
    /\ client' = [client EXCEPT ![s] = "closing"]
    /\ sinks' = [sinks EXCEPT ![s] = {}]
    /\ streamTimerTask' = [streamTimerTask EXCEPT ![s] = FALSE]

\* continueAfterDESCRIBE() without a usable SDP.  When the request cannot even
\* be sent it is called at once, on the decoder's thread.
DescribeFails(s) ==
    /\ ~exited
    /\ client[s] = "describe"
    /\ Shutdown(s)
    /\ UNCHANGED <<session, subsession, openVars, countVars>>

DescribeSucceeds(s) ==
    /\ ~exited
    /\ LoopRuns(s)
    /\ client[s] = "describe"
    /\ \E offered \in Sessions : session' = [session EXCEPT ![s] = offered]
    /\ SetupNext(s)
    /\ UNCHANGED <<sinks, streamTimerTask, openVars, countVars>>

SetupFails(s) ==
    /\ ~exited
    /\ client[s] = "setup"
    /\ UNCHANGED session
    /\ SetupNext(s)
    /\ UNCHANGED <<sinks, streamTimerTask, openVars, countVars>>

\* continueAfterSETUP(): the subsession gets a sink and the codec is reset ...
SetupSucceeds(s) ==
    /\ ClientMoves(s, "setup", "matching")
    /\ sinks' = [sinks EXCEPT ![s] = @ \cup {subsession[s]}]
    /\ codec_id' = [codec_id EXCEPT ![s] = "NONE"]
    /\ UNCHANGED <<session, subsession, streamTimerTask, opener, spurious, countVars>>

\* Mutant: the decoder is notified before the codec is matched.
MatchCodecLate(s) ==
    /\ ~exited
    /\ client[s] = "matching"
    /\ opener' = [opener EXCEPT ![s] = IF @ = "waiting" THEN "woken" ELSE @]
    /\ UNCHANGED session
    /\ SetupNext(s)
    /\ UNCHANGED <<sinks, streamTimerTask, codec_id, spurious, countVars>>

\* ... then matched by name and announced, to a decoder that waits already.
MatchCodec(s) ==
    /\ ~exited
    /\ client[s] = "matching"
    /\ codec_id' = [codec_id EXCEPT ![s] = IF session[s][subsession[s]] = "video" THEN "video" ELSE @]
    /\ opener' = [opener EXCEPT ![s] = IF @ = "waiting" THEN "woken" ELSE @]
    /\ UNCHANGED session
    /\ SetupNext(s)
    /\ UNCHANGED <<sinks, streamTimerTask, spurious, countVars>>

\* continueAfterPLAY(); live555 refuses to send the PLAY of a session none of
\* whose SETUPs succeeded, and calls the handler with that error.
PlaySucceeds(s) ==
    /\ sinks[s] # {}
    /\ ClientMoves(s, "play", "playing")
    /\ \E timed \in BOOLEAN : streamTimerTask' = [streamTimerTask EXCEPT ![s] = timed]
    /\ UNCHANGED <<session, subsession, sinks, openVars, countVars>>

PlayFails(s) ==
    /\ ~exited
    /\ client[s] = "play"
    /\ Shutdown(s)
    /\ UNCHANGED <<session, subsession, openVars, countVars>>

-----------------------------------------------------------------------------
(* The end of the stream.                                                    *)

\* Mutant: the scan for open subsessions stops at the one that was closed.
SubsessionEndsAlone(s, i) ==
    /\ ~exited
    /\ client[s] \in {"setup", "play", "playing"}
    /\ i \in sinks[s]
    /\ sinks' = [sinks EXCEPT ![s] = @ \ {i}]
    /\ UNCHANGED <<client, session, subsession, streamTimerTask, openVars, countVars>>

\* subsessionAfterPlaying(), when the source closes or an RTCP BYE arrives.  The
\* last subsession shuts the stream down; a BYE after the sink was closed finds
\* others open and changes nothing.
SubsessionEnds(s, i) ==
    /\ ~exited
    /\ client[s] \in {"setup", "play", "playing"}
    /\ i \in sinks[s]
    /\ IF sinks[s] = {i}
       THEN Shutdown(s)
       ELSE /\ sinks' = [sinks EXCEPT ![s] = @ \ {i}]
            /\ UNCHANGED <<client, streamTimerTask>>
    /\ UNCHANGED <<session, subsession, openVars, countVars>>

\* streamTimerHandler()
TimerFires(s) ==
    /\ ~exited
    /\ streamTimerTask[s]
    /\ Shutdown(s)
    /\ UNCHANGED <<session, subsession, openVars, countVars>>

-----------------------------------------------------------------------------

OpenStep(s) ==
    OpenURL(s) \/ StartEventLoop(s) \/ WaitForCodec(s) \/ WakesSpuriously(s) \/ OpenCodec(s)

Handler(s) ==
    \/ DescribeFails(s) \/ DescribeSucceeds(s)
    \/ SetupFails(s) \/ SetupSucceeds(s) \/ MatchCodec(s)
    \/ PlaySucceeds(s) \/ PlayFails(s)
    \/ \E i \in sinks[s] : SubsessionEnds(s, i)
    \/ TimerFires(s)

CountStep(s) == LoadCount(s) \/ CountUp(s) \/ CountDown(s)

\* A crash ends every thread.
Next ==
    /\ \A s \in Streams : opener[s] # "crashed"
    /\ \E s \in Streams : OpenStep(s) \/ Handler(s) \/ CountStep(s)

Spec == Init /\ [][Next]_vars

-----------------------------------------------------------------------------
(* Properties.                                                               *)

\* A stream is in use from its increment of the count to its decrement.
InUse(s) == client[s] \notin {"none", "created", "closed"}

\* The comment on the count, "Counts how many streams (i.e., "RTSPClient"s) are
\* currently in use", whenever no thread is in the middle of changing it and no
\* two were at once: then an increment or a decrement may be lost, and nothing
\* else loses one.
CountsStreamsInUse ==
    ~raced /\ (\A s \in Streams : loaded[s] = NotLoaded) =>
        rtspClientCount = Cardinality({s \in Streams : InUse(s)})

\* The process exits when the last stream in use ends (line 347), and not
\* before: a stream still in use is never cut off, unless two changes of the
\* count overlapped.
ExitsWithLastStream ==
    ~raced =>
        (exited <=> /\ \E s \in Streams : client[s] = "closed"
                    /\ \A s \in Streams : ~InUse(s))

\* A client that is deleted leaves behind no sink and no timer whose callback
\* would use it (lines 197 and 243 hand the client to both).
NoCallbackAfterClose ==
    \A s \in Streams :
        client[s] \in {"closing", "closed"} => sinks[s] = {} /\ ~streamTimerTask[s]

\* A stream that plays has a subsession whose end will close it, so that no
\* stream stays in use for ever with nothing left to receive.
PlayingStreamCanEnd ==
    \A s \in Streams : client[s] = "playing" => sinks[s] # {}

\* A decoder_open() that was woken finds the codec that was announced, for a stream
\* of one video subsession and whatever its thread and the event loop do in
\* between, unless its wait returned unasked: the lookup does not fail for want of
\* a codec.  (A further subsession, a video one too, resets the stored codec and
\* may do so before the decoder has read it.)  It does not say that the decoder is
\* woken, nor that a codec that is found opens.
WokenFindsItsCodec ==
    \A s \in Streams :
        opener[s] \in {"woken"} \cup Ends /\ ~spurious[s] /\ session[s] = <<"video">>
            => codec_id[s] = "video" /\ opener[s] # "no codec"

=============================================================================
