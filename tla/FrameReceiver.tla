--------------------------- MODULE FrameReceiver ---------------------------
(***************************************************************************)
(* The receiver of video from the card (src/libfcav/fcReceiver.cpp): one   *)
(* object for the process.  Adding a picture to the renderer maps the      *)
(* card's buffer (init), allocates one for the picture, creates a detached *)
(* thread (start) and keeps the address of the allocated buffer; the       *)
(* thread joins a multicast group, then copies a frame each time the card  *)
(* tells of one.  Finalising any EGL renderer, of any player, stops the    *)
(* receiver.  Nothing keeps a second picture from being added: init()      *)
(* stores its height, its width and its mapping one after the other, and a *)
(* receiver that runs copies with whatever of these is there.              *)
(*                                                                         *)
(* A copy from a page that is not mapped, past the end of a mapping, past  *)
(* the end of a buffer or into a freed one, and freeing a buffer twice end *)
(* the process here ("died"), which is the mildest of what they may do.    *)
(*                                                                         *)
(* Definitions introduced by "Mutant" are faulty variants of the one below *)
(* them, kept to show that the properties notice.                          *)
(***************************************************************************)
EXTENDS Naturals, Sequences

CONSTANTS Sizes,        \* sizes of a frame, any height with any width
          MaxAdds,      \* bound: pictures added
          MaxStops      \* bound: calls of stop()

ASSUME ConstAssumption ==
    /\ Sizes \subseteq Nat \ {0}
    /\ MaxAdds \in Nat
    /\ MaxStops \in Nat

VARIABLES size,     \* height * width
          rxBuf,    \* 0: NULL, or the number of a mapping
          mapSize,  \* the mappings asked for: the size of each
          mapped,   \* the mappings that are accessible
          rgbBuf,   \* the buffer start() allocated last, 0: none
          buffer,   \* the buffers allocated, one for each receiver started:
                    \* their sizes and whether they were freed
          adding,   \* the picture being added, and how far init() is with it
          pictures, \* what the renderer was given: size, buffer, was it refused
          at,       \* where each receiver is
          copying,  \* what each receiver copies: mapping, buffer and size
          mtx,      \* the receiver that holds mtx, 0: none
          mapFailed, \* history: one of them was refused
          overlap,  \* history: a picture was added while a receiver ran
          stops,    \* history: calls of stop()
          died      \* what ended the process: "no", or how

\* The threads that start() creates, in their order.
Receivers == 1 .. MaxAdds

vars == <<size, rxBuf, mapSize, mapped, rgbBuf, buffer, adding, pictures, at,
          copying, mtx, mapFailed, overlap, stops, died>>

Picture == [size : Sizes, buf : Receivers \cup {0}, refused : BOOLEAN]

\* How far init() is: a height was stored, the width too, or it has returned.
Adding == [size : Sizes, refused : BOOLEAN, stage : {"height", "width", "done"}]
NoAdd == [size |-> 0, refused |-> FALSE, stage |-> "none"]

TypeOK ==
    /\ size \in Sizes \cup {0}
    /\ mapSize \in Seq(Nat)
    /\ rxBuf \in 0 .. Len(mapSize) /\ mapped \subseteq 1 .. Len(mapSize)
    /\ rgbBuf \in 0 .. Len(buffer)
    /\ buffer \in Seq([size : Nat, freed : BOOLEAN])
    /\ adding \in Adding \cup {NoAdd}
    /\ pictures \in Seq(Picture)
    /\ at \in [Receivers -> {"none", "exit", "add", "test",
                             "locked", "waiting", "woken", "copying", "end",
                             "ended"}]
    /\ copying \in [Receivers -> [map : Nat, buf : Receivers \cup {0}, size : Nat]]
    /\ mtx \in Receivers \cup {0}
    /\ stops \in 0 .. MaxStops
    /\ mapFailed \in BOOLEAN /\ overlap \in BOOLEAN
    /\ died \in {"no", "signal", "unmapped", "past end", "buffer"}

NoCopy == [map |-> 0, buf |-> 0, size |-> 0]

Running == {r \in Receivers : at[r] \notin {"none", "ended"}}

Init ==
    /\ size = 0 /\ rxBuf = 0 /\ mapSize = <<>> /\ mapped = {}
    /\ rgbBuf = 0 /\ buffer = <<>>
    /\ adding = NoAdd /\ pictures = <<>>
    /\ at = [r \in Receivers |-> "none"]
    /\ copying = [r \in Receivers |-> NoCopy]
    /\ mtx = 0 /\ mapFailed = FALSE /\ overlap = FALSE /\ stops = 0
    /\ died = "no"

-----------------------------------------------------------------------------
(* The application's thread                                                *)

initKeeps == <<rgbBuf, buffer, pictures, at, copying, mtx, stops, died>>

\* init() gives up on a colour it does not know, and changes nothing; add_fc
\* goes on all the same.  Otherwise it stores the height, beside the width of
\* the picture before: their product is one of the sizes, whichever.
BeginAdd(n, ok) ==
    /\ died = "no"
    /\ adding = NoAdd
    /\ Len(pictures) < MaxAdds
    /\ adding' = [size |-> n, refused |-> ~ok,
                  stage |-> IF ok THEN "height" ELSE "done"]
    /\ overlap' = (overlap \/ Running # {})
    /\ IF ok THEN size' \in Sizes ELSE UNCHANGED size
    /\ UNCHANGED <<initKeeps, rxBuf, mapSize, mapped, mapFailed>>

StoreWidth ==
    /\ died = "no"
    /\ adding.stage = "height"
    /\ adding' = [adding EXCEPT !.stage = "width"]
    /\ size' = adding.size
    /\ UNCHANGED <<initKeeps, rxBuf, mapSize, mapped, mapFailed, overlap>>

\* An older mapping is neither used any more nor given back.  A refused one
\* leaves NULL, or an address that is not NULL and not mapped either.
MutantKept == mapped \ {rxBuf}
Kept == mapped

MapFrames ==
    /\ died = "no"
    /\ adding.stage = "width"
    /\ adding' = [adding EXCEPT !.stage = "done"]
    /\ mapSize' = Append(mapSize, size)
    /\ \/ /\ rxBuf' = Len(mapSize')                 \* mapped
          /\ mapped' = Kept \cup {rxBuf'}
          /\ UNCHANGED mapFailed
       \/ /\ rxBuf' \in {0, Len(mapSize')}          \* NULL, MAP_FAILED
          /\ mapFailed' = TRUE
          /\ mapped' = Kept
    /\ UNCHANGED <<initKeeps, size, overlap>>

MutantAllocated == size - 1
Allocated == size

\* The address the renderer asks for once start() has returned.
MutantPictured == rgbBuf
Pictured == rgbBuf'

\* start() does nothing without a mapping; the renderer keeps the address of
\* whatever buffer is there.

Start ==
    /\ died = "no"
    /\ adding.stage = "done"
    /\ adding' = NoAdd
    /\ \/ /\ rxBuf = 0
          /\ UNCHANGED <<rgbBuf, buffer, at>>
       \/ /\ rxBuf # 0
          /\ buffer' = Append(buffer, [size |-> Allocated, freed |-> FALSE])
          /\ rgbBuf' = Len(buffer')
          /\ at' = [at EXCEPT ![Len(buffer')] = "exit"]
    /\ pictures' = Append(pictures, [size |-> adding.size, buf |-> Pictured,
                                     refused |-> adding.refused])
    /\ UNCHANGED <<died, size, rxBuf, mapSize, mapped, copying, mtx, mapFailed,
                   overlap, stops>>

\* Every receiver that waits for a frame is woken; one that does not wait yet
\* misses it.
MutantWake == at
Wake == [r \in Receivers |-> IF at[r] = "waiting" THEN "woken" ELSE at[r]]

\* stop(), from renderer_finalize(): it takes the mapping away (all of it: the
\* size is still that of the latest mapping, SizeIsMapped in ReceiverProofs),
\* then the pointer to it, then wakes the receivers, without the mutex.
Stop ==
    /\ died = "no"
    /\ adding = NoAdd
    /\ stops < MaxStops
    /\ stops' = stops + 1
    /\ mapped' = mapped \ {rxBuf}
    /\ rxBuf' = 0
    /\ at' = Wake
    /\ UNCHANGED <<died, size, mapSize, rgbBuf, buffer, adding, pictures, copying,
                   mtx, mapFailed, overlap>>

-----------------------------------------------------------------------------
(* A receiver: recvFrame()                                                 *)

Go(r, from, to) ==
    /\ died = "no"
    /\ at[r] = from
    /\ at' = [at EXCEPT ![r] = to]

recvKeeps == <<size, rxBuf, mapSize, mapped, rgbBuf, adding, pictures, mapFailed,
               overlap, stops>>

\* The group is left and joined, whatever comes of it: each request returns,
\* or the signal it sends when it gives up ends the process (GroupRequests).
Request(r, from, to) ==
    /\ Go(r, from, to)
    /\ died' \in {"no", "signal"}
    /\ UNCHANGED <<recvKeeps, buffer, copying, mtx>>

\* while (rxBuf), then the lock.
Test(r) ==
    /\ \/ rxBuf # 0 /\ Go(r, "test", "locked")
       \/ rxBuf = 0 /\ Go(r, "test", "end")
    /\ UNCHANGED <<died, recvKeeps, buffer, copying, mtx>>

\* cond.wait() without a condition, and without the mutex while it waits.
Wait(r) ==
    /\ Go(r, "locked", "waiting")
    /\ mtx = 0
    /\ UNCHANGED <<died, recvKeeps, buffer, copying, mtx>>

\* The copy takes both buffers and the size as they are when it begins.
Copied == size

BeginCopy(r) ==
    /\ Go(r, "woken", "copying")
    /\ mtx = 0
    /\ mtx' = r
    /\ copying' = [copying EXCEPT ![r] = [map |-> rxBuf, buf |-> rgbBuf,
                                          size |-> Copied]]
    /\ UNCHANGED <<died, recvKeeps, buffer>>

\* What a copy meets.
Harm(c) ==
    IF c.map \notin mapped THEN "unmapped"
    ELSE IF mapSize[c.map] < c.size THEN "past end"
    ELSE IF buffer[c.buf].freed \/ buffer[c.buf].size < c.size THEN "buffer"
    ELSE "no"

EndCopy(r) ==
    /\ Go(r, "copying", "test")
    /\ mtx' = 0
    /\ died' = Harm(copying[r])
    /\ copying' = [copying EXCEPT ![r] = NoCopy]
    /\ UNCHANGED <<recvKeeps, buffer>>

\* delete[] rgbBuf, whichever that is by now.
End(r) ==
    /\ Go(r, "end", "ended")
    /\ buffer' = [buffer EXCEPT ![rgbBuf].freed = TRUE]
    /\ died' = IF buffer[rgbBuf].freed THEN "buffer" ELSE "no"
    /\ UNCHANGED <<recvKeeps, copying, mtx>>

\* The card tells of a frame (sig_handler), once a receiver has asked for it.
GotFrame ==
    /\ died = "no"
    /\ buffer # <<>>
    /\ at' = Wake
    /\ UNCHANGED <<died, recvKeeps, buffer, copying, mtx>>

Receive(r) ==
    \/ Request(r, "exit", "add") \/ Request(r, "add", "test")
    \/ Test(r) \/ Wait(r) \/ BeginCopy(r) \/ EndCopy(r) \/ End(r)

-----------------------------------------------------------------------------
Next ==
    \/ \E n \in Sizes, ok \in BOOLEAN : BeginAdd(n, ok)
    \/ StoreWidth
    \/ MapFrames
    \/ Start
    \/ Stop
    \/ \E r \in Receivers : Receive(r)
    \/ GotFrame

\* Receivers run, and the card goes on telling of frames.
Fairness ==
    /\ \A r \in Receivers : WF_vars(Receive(r))
    /\ WF_vars(GotFrame)

Spec == Init /\ [][Next]_vars /\ Fairness

-----------------------------------------------------------------------------
(* What the receiver promises                                              *)

\* Frames are copied from a mapping that is there, unless the receiver was
\* stopped or a mapping was refused: in neither case does the thread look again
\* before it copies.  A copy goes past the end of its mapping only when a
\* picture was added while a receiver ran, which can copy by the new size from
\* the old mapping.
CopiesWhatIsMapped ==
    /\ died = "unmapped" => stops > 0 \/ mapFailed
    /\ died = "past end" => overlap

\* A frame fits in the buffer it is copied to, which is not freed before, nor
\* freed twice, unless a picture was added while a receiver was running; a
\* receiver that is stopped, has ended and is started again is sound.
BufferIsOwn == died = "buffer" => overlap

\* The buffer a picture was given is large enough for it and is freed by a
\* stop only, when its colours were accepted and no mapping was refused.
PicturesFit ==
    \A i \in DOMAIN pictures :
        LET p == pictures[i] IN
        ~p.refused /\ ~mapFailed =>
            /\ p.buf # 0
            /\ buffer[p.buf].size >= p.size
            /\ buffer[p.buf].freed => stops > 0

\* Once the receiver is stopped for good its threads end, as long as frames
\* come (one that began to wait just after the stop is woken by a frame), or
\* the process does.
StopTakesEffect ==
    <>[](rxBuf = 0) => <>[](died # "no" \/ Running = {})

=============================================================================
