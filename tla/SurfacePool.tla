----------------------------- MODULE SurfacePool -----------------------------
(***************************************************************************)
(* The pool of VA surfaces of one decoder (src/src/ffvadecoder.cpp): the   *)
(* array va_surfaces, the ring va_surfaces_queue of free surfaces, and the *)
(* VA config and context created by get_format().  FFmpeg drives it from   *)
(* the decoding thread: get_format() until one call succeeds, then         *)
(* get_buffer2() for every picture and vaapi_release_surface() when the    *)
(* last reference to a picture goes away, in any order.                    *)
(*                                                                         *)
(* A surface is named by its index in va_surfaces; a VA surface id is the  *)
(* pair <<index, attempt>> of the vaCreateSurfaces() call that made it.    *)
(*                                                                         *)
(* Definitions introduced by "Mutant" are faulty variants of the one that  *)
(* follows them; no definition of the specification uses them.             *)
(***************************************************************************)
EXTENDS Integers, FiniteSets

CONSTANTS
    Sizes,        \* values avctx->refs + 1 + SCRATCH_SURFACES may take
    MaxAttempts,  \* bound on the calls of get_format() that build anything
    AllocMayFail  \* whether growing the queue can run out of memory

ASSUME PoolAssumption ==
    /\ Sizes \subseteq Nat \ {0}
    /\ MaxAttempts \in Nat \ {0}
    /\ AllocMayFail \in BOOLEAN

Null    == -1  \* an empty queue slot
Invalid == 0   \* VA_INVALID_ID

VARIABLES
    phase,              \* "open", "closing" (avcodec_close() has begun) or "freed"
    format_inited,
    va_surfaces,        \* [index -> attempt that created its id, or Invalid]
    num_va_surfaces,
    va_surfaces_queue,  \* [slot -> index of a free surface, or Null]
    queue_length,
    queue_head,
    queue_tail,
    config_id,          \* attempt that created the VA config, or Invalid
    context_id,         \* attempt that created the VA context, or Invalid
    attempt,            \* calls of get_format() so far that built anything
    frames,             \* FFmpeg: surfaces wrapped in a live AVBufferRef
    driver              \* libva: ids of the surfaces created and not destroyed

ringVars == <<va_surfaces_queue, queue_length, queue_head, queue_tail>>
vaVars   == <<va_surfaces, num_va_surfaces, config_id, context_id, driver>>
vars == <<phase, format_inited, ringVars, vaVars, attempt, frames>>

RingTypes ==
    /\ queue_length \in Nat
    /\ va_surfaces_queue \in [0 .. queue_length - 1 -> {Null} \cup Nat]
    /\ queue_head \in Nat
    /\ queue_tail \in Nat

VaTypes ==
    /\ num_va_surfaces \in Nat
    /\ va_surfaces \in [0 .. num_va_surfaces - 1 -> 0 .. MaxAttempts]
    /\ config_id \in 0 .. MaxAttempts
    /\ context_id \in 0 .. MaxAttempts
    /\ driver \subseteq Nat \X (1 .. MaxAttempts)

TypeOK ==
    /\ phase \in {"open", "closing", "freed"}
    /\ format_inited \in BOOLEAN
    /\ attempt \in 0 .. MaxAttempts
    /\ frames \subseteq Nat
    /\ RingTypes
    /\ VaTypes

Init ==
    /\ phase = "open"
    /\ format_inited = FALSE
    /\ num_va_surfaces = 0
    /\ va_surfaces = [i \in {} |-> Invalid]
    /\ queue_length = 0
    /\ va_surfaces_queue = [i \in {} |-> Null]
    /\ queue_head = 0
    /\ queue_tail = 0
    /\ config_id = Invalid
    /\ context_id = Invalid
    /\ attempt = 0
    /\ frames = {}
    /\ driver = {}

-----------------------------------------------------------------------------
(* get_format(): every outcome of vaapi_init_decoder() that changes state.   *)
(* A call that fails before the arrays grow, like one made after a success,  *)
(* changes nothing; so does the VA config of a failed call, destroyed again  *)
(* at error_cleanup.                                                         *)

Larger(m, n) == IF m < n THEN n ELSE m

\* FFmpeg asks again as long as no call has succeeded.
CanInit ==
    /\ phase = "open"
    /\ ~format_inited
    /\ attempt < MaxAttempts

\* Both arrays only ever grow; new entries are VA_INVALID_ID and NULL.
GrownSurfaces(n) ==
    [i \in 0 .. Larger(num_va_surfaces, n) - 1 |->
        IF i < num_va_surfaces THEN va_surfaces[i] ELSE Invalid]

GrownQueue(n) ==
    [i \in 0 .. Larger(queue_length, n) - 1 |->
        IF i < queue_length THEN va_surfaces_queue[i] ELSE Null]

GrowSurfaces(n) ==
    /\ attempt' = attempt + 1
    /\ va_surfaces' = GrownSurfaces(n)
    /\ num_va_surfaces' = Larger(num_va_surfaces, n)

\* vaapi_ensure_surfaces() grows the array, then cannot grow the queue.
InitFailsGrowingQueue(n) ==
    /\ CanInit
    /\ AllocMayFail
    /\ queue_length < n
    /\ GrowSurfaces(n)
    /\ UNCHANGED <<phase, format_inited, ringVars, config_id, context_id, frames, driver>>

\* The id array cannot be allocated, or vaCreateSurfaces() fails.
InitFailsCreatingSurfaces(n) ==
    /\ CanInit
    /\ GrowSurfaces(n)
    /\ va_surfaces_queue' = GrownQueue(n)
    /\ queue_length' = Larger(queue_length, n)
    /\ UNCHANGED <<phase, format_inited, queue_head, queue_tail, config_id,
                   context_id, frames, driver>>

\* Mutant: ffva_surface_init() does not store the id.
CreatedIdsNotStored(num) == [i \in 0 .. num - 1 |-> Invalid]

\* Every entry of the array gets a new id, whatever it held before.
CreatedIds(num) == [i \in 0 .. num - 1 |-> attempt + 1]

\* vaCreateSurfaces() succeeds and the queue is filled in index order.  When it
\* is shorter than the array, the stores past its end are out of its bounds.
CreateSurfaces(n) ==
    LET num == Larger(num_va_surfaces, n)
    IN  /\ attempt' = attempt + 1
        /\ num_va_surfaces' = num
        /\ va_surfaces' = CreatedIds(num)
        /\ driver' = driver \cup ((0 .. num - 1) \X {attempt + 1})
        /\ queue_length' = Larger(queue_length, n)
        /\ va_surfaces_queue' = [i \in 0 .. Larger(queue_length, n) - 1 |-> i]
        /\ queue_head' = 0
        /\ queue_tail' = 0

InitFailsCreatingContext(n) ==
    /\ CanInit
    /\ CreateSurfaces(n)
    /\ UNCHANGED <<phase, format_inited, config_id, context_id, frames>>

InitSucceeds(n) ==
    /\ CanInit
    /\ CreateSurfaces(n)
    /\ config_id' = attempt + 1
    /\ context_id' = attempt + 1
    /\ format_inited' = TRUE
    /\ UNCHANGED <<phase, frames>>

GetFormat ==
    \E n \in Sizes :
        \/ InitFailsGrowingQueue(n)
        \/ InitFailsCreatingSurfaces(n)
        \/ InitFailsCreatingContext(n)
        \/ InitSucceeds(n)

-----------------------------------------------------------------------------
(* get_buffer2() and the release callback of its buffers.                    *)

NextSlot(i) == (i + 1) % queue_length

\* Mutant: the slot is not cleared when its surface is handed out.
TakenNotCleared == va_surfaces_queue

\* The queue once the surface at its head has been handed out.
Taken == [va_surfaces_queue EXCEPT ![queue_head] = Null]

\* FFmpeg asks for buffers only once get_format() has returned VAAPI.
CanAcquire ==
    /\ phase = "open"
    /\ format_inited
    /\ va_surfaces_queue[queue_head] # Null

\* vaapi_acquire_surface() succeeds and the surface goes into an AVBufferRef.
\* When the slot at the head is NULL the call is AVERROR_BUG and changes nothing.
GetBuffer ==
    /\ CanAcquire
    /\ frames' = frames \cup {va_surfaces_queue[queue_head]}
    /\ va_surfaces_queue' = Taken
    /\ queue_head' = NextSlot(queue_head)
    /\ UNCHANGED <<phase, format_inited, queue_length, queue_tail, vaVars, attempt>>

\* Mutant: the surface goes to the slot before the tail.
PutBackOneEarly(queue, s) ==
    LET slot == IF queue_tail = 0 THEN queue_length - 1 ELSE queue_tail - 1
    IN  IF queue[slot] = Null
        THEN /\ va_surfaces_queue' = [queue EXCEPT ![slot] = s]
             /\ queue_tail' = NextSlot(queue_tail)
        ELSE va_surfaces_queue' = queue /\ queue_tail' = queue_tail

\* vaapi_release_surface(): a no-op (AVERROR_BUG) when the tail is occupied.
PutBack(queue, s) ==
    IF queue[queue_tail] = Null
    THEN /\ va_surfaces_queue' = [queue EXCEPT ![queue_tail] = s]
         /\ queue_tail' = NextSlot(queue_tail)
    ELSE va_surfaces_queue' = queue /\ queue_tail' = queue_tail

\* av_buffer_create() fails after the acquire: the surface is put back and the
\* call is ENOMEM.
GetBufferFailsWrapping ==
    /\ AllocMayFail
    /\ CanAcquire
    /\ PutBack(Taken, va_surfaces_queue[queue_head])
    /\ queue_head' = NextSlot(queue_head)
    /\ UNCHANGED <<phase, format_inited, queue_length, vaVars, attempt, frames>>

\* The last reference to s is dropped.  FFmpeg ignores the result of the
\* callback: after AVERROR_BUG the surface would be in no place.
ReleaseSurface(s) ==
    /\ s \in frames
    /\ frames' = frames \ {s}
    /\ PutBack(va_surfaces_queue, s)
    /\ UNCHANGED <<phase, format_inited, queue_length, queue_head, vaVars, attempt>>

-----------------------------------------------------------------------------
(* decoder_finalize(): ffva_decoder_close(), whose avcodec_close() drops all *)
(* references, then vaapi_finalize().                                        *)

Close ==
    /\ phase = "open"
    /\ phase' = "closing"
    /\ UNCHANGED <<format_inited, ringVars, vaVars, attempt, frames>>

\* Mutant: the loop over the surfaces stops one short.
RecordedIdsButLast == {<<i, va_surfaces[i]>> : i \in 0 .. num_va_surfaces - 2}

\* The ids vaapi_finalize() destroys.
RecordedIds == {<<i, va_surfaces[i]>> : i \in 0 .. num_va_surfaces - 1}

Finalize ==
    /\ phase = "closing"
    /\ frames = {}
    /\ phase' = "freed"
    /\ driver' = driver \ RecordedIds
    /\ config_id' = Invalid
    /\ context_id' = Invalid
    /\ num_va_surfaces' = 0
    /\ va_surfaces' = [i \in {} |-> Invalid]
    /\ queue_length' = 0
    /\ va_surfaces_queue' = [i \in {} |-> Null]
    /\ UNCHANGED <<format_inited, queue_head, queue_tail, attempt, frames>>

Next ==
    \/ GetFormat
    \/ GetBuffer
    \/ GetBufferFailsWrapping
    \/ \E s \in frames : ReleaseSurface(s)
    \/ Close
    \/ Finalize

Spec == Init /\ [][Next]_vars

-----------------------------------------------------------------------------
(* Properties.                                                               *)

Surfaces == 0 .. num_va_surfaces - 1
Slots    == 0 .. queue_length - 1

\* get_format() has succeeded, and the queue was as long as the array.
Ready == context_id # Invalid /\ queue_length = num_va_surfaces

\* The slots the ring regards as occupied, from its head to before its tail.
\* When both meet, the slot they share tells a full ring from an empty one.
Occupied(i) ==
    \/ queue_head < queue_tail /\ queue_head <= i /\ i < queue_tail
    \/ queue_head > queue_tail /\ (queue_head <= i \/ i < queue_tail)
    \/ queue_head = queue_tail /\ va_surfaces_queue[queue_head] # Null

\* A VA surface of a ready decoder is in exactly one place: in one slot of the
\* free queue or wrapped in one frame (vaapi_acquire_surface() and
\* vaapi_release_surface() neither lose one nor hand one out twice).
OnePlaceEach ==
    Ready =>
        /\ frames \subseteq Surfaces
        /\ \A s \in Surfaces : s \in frames <=> \A i \in Slots : va_surfaces_queue[i] # s
        /\ \A i, j \in Slots :
              i # j /\ va_surfaces_queue[i] # Null => va_surfaces_queue[i] # va_surfaces_queue[j]

\* The occupied slots are exactly a run of the ring from its head to its tail,
\* so a NULL inside the ring never hides free surfaces behind it.
RingContiguous ==
    Ready =>
        /\ queue_head \in Slots
        /\ queue_tail \in Slots
        /\ \A i \in Slots : va_surfaces_queue[i] # Null <=> Occupied(i)

\* get_buffer2() answers AVERROR_BUG (line 176) only when FFmpeg really holds
\* every surface of the pool.
AcquireFailsOnlyWhenExhausted ==
    Ready /\ va_surfaces_queue[queue_head] = Null => frames = Surfaces

\* vaapi_release_surface() never takes its AVERROR_BUG path (line 195), which
\* would lose the surface for good since no caller looks at the result.
ReleaseNeverFails ==
    Ready /\ frames # {} => va_surfaces_queue[queue_tail] = Null

\* The ids given to FFmpeg and the renderer are alive: every surface a frame
\* wraps, and every one the pool may hand out, exists in the driver.
HandsOutLiveIds ==
    context_id # Invalid => RecordedIds \subseteq driver

\* What vaapi_finalize() leaves behind is of an attempt before the last, whose
\* surfaces a later attempt may overwrite (line 270) before they are destroyed:
\* of those of the last attempt nothing leaks.
LeaksOnlyOverwrittenSurfaces ==
    phase = "freed" => \A id \in driver : id[2] < attempt

\* The pool is a FIFO of free surfaces (module FreeList): only a free surface
\* is handed out, and the one that was released longest ago.
FreeCount ==
    CASE queue_head < queue_tail -> queue_tail - queue_head
      [] queue_head > queue_tail -> queue_length - queue_head + queue_tail
      [] OTHER -> IF va_surfaces_queue[queue_head] = Null THEN 0 ELSE queue_length

FreeSequence ==
    IF context_id = Invalid THEN <<>>
    ELSE [k \in 1 .. FreeCount |-> va_surfaces_queue[(queue_head + k - 1) % queue_length]]

FIFO == INSTANCE FreeList WITH free <- FreeSequence, used <- frames

ImplementsFreeList == FIFO!Spec
=============================================================================
