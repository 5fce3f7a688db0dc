# TLA+ verification of ffvademo

ffvademo is a video player for Linux: FFmpeg decodes on the GPU through VA-API, live555 fetches
RTSP streams, an X11 or EGL renderer shows the pictures, and the library *libfcav* talks to an
audio/video fabric through character devices. This directory holds TLA+ modules translated from
its source, TLC configurations that check them on small instances, and proofs, checked by TLAPS,
that the main safety properties hold for every value of the constants.

Paths are relative to the repository; `ffvadecoder.cpp` and the others without a directory are in
`src/`, those of libfcav in `src/libfcav/`. `PROJECT.json` maps every definition to the lines it
models and lists the hazards, runs, mutants, findings and theorems.

    tlc -config SurfacePool.cfg SurfacePool      # a run
    tlapm SurfacePoolProofs.tla                  # a module of proofs

## The system

### Threads

| thread | started by | what it runs |
|---|---|---|
| application | the program that uses `inc/vafastplayer.h` | `vafastplayer_*()`, and the calls of libfcav |
| output (one per player) | `vafastplayer_start()` | `player_run()`: get a frame, render it, serve a resize |
| event loop (one per RTSP stream) | `decoder_open_rtsp()` | live555's `doEventLoop()`, all handlers of `ffvartsp.cpp` |
| wait_io (one per handler entry) | `create_wait_io_thread()` | a blocking ioctl, then the callback, for ever |
| consumer (one per `add_asm_handler()`) | `asm_hdl_consumer()` | takes ASM messages from the ring, calls the handler |
| frame receiver (one per `add_fc`) | `FCReceiver::start()` | waits for the card's signal, copies received video for the renderer |
| request | `common_OpGrp()` | one ioctl, with a caller that gives up after a second |

### Components

**Decoder, VA surface pool** (`ffvadecoder.cpp` 100-300). *State*: the array `va_surfaces`, the ring
`va_surfaces_queue` with head, tail and length, VA config and context. *Operations*: `get_format()`
builds all of it, once or again after a failure; `get_buffer2()` takes a surface; the release callback
of an AVBuffer returns it; `vaapi_finalize()` destroys what is recorded. *Hard*: pictures come back in
any order; seven steps of set-up can each fail, and FFmpeg calls again; the result of the
release callback is read by nobody. *Correct when*: a surface is in one place, the ring is a FIFO of
free surfaces, "exhausted" means exhausted, ids are alive, nothing leaks.

**Decoder, frame loop and API** (`ffvadecoder.cpp` 600-1080). *State*: OPENED and STARTED, the format context, the
stream, the last frame. *Operations*: open (file or RTSP), close, start, stop, get and put a frame. *Hard*: two
locals are read before they are assigned; the end of a file rewinds it inside the same call, which goes on whether
the seek succeeded or not; a decoder can be closed and opened again. *Correct when*: frames come in order, each
once; success comes with a new frame; a call returns; the stream is that of the file opened.

**RTSP client, packet queue** (`ffvartsp.cpp` 460-515, `ffvadecoder.cpp` 835-850). A queue of ten
packets, a mutex and a condition variable between an event loop and a decoder. *Hard*: wake-ups, the
drop of old packets when the decoder is slow. *Correct when*: no wake-up is lost, the order is
kept, only the oldest go and only when the queue is full.

**RTSP client, session** (`ffvartsp.cpp` 25-350). *State*: per stream the client, its session, the
sinks, a timer, the codec the decoder waits for; one count of streams for the whole process. *Operations*:
DESCRIBE, SETUP, PLAY with every answer, end of a subsession, BYE, timer, `shutdownStream()`. *Hard*:
four things end a stream, each once; the count has no lock; the wait for the codec has no predicate.
*Correct when*: streams are counted right, the process exits with the last one, no callback outlives
its client.

**libfcav, ASM queue** (`ulib.c` 455-540). A ring of 128 messages under a mutex, filled by wait_io
threads, emptied by polling consumers that use their slot after the unlock. *Correct when*: FIFO, no
message is handled twice, a slot is not overwritten under its handler, full never looks empty.

**libfcav, handlers** (`ulib.c` 330-450, 545-600). A table of 32 heap blocks, each owned by the thread it
configures; the application's thread and the detached receiver of every picture add to it, without a lock. *Hard*: a
free entry is found (392) before it is taken (396), and an entry is found before it is removed; a handler is removed
while its thread is inside the ioctl; four threads per handler of message 0xf1ea; the table fills up. *Correct
when*: an entry never points to a freed block, every serving thread can be found, a removed handler falls silent.

**Player** (`vafastplayer.c`). *State*: options, window geometry, crop, flags, decoder, renderer, output
thread. *Operations*: init, start, stop, free, set_size, crop_video, set_smallbox, images and text.
*Hard*: requests are passed through unlocked fields; a frame smaller than the surface it was decoded into brings a
rectangle of its own, which goes before the application's; a failed start frees the player. *Correct when*: the last
request is the one applied.

**Renderer, X11** (`ffvarenderer_x11.c`): window, error trap, resize, always-on-top. **Renderer, EGL**
(`ffvarenderer_egl.cpp`). *State*: the context and window surface, the images and textures of the surface being
drawn, the shader program with the text it was made for, the list of overlays. *Operations*: set a size, put a
surface, load an image, finish. *Hard*: EGL, GL and VA may refuse any step, and an error is counted while the frame
goes on; the application's thread moves the list with `realloc()` under the drawing; a new size makes a new context
and leaves everything else in the old one. *Correct when*: what is drawn is the frame's own surface with its own
program, in the context that is shown, and its VA image is given back after each frame. **Renderer, DRM**: draws
nothing.

**libfcav, video receiver** (`fcReceiver.cpp`). One object for the process: size, mapping `rxBuf`, picture `rgbBuf`,
stop flag. *Operations*: `init()`, `start()`, `stop()`, the thread that copies, the signal that wakes it. *Hard*: no
field has a lock, so a receiver can copy by the size of one picture from the mapping of another, and the wait has no
predicate. *Correct when*: what is copied is mapped, into a buffer large enough that nobody else fills, and a stop
ends the thread.

**libfcav, device requests** (`ulib.c`). Routes, groups, registers. Requests about groups have the hard part: a
static parameter block, a thread in a blocking ioctl, and a caller that gives up after a second. *Correct when*: an
answer belongs to its request, and is never older than it.

**libfcav, browser ports** (`ulib.c` 1600-1870). A ring of bytes per serial port and a mailbox of one message per
IIC device, filled by the consumer threads, which are one more for every registration, all on one queue, and read by
the application, none of it under a lock. *Correct when*: a reader gets what was received, in order, and the latest.

**Others**: display (opened once), filter (never enabled by the player), descriptors and stateless helpers,
the command-line tools of libfcav, and vendored code (live555, stb, FFmpeg's build).

### How they interact

The application's thread stores requests in the player (`PlayerRequests`). The output thread calls
`ffva_decoder_get_frame()` (`DecoderLoop`), which calls FFmpeg, which calls back into the surface pool
(`SurfacePool`); for RTSP it takes packets from the queue (`PacketQueue`) that the event-loop thread
fills. `decoder_open_rtsp()` starts that thread and waits for its codec (`RtspSession`). A frame is
given to the renderer (`EglRenderer`, with the application's images beside it) and its surface goes back when
FFmpeg and the renderer are done. In libfcav a wait_io thread (`AsmHandlers`) stores messages in the ring
(`AsmQueue`), and the consumers that take them out call the handlers, among them those of a browser's ports
(`BrowserInput`); the renderer draws from the buffer that a receiver fills (`FrameReceiver`), and the receiver adds a
handler of its own to the table.

## Modules

| module | models | refines |
|---|---|---|
| `SurfacePool` | the VA surface pool of one decoder | `FreeList` |
| `PacketQueue` | the packet queue between an event loop and a decoder | `LossyFifo` |
| `RtspSession`, `MCRtspSession` | several streams in one process | |
| `AsmQueue` | the ring of ASM messages | `MessageFifo` |
| `AsmHandlers`, `MCAsmHandlers` | the handler table and its threads | |
| `PlayerRequests`, `MCPlayerRequests` | requests from application to output thread | |
| `DecoderLoop` | opening a source and the loop of `decoder_run()` | |
| `EglRenderer`, `MCEglRenderer` | the EGL renderer over the frames of the output thread, and the application's images | |
| `FrameReceiver` | the video receiver, its threads and the picture the renderer shows | |
| `GroupRequests` | requests about groups with their timeout | |
| `BrowserInput`, `MCBrowserInput` | the serial rings and IIC mailboxes of a browser | |
| `FreeList`, `LossyFifo`, `MessageFifo` | abstract: what the three queues promise | |
| `SurfacePoolProofs`, `DecoderLoopProofs`, `PlayerRequestsProofs`, `EglRendererProofs`, `BrowserInputProofs` | theorems about the module they are named after |
| `RtspProofs` | theorems about `PacketQueue` and `RtspSession` |
| `AsmProofs` | theorems about `AsmQueue` and `AsmHandlers` |
| `ReceiverProofs` | theorems about `FrameReceiver` and `GroupRequests` | |

A module of proofs that is about two components extends both, so that one of each pair has `Init`, `Next`, `Spec` and
`TypeOK` under names of its own (`QueueInit`, `HandlersInit`, `RequestInit`, ...).

A definition has the name of the function or field it stands for where it has one. Definitions
introduced by "Mutant" are faulty variants of the one after them; the specifications do not use them,
and each property is shown to fail with one of them in place.

**SurfacePool.** A surface is its index; a VA id is the pair of index and attempt, so that an id
overwritten by a later attempt remains a different id. `GetFormat` is the whole of `get_format()`: each of
its failures (config, array, queue, surfaces, context) is a disjunct with exactly what it leaves behind.
`GetBuffer` and `GetBufferFailsWrapping` are `get_buffer2()`, `ReleaseSurface(s)` the callback for any
picture FFmpeg holds, `Close` and `Finalize` the end of the decoder. All run on one thread at a time,
so calls are atomic.

**PacketQueue.** One program counter per side; a step is what happens between two operations on the
mutex or the condition variable. `notify_one()` is a step after the unlock, as in the code; wake-ups may
be spurious.

**RtspSession.** Each stream has the thread in `decoder_open()` and its event loop. A handler of the
event loop is one step, except for what another thread can see half done: the codec, which every SETUP
resets before it is matched, and the count, whose increment and decrement are a load and a store. `OpenCodec` is
what the decoder does once it is woken: it finds no codec, or finds one and fails to set it up (559-563,
669-678), or is open. `raced` is history: two threads were changing the count at once.

**AsmQueue.** The copy of a message into its slot is two steps, with `Torn` in between; a handler reads
its slot until it returns. A poll that finds the ring empty changes nothing and is a stuttering step.

**AsmHandlers.** A block has an fd (`open`), what it waits for (`id`) and the place of its thread. A freed block can
be allocated again. Every caller, the application or a receiver, has a record of the call it is in (`Doing`): a
creation looks at one entry after the other (`ScanGoesOn`), starts the thread at a free one (`StartThread`) and
stores there later (`Store`), a removal finds its entry (`Del`), closes what it holds by then (`Close`) and clears
it (`Clear`), all of them steps that other threads come between. `met` is history: the blocks of creations that
found one entry free at once.

**PlayerRequests.** Nothing locks these fields, so a call that stores several of them is two steps, and a reader
that overlaps it gets each field as it was or as it will be. `SizeFor` takes the width and the height from the
options each for itself, `RenderFails` may have sized the window before it failed, and a frame that is cut short of
its surface is given its own rectangle. Four variables are history: `split` (the output thread looked at a request
while it was stored), `early` (there was no window yet), `missed` (a change of on-top fell between read and reset)
and `cropped`.

**DecoderLoop.** Frames bear the number of their packet. The codec keeps back a number of packets that opening
chooses from `Delays`, more than a source has included, and is flushed at the end of the file; the seek that should
follow may fail, once (`SeekFails`) or always (`seekable`). `dropped` is history: a call threw a packet of a stream
away unread. What a local that was never assigned may hold is a nondeterministic choice.

**EglRenderer.** A frame is the sequence of steps of `renderer_put_surface()`, each its own action as far as the
application's thread can act in between. What EGL, GL or VA may refuse is a disjunct with what it leaves. Planes are
pairs of surface and number, so that a texture left from an earlier surface is seen to be one. The list is a block
that `realloc()` may move: the block is freed in one step (`LoadGrow`) and its new address stored in the next
(`LoadPointer`), then the image is stored, then counted. `Met` is what the output thread finds at the place it
reads. `again` and `moved` are history.

**FrameReceiver.** A size is height times width, and `init()` stores the height, the width and the mapping in steps
of their own (`BeginAdd`, `StoreWidth`, `MapFrames`). The receivers are one thread per `start()`; every step between
two accesses to the shared fields is an action, the wait may be woken by the card, by `stop()` or by nobody. `Harm`
compares the size of a copy with those of the mapping and of the buffer: nothing, a read of an address that is not
mapped, a read past the end of the mapping, a write past the end of the buffer or into a freed one.

**GroupRequests.** The parameter block is static, so a late answer of the request before lands in it. `met` is
history: the calls in whose time the answer in a block was given. The hundred polls of the caller are one step that
may find the answer or give up; giving up is `pthread_kill(ntid, SIGINT)`, and since no code of the repository
installs a handler for it (`install_sighdl()` is never called), the process ends.

**BrowserInput.** Each consumer thread has its own place in the message handler (`writer`), which stores byte after
byte: the byte, the tail, the test for a full ring, the head; what is loaded in one step and stored in another is
kept by the thread in between. A reader loads the head, tests, takes and stores the head. `browSerialInit()` adds a
consumer each time (`running`). `crossed` records whether a reader came between the steps of a message ("read"), or
whether one of three things did that spoil the port: an initialisation, another consumer's message, and a reader
that emptied the ring just before the test for a full one.

## Runs

| run | states | what it shows |
|---|---|---|
| `surface_pool` | 40 363 | whatever fails and in whatever order pictures return: each surface in one place, only live ids handed out, what leaks belongs to an attempt before the last; implements `FreeList`, whose acquire fails only when nothing is free |
| `packet_queue` | 9 333 | no lost wake-up, every packet handled; implements `LossyFifo`, which drops only the oldest and only when full |
| `rtsp_session` | 895 207 | count and exit right unless two changes of the count overlap; no sink or timer left on a closed client; a playing stream can end; a decoder that is woken finds the codec of a stream of one video subsession |
| `asm_queue` | 7 836 | slots stable under a handler until the tail has lapped, one handler per message, every message taken; implements `MessageFifo` |
| `asm_handlers` | 1 198 628 | a serving thread is listed, and a removal closes what its caller found, unless two creations found one entry free at once; at most one late callback, late threads end |
| `player_requests` | 1 431 440 | the last size and on-top are applied but for the overlaps named; a frame without a rectangle of its own shows the crop that was asked |
| `decoder_loop` | 4 326 | frames in order; an old frame comes back only from a call on a file that read nothing, or one on a stream that threw its packet away; a call returns on a file that can be set back and is longer than the codec's delay |
| `egl_renderer` | 6 136 060 | a frame is drawn from its own surface with its own program, is seen until a second size is set, and leaves no VA image and no handle of the surface behind; a freed list is read only in the window that `realloc()` opens |
| `frame_receiver` | 21 043 | what is copied is mapped, as far as the copy goes, and fits, but for the stops, refusals and second pictures named; a stop ends the threads while frames come |
| `group_requests` | 1 091 122 | an answer is that of the call's own request unless the shared block was in use or an earlier thread is late, and in every case was given during the call |
| `browser_input` | 2 659 864 | a mailbox answers the message it was sent unless another overwrote it; the ring holds the latest bytes, and hands out stale ones only in three interleavings |
| `decoder_loop_reopen` | violation | the second file is read with the stream of the first |

The type invariant of every module is a theorem, and not part of the runs. Where a property exempts something (an
overlap, a late thread, a second size), that something is the failure itself: the property does not say it cannot
happen, it says that nothing else does the same harm. `NothingHeldBetweenFrames` is about the VA image of a surface
and the handle of its buffer; the EGL images made of them stay until the next frame.

### Bounds

* `surface_pool`: pool sizes 3 and 5 let an attempt ask for more and for fewer surfaces than the one
  before; three attempts give a failure, a failure of another kind and a success. With 5 surfaces the ring
  wraps many times, as releases are unbounded.
* `packet_queue`: the real capacity of 10; 15 packets overrun it by five.
* `rtsp_session`: two streams are the least for which "last" and "overlap" mean something; sessions of one and two
  subsessions, with an unusable one on either side and with two videos. The streams are symmetric.
* `asm_queue`: four slots instead of 128, ten messages, so the tail laps the head twice; two
  providers and two consumers give every race between either kind.
* `asm_handlers`: two entries and three blocks, so the table fills up while a removed thread lives on, and a freed
  block is used again; two copies instead of four already fail half way. The application and one receiver: a lost
  entry takes two creations, and a removal that misses takes a third block.
* `player_requests`: two fields, one that a video can determine and one it cannot; options that give both sides of the
  window, one or none; two calls of `set_size()`, so that one comes while the other is applied; a 2 by 2 grid for
  cropping with rectangles in and out of range, and frames with a rectangle of their own.
* `decoder_loop`: five packets and delays of none, three and five: every frame is given; two are given and three are
  still in the codec at the end and are flushed; all are flushed. The violation needs two calls of open.
* `egl_renderer`: two surfaces, so that a texture can be of the wrong one; formats of two planes, of one and of none;
  two sizes and two contexts; two images, so that the list is grown and moved while one is drawn.
* `frame_receiver`: two pictures, the second larger, two stops: every hazard needs at most a start, a second picture
  and a stop.
* `group_requests`: two callers, two operations and groups, three requests: two at a time and a third while the
  threads of both may still be in the ioctl.
* `browser_input`: a ring of one word instead of 512 bytes; a message stores as many bytes as the ring has, here as
  in the code (the loop at `ulib.c:1645` is over the ring, not over the message), so three messages overrun it
  twice. A mailbox of two words: one message comes while an earlier one is unread, stored or read, and one after.
  Two consumers, which are interchangeable; more of them meet two by two. A ring that is spoilt stays so and no
  property says more of it: it is not followed past the first message (`MCBound`).

Where a theorem states the same property, the bound plays no part in the theorem. Every safety property of a run is
stated by one.

### Fairness

Only these properties use fairness; all others hold for `Init /\ [][Next]_vars`.

* `EveryPacketIsHandled`: threads run; a thread that wants the mutex gets it if it is released over and
  over (strong fairness, as of a pthread mutex in practice). Nothing makes a packet arrive.
* `EveryMessageIsTaken`: a store ends, a handler returns, and a polling consumer meets the mutex free sooner or
  later: it tries every 50 microseconds and the store holds it for one copy. That the mutex starves no consumer is
  thus assumed, not shown; what is shown is that none of them passes a message over.
* `LateThreadsEnd`: callbacks return, and the thread goes on to its loop condition. No fairness for the driver or
  the callers: a removed thread whose message never comes stays in its ioctl for ever, as in the code.
* `StopTakesEffect`: a receiver thread runs, and the card goes on sending frames. Without frames the thread waits
  for ever, since the wait has no predicate.
* `GetFrameReturns`: the loop takes its turns, a file with a video stream has its packets among the others', and one
  that can be set back is so in the end, however often the seek fails before. Nothing relies on an error. It is
  about such files, of more packets than the codec keeps back: on any other the call turns for ever.

The runs that end (a process that exits, a decoder that crashed or was closed) switch the deadlock check
off; the others check it.

## Theorems

The proofs are of safety, from `Init` and `Next` alone, and for all values of the constants that satisfy the
module's named assumption (a capacity or length of at least one or two; a finite set of consumers).

**SurfacePoolProofs.** `TypeCorrect` needs `Lifecycle`: once there is a context, the ring has a slot and head and
tail are in it, so that the remainder is taken by a positive number. The ring's invariant `RingInv` has two parts.
`Placed`: every surface below `num_va_surfaces` is with FFmpeg or in a slot, never both, and in no two slots.
`OneRun`: the filled slots are those from head to tail. Taking (`TakeKeepsRing`) and giving (`GiveKeepsRing`) keep
both; giving needs `TailIsEmpty`, which counts: were the tail's slot filled, the ring would be full, all surfaces in
it, and none could be with FFmpeg. That is also why the error of the release callback is never taken
(`ReleaseAlwaysSucceeds`). `IdsInv`: surfaces that exist and belong to the last attempt are all recorded. `RingInv`
holds of every decoder with a context; the properties about all surfaces are said of one that is `Ready`: its queue
is also as long as the array (see Findings). `PoolIsFreeList` is the refinement: `Run`, the ring read from its head,
is the abstract sequence of free surfaces; taking the head gives its tail (`TakeIsTail`), giving back appends to it
(`GiveIsAppend`), and taking and giving straight back is the first followed by the second. It holds for the short
queue too.

**RtspProofs, PacketQueue.** `MutexInv` says who holds the mutex at each place; `QueueInv` that the queue is the run
of packets that ends with the last one pushed; `GapInv` that what lies between the packet decoded last and the head
was dropped. `IsLossyFifo` proves the refinement: every step is one of `LossyFifo` or a stutter.

**AsmProofs, AsmQueue.** Arithmetic modulo the length is replaced by a distance around the ring. `RingInv`: the
slots from head to tail hold the messages `taken + 1 .. stored`, and `stored - taken` is the distance. `StoreInv`:
one provider stores at a time, in the tail's slot. `HandlerInv`: a handler's message is no later than `taken`, and
its slot still holds it, or a whole lap has passed. `RingIsFifo` is the refinement: by `RingInv` the abstract queue
is the numbers `taken + 1 .. stored` (`InRingIsWaiting`), so that the end of a store is `Accept`, taking a slot is
`HandOut`, and every other step leaves the queue as it is.

**AsmProofs, AsmHandlers.** `LateInv`: a thread is in its ioctl with a closed fd only if no late callback has begun,
so only one can. `CreatorInv`: a block that is being created is its creator's alone. `WindowInv`: the entry a
creator found free is free until it stores, unless it met another creator there, and then what stands there met one
too. `RemovalInv`: the entry a removal found goes on holding what it found, with the same exemption. With them
`EntriesAreLive` and `ServingThreadsAreListed` are inductive, for any number of callers.

**PlayerRequestsProofs.** One part per kind of request. `SizeInv`: while the flag is down, the window has the last
geometry or the resize in progress is about to read it; it needs to know what size the renderer can have, since a
frame of another size makes the window anew: one only, if the options give both sides. `TopInv`: what the window
manager knows is out of date only while the flag is up or between value and flag. `CropInv`: the rectangle is the
request turned over, which `FlippedShowsRequest` says shows the same points; a frame reads it, or its own.

**RtspProofs, RtspSession.** `StreamInv` ties sinks, timer and subsession to where the client is. `OpenInv`: a
decoder that was woken by an announcement, of a session with one video, finds the client past its last SETUP, so
nothing resets the codec again (`CodecIsFound`). It is not said that the decoder is woken (see Findings).
`CountType`: the count is positive once a stream was counted, whatever increments were lost, and so is what a
closing stream has loaded: that is why it never goes below zero. `CountInv`, without an overlap: one thread at a
time holds the count, as it is, and the count is the cardinality of the streams in use, by the theorems on adding
and removing an element.

**EglRendererProofs.** `ImageInv`: while a frame is drawn its textures are the planes of its surface, and a bound
one's text is that of its format. `ProgInv`: unless a new program is asked for, the program is that of the text, or
could not be built. `ListInv` relates the list's length, its count and the loader's place; `WalkInv` says that the
output thread's address is the list's, or the list has moved since. `ContextInv`: until a second size, everything
was made in the current context.

**DecoderLoopProofs.** `OldFrameOnlyAtAnEnd` needs that `ret` is unset only while nothing was read (`UnsetInv`). The
packets in the codec lie strictly increasing between the frame returned last and the position (`OrderInv`), and none
is missing unless one was lost (`Gapless`). The lemmas `Taken` and `Given` say that a packet taken, and a frame
given for it, keep both.

**ReceiverProofs, FrameReceiver.** The shared fields are related to what is numbered (`Counts`: a receiver for each
buffer, the latest one in `rgbBuf`). `MappedWhileOn`: until a stop or a refused mapping, `rxBuf` and every copy
under way point to a mapping that is there, and no receiver goes to its end. `OneRuns`: as long as no picture is
added while a receiver runs, the only one that can run is the latest, and its buffer is that of `rgbBuf`, not freed,
of the size its copies use, which is that of the mapping they read as long as that is there (`SizeIsMapped`: the
size is the latest mapping's, unless `init()` is between the two). It is needed that this holds between `init()` and
`start()` too, where the size is new and the buffer is not: nobody runs then. `AddedIsMapped` carries the mapping
and the size of a picture from the one to the other. The steps that neither begin nor end anything are treated as
one (`Moves`).

**ReceiverProofs, GroupRequests.** The invariant is about the operations that are `Clear`: no two callers were in
them at a time, and none gave up while its thread ran. Of such an operation, a thread that runs has its caller
waiting for it (`RunningAsks`), there is one such caller (`OneAsks`), and the block is that caller's: its group, and
no answer while the thread runs (`BlockIsTheirs`). That last part is why taking an answer leaves no thread behind
that could write another. `AnswerCameIn` is about all operations: whoever asks last has cleared the block, so an
answer in it came in the time of every call that still looks for one there, and none is older than its call
(`AnswersAreFresh`).

**BrowserInputProofs.** `SoloInv`: unless the port is spoilt, one consumer at most is storing; it is called
`Writer`, and what follows is said of it, for any number of consumers. For the ring, `ByteInv` says which byte each
slot holds, counted back from the tail; a byte is stored over the oldest, which is what that count expects there. In
the first turn, and again after an initialisation, only the slots before the tail are stored (`FirstTurn`), and the
head must be shown to stay behind it. `ByteInv` holds however the threads meet, until the ring is spoilt, and gives
`ByteIsRecent`. `CountInv`, for threads that have not met, says how many bytes are unread at each place of either
thread; both together give `RingHoldsLatest` (`HoldsLatest`), where `SlotIs` says what the slots after the head are.
For the mailbox, `MailInv`: unless two consumers stored at once it holds the latest message as far as that is stored
(`MailHolds`), its control word until the first read ends, and a read that no message met has everything from that
one (`MailReads`).

| theorem | states |
|---|---|
| `SurfacePoolProofs!TypeCorrect`, `SurfacesInOnePlace`, `RingIsContiguous`, `AcquireFailsOnlyWhenEmpty`, `ReleaseAlwaysSucceeds`, `IdsAreLive`, `LeaksAreOverwritten`, `PoolIsFreeList` | `TypeOK`, `OnePlaceEach`, `RingContiguous`, `AcquireFailsOnlyWhenExhausted`, `ReleaseNeverFails`, `HandsOutLiveIds`, `LeaksOnlyOverwrittenSurfaces`, `ImplementsFreeList` |
| `RtspProofs!QueueTypeCorrect`, `LatestPacketsAreHeld`, `DropsAreOld`, `WakeupsAreKept`, `GapsAreDrops`, `IsLossyFifo` | `QueueTypeOK`, `HoldsLatestPackets`, `DropsOnlyWhenBehind`, `NoLostWakeup`, `NoSilentGap`, safety of `ImplementsLossyFifo` |
| `AsmProofs!TypeCorrect`, `HeadMeetsTailWhenEmpty`, `HandledSlotsAreStable`, `MessagesAreHandledOnce`, `DropsAreForced`, `RingIsFifo` | `TypeOK`, `EmptyWhenHeadMeetsTail`, `HandledSlotIsStable`, `OneHandlerPerMessage`, `DropsOnlyWhenFull`, `ImplementsMessageFifo` |
| `AsmProofs!HandlersTypeCorrect`, `TableIsLive`, `ServingThreadsCanBeRemoved`, `AtMostOneLateCallback`, `RemovalsHitTheirOwn` | `HandlersTypeOK`, `EntriesAreLive`, `ServingThreadsAreListed`, `OneLateCallback`, `RemovalHitsItsOwn` |
| `DecoderLoopProofs!TypeCorrect`, `OldFramesOnlyAtAnEnd`, `FramesAreInOrder` | `TypeOK`, `OldFrameOnlyAtAnEnd`, `FramesInOrder` |
| `PlayerRequestsProofs!TypeCorrect`, `LastSizeWins`, `LastOnTopWins`, `CropShowsRequest` | `TypeOK`, `LastSizeIsApplied`, `LastOnTopIsApplied`, `CropIsRequested` |
| `RtspProofs!TypeCorrect`, `StreamsAreCounted`, `LastStreamExits`, `NothingCallsBack`, `PlayingCanEnd`, `CodecIsFound` | `TypeOK`, `CountsStreamsInUse`, `ExitsWithLastStream`, `NoCallbackAfterClose`, `PlayingStreamCanEnd`, `WokenFindsItsCodec` |
| `EglRendererProofs!TypeCorrect`, `FrameShowsItsSurface`, `SurfaceIsGivenBack`, `ProgramIsOfFormat`, `ListReadsAreStored`, `FirstSizeMakesAll` | `TypeOK`, `DrawsItsSurface`, `NothingHeldBetweenFrames`, `DrawnWithItsProgram`, `ListIsReadStored`, `FirstSizeIsWhole` |
| `ReceiverProofs!TypeCorrect`, `CopiesAreMapped`, `BuffersAreOwn`, `PicturesKeepFitting` | `TypeOK`, `CopiesWhatIsMapped`, `BufferIsOwn`, `PicturesFit` |
| `ReceiverProofs!RequestTypeCorrect`, `AnswersAreOwn`, `AnswersAreFresh` | `RequestTypeOK`, `AnswerIsOwn`, `AnswerIsFresh` |
| `BrowserInputProofs!TypeCorrect`, `RingKeepsLatest`, `BytesAreRecent`, `AnswersAreWhole` | `TypeOK`, `RingHoldsLatest`, `ByteIsRecent`, `AnswerIsTheMessage` |

**Only model-checked**: the liveness properties, since fairness and ENABLED are out of the prover's reach. They are
`EveryPacketIsHandled`, `EveryMessageIsTaken`, `LateThreadsEnd`, `StopTakesEffect`, `GetFrameReturns` and the
fairness of the abstract queue in `ImplementsLossyFifo` (its safety is `IsLossyFifo`). Properties that only a
theorem states, and no run, are those of the table that the list of runs does not name; among them
`EmptyWhenHeadMeetsTail`, and what `HandledSlotIsStable` says of a ring with a single consumer.

## Findings

`ffvadecoder.cpp:720`: closing leaves `dec->stream`, and the next file opened by the same decoder is read with the
stream of the first (run `decoder_loop_reopen`).

The other facts that the modelling brought out are not contradicted by a line of the repository; they are stated by
properties that hold, whose conditions name exactly when they happen:

* A retry of `get_format()` after the array of surfaces has grown and the queue could not leaves a queue shorter
  than the array (`ffvadecoder.cpp:148`): the pool's properties are about a decoder that is `Ready`.
* Surfaces leak when `vaCreateContext()` fails and the next attempt overwrites them; what the property says is that
  all that leaks is of an attempt before the last (`LeaksOnlyOverwrittenSurfaces`).
* At the end of a file the loop's condition reads `ret` unassigned, and the frame of the call before may be answered
  again; so may it by a call on a stream that takes a packet and throws it away, since `read_frame_ret` is unassigned
  there (`OldFrameOnlyAtAnEnd`).
* The result of the seek at the end of a file is ignored (`ffvadecoder.cpp:856`): if it fails, or the flush (855)
  takes every frame of a file shorter than the codec's delay, `get_frame()` turns for ever (the conditions of
  `GetFrameReturns`).
* The count of streams is a plain unsigned: two changes that overlap lose one (`raced` in `CountsStreamsInUse`), and
  the first end may exit the process.
* A video subsession set up after another resets the stored codec under the decoder (`WokenFindsItsCodec`). The
  wait for the codec (`ffvadecoder.cpp:634`) has no predicate and no limit: a SETUP announced before it leaves
  `decoder_open()` there for ever, which no property denies.
* Two threads that add a handler at once can find the same entry free (`ulib.c:392`) and store over each other
  (396): the first one's thread serves on and cannot be removed (`met` in `ServingThreadsAreListed`).
* `crop_video()` has no effect on a video whose frames have a rectangle of their own, as 1080 lines coded as
  1088 have (`vafastplayer.c:536`, `own` in `CropIsRequested`).
* `add_asm_handler()` answers success when no thread could be created; what is promised is only that threads which
  do serve can be found (`ServingThreadsAreListed`). A removed handler may be called back once (`OneLateCallback`).
* A second window size leaves program and images in a context that is not shown and never destroyed (`again` in
  `FirstSizeIsWhole`); a size that fails is tried again with every frame.
* A stop makes a receiver copy from NULL, and a second picture makes the first thread copy by the new size, past the
  end of the old mapping or of its buffer (the conditions of `CopiesWhatIsMapped` and `BufferIsOwn`).
* A serial reader that takes the last byte between the writer's store of the tail (`ulib.c:1649`) and its test
  (1652) makes the empty ring look full: the head is pushed past the tail (`crossed` in `ByteIsRecent`). So does an
  initialisation during a message, and so do two consumers that store messages of one port at once.

## Not modelled

* Vendored code: `ext/live` (live555), `ext/stb`, FFmpeg's build. It is four fifths of the repository's lines and no
  part of this program's design; live555 appears as the environment of `RtspSession`. That is why the mapped share
  of all lines is small: no faithful model of this program's own code can reach a third of them.
* `vaReleaseBufferHandle()` and `vaDestroyImage()` that refuse (`ffvarenderer_egl.cpp:1818-1827`): the code forgets
  the handle and the image all the same.
* What FFmpeg, libva, X, EGL and the drivers do inside: they appear as the environment, with every answer the code
  looks at.
* The contents of packets, pictures and messages; formatting and logging; shader sources and vertex arithmetic.
* The display, the filter, descriptors, helpers, command-line tools: no state of their own beyond one
  call, or never enabled.
* The image modes of the EGL renderer other than DMA_BUF, which is the only one `app_parse_options()` selects;
  moving and updating an image, which store one field (`adjust_image()` tests only the upper bound of the number);
  the list of texts, which repeats that of images.
* Starting, stopping and freeing a player: calls of one thread. `vafastplayer_stop()` joins a thread that nothing
  tells to quit (`quit_flag` is set only under `#if 0`), and a failed start frees the player that its caller holds.
* The X11 window's own life: its error trap is set twice and removed once (`ffvarenderer_x11.c:363`), and the handler
  restored is the trap.
* In `ulib.c`: the touch screen's reader (1875-2020), which nothing starts; the axi transfer of the last piece of a
  message (2311-2400); the route table, registers and requests that fill a struct and call `ioctl()` once.
* `AsmHandlers` and `AsmQueue` are not composed: the pointer that a slot keeps into a wait_io thread's block
  (`ulib.c:499`) would need both and the contents of the header.

## Plan

The order was that of importance: first what every picture goes through (surface pool, packet queue, session, loop),
then libfcav's messages, then the requests of the application, then the renderer and the devices. Every safety
property that a run checks is proved. What is left is the composition named last above, and theorems about how the
components meet: that what a queue hands out is what its neighbour's invariant needs.
