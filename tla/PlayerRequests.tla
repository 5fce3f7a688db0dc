--------------------------- MODULE PlayerRequests ---------------------------
(***************************************************************************)
(* The requests that the application's thread leaves for the output thread *)
(* of the player, src/src/vafastplayer.c: a new place and size for the     *)
(* window, the part of the video to show, and (through the X11 renderer,   *)
(* src/src/ffvarenderer_x11.c) whether the window stays on top.            *)
(*                                                                         *)
(* A frame whose picture is smaller than the surface it was decoded into   *)
(* brings a rectangle of its own from the decoder, and is cut to that one. *)
(*                                                                         *)
(* Nothing locks the fields that carry a request.  A call that stores      *)
(* several fields is two steps here, and a reader that overlaps it gets    *)
(* each field as it was before the call or as the call stores it.          *)
(* A geometry is the number of the request it comes from, one per field.   *)
(*                                                                         *)
(* Definitions introduced by "Mutant" are faulty variants of the one that  *)
(* follows them; no definition of the specification uses them.             *)
(***************************************************************************)
EXTENDS Integers

CONSTANTS
    Fields,        \* the fields of a geometry: x, y, width and height
    Extent,        \* those that give the size of the window
    Grid,          \* crop coordinates are multiples of 1/Grid
    CropRequests,  \* the arguments crop_video() is called with
    OwnRects,      \* the rectangles the decoder gives to frames that need one
    MaxSizes       \* bound on the calls of set_size()

Rect == [x0 : Int, y0 : Int, x1 : Int, y1 : Int]

ASSUME RequestAssumption ==
    /\ Extent \subseteq Fields
    /\ Grid \in Nat \ {0}
    /\ CropRequests \subseteq Rect
    /\ OwnRects \subseteq Rect
    /\ MaxSizes \in Nat

Video  == -1   \* a size taken from the options or from the video
NoSize == [w |-> 0, h |-> 0]
NoRect == [x0 |-> 0, y0 |-> 0, x1 |-> 0, y1 |-> 0]

VARIABLES
    given,             \* those of the window's width and height the options give
    need_resize,
    sizes,             \* calls of set_size() begun
    read_from,         \* oldest request whose fields the resize may read
    window,            \* [Fields -> request the window's field comes from]
    split,             \* the last set_size() was looked at half done
    early,             \* the last resize came before the renderer had a size
    crop_rect,
    cropped,           \* the last request crop_video() did not ignore
    made,              \* there is a window
    renderer_size,     \* size the renderer was set to last
    on_top,            \* is_always_on_top
    on_top_changed,    \* is_always_ont_top_changed
    window_on_top,     \* what the window manager was told last
    missed,            \* the last change of on_top fell between read and reset
    frame,             \* what the frame in hand was cut to, and by whom
    call,              \* the application's call in progress
    thread             \* where the output thread is

sizeVars == <<need_resize, sizes, read_from, window, split, early>>
cropVars == <<crop_rect, cropped>>
topVars  == <<on_top, on_top_changed, window_on_top, missed>>
rendererVars == <<given, made, renderer_size>>
vars == <<sizeVars, cropVars, rendererVars, topVars, frame, call, thread>>

NoCall == [name |-> "none", rect |-> NoRect]
NoFrame == [cut |-> FALSE, own |-> FALSE, rect |-> NoRect]

TypeOK ==
    /\ given \subseteq {"w", "h"}
    /\ need_resize \in BOOLEAN
    /\ sizes \in 0 .. MaxSizes
    /\ read_from \in 0 .. MaxSizes
    /\ window \in [Fields -> Video .. MaxSizes]
    /\ split \in BOOLEAN /\ early \in BOOLEAN
    /\ crop_rect \in [x0 : 0 .. Grid, y0 : 0 .. Grid, x1 : 0 .. Grid, y1 : 0 .. Grid]
    /\ cropped \in Rect
    /\ made \in BOOLEAN
    /\ renderer_size \in [w : Int, h : Int]
    /\ on_top \in BOOLEAN /\ on_top_changed \in BOOLEAN
    /\ window_on_top \in BOOLEAN /\ missed \in BOOLEAN
    /\ frame \in [cut : BOOLEAN, own : BOOLEAN, rect : Rect]
    /\ call \in [name : {"none", "set_size", "crop", "on_top"}, rect : Rect]
    /\ thread \in {"get", "render", "reset", "check", "resize"}

WholeFrame == [x0 |-> 0, y0 |-> 0, x1 |-> Grid, y1 |-> Grid]

\* The player has been started; its first frame has not come.
Init ==
    /\ given \in SUBSET {"w", "h"}
    /\ need_resize = FALSE
    /\ sizes = 0
    /\ read_from = 0
    /\ window = [f \in Fields |-> Video]
    /\ split = FALSE /\ early = FALSE
    /\ crop_rect = WholeFrame
    /\ cropped = WholeFrame
    /\ made = FALSE
    /\ renderer_size = NoSize
    /\ on_top = FALSE /\ on_top_changed = FALSE
    /\ window_on_top = FALSE /\ missed = FALSE
    /\ frame = NoFrame
    /\ call = NoCall
    /\ thread = "get"

-----------------------------------------------------------------------------
(* The application's thread.                                                 *)

\* vafastplayer_set_size() sets the flag first.
BeginSetSize ==
    /\ call = NoCall
    /\ sizes < MaxSizes
    /\ need_resize' = TRUE
    /\ sizes' = sizes + 1
    /\ split' = FALSE
    /\ call' = [NoCall EXCEPT !.name = "set_size"]
    /\ UNCHANGED <<read_from, window, early, cropVars, rendererVars, topVars, frame, thread>>

EndSetSize ==
    /\ call.name = "set_size"
    /\ call' = NoCall
    /\ UNCHANGED <<sizeVars, cropVars, rendererVars, topVars, frame, thread>>

\* Mutant: the corners are turned over one by one and keep their order.
FlippedInPlace(r) == [r EXCEPT !.y0 = Grid - r.y0, !.y1 = Grid - r.y1]

\* Coordinates of a request count from the bottom of the video, those of the
\* player from the top.
Flipped(r) == [x0 |-> r.x0, y0 |-> Grid - r.y1, x1 |-> r.x1, y1 |-> Grid - r.y0]

Acceptable(r) ==
    /\ r.x0 >= 0 /\ r.y0 >= 0 /\ r.x1 > r.x0 /\ r.y1 > r.y0
    /\ r.x1 <= Grid /\ r.y1 <= Grid

\* vafastplayer_crop_video() ignores a request it does not accept.
BeginCrop(r) ==
    /\ call = NoCall
    /\ Acceptable(Flipped(r))
    /\ call' = [name |-> "crop", rect |-> Flipped(r)]
    /\ cropped' = r
    /\ UNCHANGED <<sizeVars, crop_rect, rendererVars, topVars, frame, thread>>

EndCrop ==
    /\ call.name = "crop"
    /\ crop_rect' = call.rect
    /\ call' = NoCall
    /\ UNCHANGED <<sizeVars, cropped, rendererVars, topVars, frame, thread>>

\* vafastplayer_set_smallbox(): the value first, then the flag.
BeginOnTop(enable) ==
    /\ call = NoCall
    /\ on_top' = enable
    /\ call' = [NoCall EXCEPT !.name = "on_top"]
    /\ UNCHANGED <<sizeVars, cropVars, rendererVars, on_top_changed, window_on_top, missed, frame, thread>>

\* Mutant: only a change to on top is flagged.
EndOnTopQuiet ==
    /\ call.name = "on_top"
    /\ on_top_changed' = (on_top_changed \/ on_top)
    /\ missed' = (thread = "reset")
    /\ call' = NoCall
    /\ UNCHANGED <<sizeVars, cropVars, rendererVars, on_top, window_on_top, frame, thread>>

EndOnTop ==
    /\ call.name = "on_top"
    /\ on_top_changed' = TRUE
    /\ missed' = (thread = "reset")
    /\ call' = NoCall
    /\ UNCHANGED <<sizeVars, cropVars, rendererVars, on_top, window_on_top, frame, thread>>

-----------------------------------------------------------------------------
(* The output thread.  Its loop goes on whatever a step returns, and nothing *)
(* ever sets quit_flag.                                                      *)

\* A decoder that has no frame to give is asked again at once.
GetFrame ==
    /\ thread = "get"
    /\ thread' = "render"
    /\ UNCHANGED <<sizeVars, cropVars, rendererVars, topVars, frame, call>>

\* The rectangles a frame without one of its own may be cut to: crop_rect, or a
\* mixture of it and of the one crop_video() is storing.
Readable ==
    IF call.name = "crop"
    THEN [x0 : {crop_rect.x0, call.rect.x0}, y0 : {crop_rect.y0, call.rect.y0},
          x1 : {crop_rect.x1, call.rect.x1}, y1 : {crop_rect.y1, call.rect.y1}]
    ELSE {crop_rect}

\* A frame's own rectangle comes first, whatever crop_video() asked for.
Cuts ==
    [cut : {TRUE}, own : {TRUE}, rect : OwnRects] \cup [cut : {TRUE}, own : {FALSE}, rect : Readable]

\* Either option may be missing; the renderer refuses an empty size.
SizeFor(r) ==
    [w |-> IF "w" \in given THEN Grid ELSE r.x1 - r.x0,
     h |-> IF "h" \in given THEN Grid ELSE r.y1 - r.y0]

MustSize(r) == SizeFor(r) # renderer_size /\ SizeFor(r).w # 0 /\ SizeFor(r).h # 0

\* The native window is made, or takes the size.
SizeWindow ==
    /\ made' = TRUE
    /\ window' = [f \in Fields |-> IF f \in Extent THEN Video ELSE window[f]]

\* A frame gets past the renderer's size.  A change of on_top is passed on, if
\* the rendering gets that far, and its flag is reset in a step of its own.
Render ==
    /\ thread = "render"
    /\ frame' \in Cuts
    /\ renderer_size' = SizeFor(frame'.rect)
    /\ \/ SizeFor(frame'.rect) = renderer_size /\ UNCHANGED <<made, window>>
       \/ MustSize(frame'.rect) /\ SizeWindow
    /\ \/ on_top_changed /\ window_on_top' = on_top /\ thread' = "reset"
       \/ UNCHANGED window_on_top /\ thread' = "check"
    /\ UNCHANGED <<given, need_resize, sizes, read_from, split, early, cropVars, on_top, on_top_changed, missed, call>>

ResetOnTop ==
    /\ thread = "reset"
    /\ on_top_changed' = FALSE
    /\ thread' = "check"
    /\ UNCHANGED <<sizeVars, cropVars, rendererVars, on_top, window_on_top, missed, frame, call>>

\* The renderer does not take the size.  The native window may have taken it
\* all the same, since the context is made after it, and the player goes on
\* believing in the size before.
RenderFails ==
    /\ thread = "render"
    /\ \/ UNCHANGED <<made, window>>
       \/ (\E c \in Cuts : MustSize(c.rect)) /\ SizeWindow
    /\ thread' = "check"
    /\ UNCHANGED <<given, renderer_size, need_resize, sizes, read_from, split, early, cropVars, topVars, frame, call>>

\* No request: the frame goes back to the decoder.
NoResize ==
    /\ thread = "check"
    /\ ~need_resize
    /\ frame' = NoFrame
    /\ thread' = "get"
    /\ UNCHANGED <<sizeVars, cropVars, rendererVars, topVars, call>>

Stable == IF call.name = "set_size" THEN sizes - 1 ELSE sizes

\* The flag is cleared before the fields are read.
BeginResize ==
    /\ thread = "check"
    /\ need_resize
    /\ need_resize' = FALSE
    /\ read_from' = Stable
    /\ split' = (split \/ call.name = "set_size")
    /\ early' = (renderer_size = NoSize)
    /\ thread' = "resize"
    /\ UNCHANGED <<sizes, window, cropVars, rendererVars, topVars, frame, call>>

\* Mutant: the flag is cleared when the resize is done.
EndResizeClears ==
    /\ thread = "resize"
    /\ need_resize' = FALSE
    /\ IF made THEN window' \in [Fields -> read_from .. sizes] ELSE UNCHANGED window
    /\ frame' = NoFrame
    /\ thread' = "get"
    /\ UNCHANGED <<sizes, read_from, split, early, cropVars, rendererVars, topVars, call>>

\* The geometry is read and applied, if there is a window: the first frame
\* that gives the renderer a size makes it.
EndResize ==
    /\ thread = "resize"
    /\ IF made THEN window' \in [Fields -> read_from .. sizes] ELSE UNCHANGED window
    /\ frame' = NoFrame
    /\ thread' = "get"
    /\ UNCHANGED <<need_resize, sizes, read_from, split, early, cropVars, rendererVars, topVars, call>>

-----------------------------------------------------------------------------

Return == EndSetSize \/ EndCrop \/ EndOnTop

Call ==
    \/ BeginSetSize
    \/ \E r \in CropRequests : BeginCrop(r)
    \/ \E enable \in BOOLEAN : BeginOnTop(enable)
    \/ Return

OutputThread ==
    GetFrame \/ Render \/ ResetOnTop \/ RenderFails \/ NoResize \/ BeginResize \/ EndResize

Next == Call \/ OutputThread

Spec == Init /\ [][Next]_vars

-----------------------------------------------------------------------------
(* Properties.                                                               *)

SizeSettled == ~need_resize /\ thread # "resize" /\ call.name # "set_size"

\* A window takes the geometry of the last set_size(), all of it, unless the
\* output thread saw the flag while that call was storing the geometry, or
\* before the renderer had a size.  The size may give way to the video's only
\* when the options leave out the width or the height.
LastSizeIsApplied ==
    SizeSettled /\ sizes > 0 /\ ~split /\ ~early =>
        \A f \in Fields : window[f] = sizes \/ (window[f] = Video /\ f \in Extent /\ given # {"w", "h"})

\* The window manager was told of the last change of set_smallbox(), unless
\* that change came between the output thread's read and its reset of the flag.
LastOnTopIsApplied ==
    ~on_top_changed /\ thread # "reset" /\ call.name # "on_top" /\ ~missed => window_on_top = on_top

\* r lies in the frame, and shows a point of the video, counted from the bottom,
\* exactly when the request q asks for it.
Shows(r, q) ==
    /\ 0 <= r.x0 /\ r.x0 < r.x1 /\ r.x1 <= Grid
    /\ 0 <= r.y0 /\ r.y0 < r.y1 /\ r.y1 <= Grid
    /\ \A x, y \in 0 .. Grid - 1 :
          (r.x0 <= x /\ x < r.x1 /\ r.y0 <= Grid - 1 - y /\ Grid - 1 - y < r.y1)
          <=> (q.x0 <= x /\ x < q.x1 /\ q.y0 <= y /\ y < q.y1)

\* A frame handed to the renderer shows what the last request that crop_video()
\* accepted asks for, unless the frame has a rectangle of its own (then no
\* request has any effect) or crop_video() is storing one.
CropIsRequested ==
    [][frame'.cut /\ ~frame.cut /\ ~frame'.own /\ call.name # "crop" => Shows(frame'.rect, cropped)]_vars
=============================================================================
