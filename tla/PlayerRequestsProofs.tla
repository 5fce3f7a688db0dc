------------------------ MODULE PlayerRequestsProofs ------------------------
(***************************************************************************)
(* Proofs about PlayerRequests, for a geometry of any fields, a grid of    *)
(* any fineness, any crop requests and any number of sizes.                *)
(***************************************************************************)
EXTENDS PlayerRequests, TLAPS

-----------------------------------------------------------------------------
(* The inductive invariant: one part for each kind of request.               *)

\* While the flag is down the window has the last size, or is about to read it.
SizeInv ==
    /\ call.name = "set_size" => sizes > 0
    /\ call.name = "set_size" /\ ~need_resize => split
    /\ sizes > 0 /\ ~need_resize /\ ~early => renderer_size # NoSize
    /\ renderer_size # NoSize => made
    /\ given = {"w", "h"} => renderer_size \in {NoSize, [w |-> Grid, h |-> Grid]}
    /\ thread = "resize" /\ ~need_resize /\ ~split => read_from = sizes
    /\ ~need_resize /\ thread # "resize" /\ sizes > 0 /\ ~split /\ ~early =>
          \A f \in Fields : window[f] = sizes \/ (window[f] = Video /\ f \in Extent /\ given # {"w", "h"})

\* What the window manager was told is out of date only while the flag is up
\* or the application's call is between the value and the flag.
TopInv ==
    ~missed /\ call.name # "on_top" /\ (~on_top_changed \/ thread = "reset") => window_on_top = on_top

\* The rectangle is the request turned over, or will be when the call ends.
CropInv ==
    /\ Acceptable(crop_rect)
    /\ IF call.name = "crop"
       THEN Acceptable(call.rect) /\ call.rect = Flipped(cropped)
       ELSE crop_rect = Flipped(cropped)

Inv == TypeOK /\ SizeInv /\ TopInv /\ CropInv

-----------------------------------------------------------------------------
(* Rectangles.                                                               *)

LEMMA FlippedFields ==
    ASSUME NEW r \in Rect
    PROVE  /\ Flipped(r) \in Rect
           /\ Flipped(r).x0 = r.x0 /\ Flipped(r).y0 = Grid - r.y1
           /\ Flipped(r).x1 = r.x1 /\ Flipped(r).y1 = Grid - r.y0
  BY RequestAssumption DEF RequestAssumption, Rect, Flipped

\* Turning an accepted rectangle over shows the points the request asks for.
LEMMA FlippedShowsRequest ==
    ASSUME NEW r \in Rect, Acceptable(Flipped(r)), NEW x \in 0 .. Grid - 1, NEW y \in 0 .. Grid - 1
    PROVE  LET q == Flipped(r) IN
           (q.x0 <= x /\ x < q.x1 /\ q.y0 <= Grid - 1 - y /\ Grid - 1 - y < q.y1)
           <=> (r.x0 <= x /\ x < r.x1 /\ r.y0 <= y /\ y < r.y1)
<1>1. /\ r.x0 \in Int /\ r.x1 \in Int /\ r.y0 \in Int /\ r.y1 \in Int /\ Grid \in Nat
      /\ x \in Int /\ y \in Int
  BY RequestAssumption DEF RequestAssumption, Rect
<1> QED BY <1>1, FlippedFields

\* What a frame may be cut to, by the decoder or by a request.
LEMMA CutRects ==
    ASSUME TypeOK, NEW c \in Cuts
    PROVE  c \in [cut : BOOLEAN, own : BOOLEAN, rect : Rect] /\ (~c.own => c.rect \in Readable)
<1>1. Readable \subseteq Rect
  BY RequestAssumption DEF RequestAssumption, TypeOK, Readable, Rect
<1> QED BY <1>1, RequestAssumption DEF RequestAssumption, Cuts

LEMMA NoFrameType == NoFrame \in [cut : BOOLEAN, own : BOOLEAN, rect : Rect]
  BY DEF NoFrame, NoRect, Rect

LEMMA SizesFor ==
    ASSUME TypeOK, NEW r \in Rect
    PROVE  /\ SizeFor(r) \in [w : Int, h : Int]
           /\ given = {"w", "h"} => SizeFor(r) = [w |-> Grid, h |-> Grid]
  BY RequestAssumption DEF RequestAssumption, SizeFor, Rect

-----------------------------------------------------------------------------

LEMMA InvInit == Init => Inv
<1> SUFFICES ASSUME Init PROVE Inv
  OBVIOUS
<1>1. TypeOK
  <2>1. window \in [Fields -> Video .. MaxSizes]
    BY RequestAssumption DEF RequestAssumption, Init, Video
  <2>2. /\ WholeFrame \in [x0 : 0 .. Grid, y0 : 0 .. Grid, x1 : 0 .. Grid, y1 : 0 .. Grid]
        /\ WholeFrame \in Rect
    BY RequestAssumption DEF RequestAssumption, WholeFrame, Rect
  <2>3. call \in [name : {"none", "set_size", "crop", "on_top"}, rect : Rect]
    BY DEF Init, NoCall, NoRect, Rect
  <2>4. renderer_size \in [w : Int, h : Int]
    BY DEF Init, NoSize
  <2>8. frame \in [cut : BOOLEAN, own : BOOLEAN, rect : Rect] /\ made \in BOOLEAN
    BY NoFrameType DEF Init
  <2>5. sizes \in 0 .. MaxSizes /\ read_from \in 0 .. MaxSizes
    BY RequestAssumption DEF RequestAssumption, Init
  <2>6. crop_rect = WholeFrame /\ cropped = WholeFrame /\ thread = "get"
    BY DEF Init
  <2>7. /\ given \subseteq {"w", "h"} /\ need_resize \in BOOLEAN /\ split \in BOOLEAN /\ early \in BOOLEAN
        /\ on_top \in BOOLEAN /\ on_top_changed \in BOOLEAN /\ window_on_top \in BOOLEAN /\ missed \in BOOLEAN
    BY DEF Init
  <2> QED BY <2>1, <2>2, <2>3, <2>4, <2>5, <2>6, <2>7, <2>8 DEF TypeOK
<1>2. SizeInv
  <2>1. call.name = "none"
    BY DEF Init, NoCall
  <2> QED BY <2>1 DEF Init, SizeInv
<1>4. TopInv
  BY DEF Init, TopInv
<1>3. CropInv
  BY RequestAssumption DEF RequestAssumption, Init, CropInv, WholeFrame, Flipped, Acceptable, NoCall
<1> QED BY <1>1, <1>2, <1>3, <1>4 DEF Inv

\* A step that leaves the rectangles alone.
LEMMA CropKept ==
    ASSUME CropInv, UNCHANGED cropVars, call.name # "crop", call'.name # "crop"
    PROVE  CropInv'
  BY DEF CropInv, cropVars, Acceptable, Flipped

-----------------------------------------------------------------------------
(* The calls.                                                                *)

LEMMA CallsKeep == Inv /\ Call => Inv'
<1> SUFFICES ASSUME Inv, Call PROVE Inv'
  OBVIOUS
<1> USE RequestAssumption DEF RequestAssumption
<1>1. CASE BeginSetSize
  <2>1. TypeOK'
    <3>1. sizes' \in 0 .. MaxSizes
      BY <1>1 DEF Inv, BeginSetSize, TypeOK
    <3>2. call' \in [name : {"none", "set_size", "crop", "on_top"}, rect : Rect]
      BY <1>1 DEF BeginSetSize, NoCall, NoRect, Rect
    <3>3. need_resize' \in BOOLEAN /\ split' \in BOOLEAN
      BY <1>1 DEF BeginSetSize
    <3>4. UNCHANGED <<read_from, window, early, cropVars, rendererVars, topVars, frame, thread>>
      BY <1>1 DEF BeginSetSize
    <3> QED BY <3>1, <3>2, <3>3, <3>4 DEF Inv, TypeOK, cropVars, rendererVars, topVars
  <2>2. SizeInv'
    <3>1. need_resize' /\ sizes' > 0 /\ thread' = thread /\ UNCHANGED rendererVars
      BY <1>1 DEF Inv, TypeOK, BeginSetSize
    <3> QED BY <3>1 DEF Inv, SizeInv, rendererVars
  <2>3. TopInv'
    BY <1>1 DEF Inv, TopInv, BeginSetSize, NoCall, topVars
  <2>4. call.name # "crop" /\ call'.name # "crop" /\ UNCHANGED cropVars
    BY <1>1 DEF BeginSetSize, NoCall
  <2> QED BY <2>1, <2>2, <2>3, <2>4, CropKept DEF Inv
<1>2. ASSUME NEW r \in CropRequests, BeginCrop(r) PROVE Inv'
  <2>1. r \in Rect /\ Flipped(r) \in Rect
    BY FlippedFields
  <2>2. TypeOK'
    BY <1>2, <2>1 DEF Inv, BeginCrop, TypeOK, sizeVars, rendererVars, topVars
  <2>3. SizeInv' /\ TopInv'
    <3>1. call.name = "none" /\ call'.name = "crop" /\ UNCHANGED <<sizeVars, rendererVars, topVars, thread>>
      BY <1>2 DEF BeginCrop, NoCall
    <3>2. SizeInv'
      BY <3>1 DEF Inv, SizeInv, sizeVars, rendererVars
    <3>3. TopInv'
      BY <3>1 DEF Inv, TopInv, topVars
    <3> QED BY <3>2, <3>3
  <2>4. CropInv'
    BY <1>2 DEF Inv, CropInv, BeginCrop, Acceptable, Flipped
  <2> QED BY <2>2, <2>3, <2>4 DEF Inv
<1>3. ASSUME NEW enable \in BOOLEAN, BeginOnTop(enable) PROVE Inv'
  <2>1. TypeOK'
    BY <1>3 DEF Inv, BeginOnTop, TypeOK, NoCall, NoRect, Rect, sizeVars, cropVars, rendererVars
  <2>2. SizeInv' /\ TopInv'
    BY <1>3 DEF Inv, SizeInv, TopInv, BeginOnTop, NoCall, sizeVars, rendererVars
  <2>3. call.name # "crop" /\ call'.name # "crop" /\ UNCHANGED cropVars
    BY <1>3 DEF BeginOnTop, NoCall
  <2> QED BY <2>1, <2>2, <2>3, CropKept DEF Inv
<1>4. CASE EndSetSize
  <2>1. TypeOK'
    BY <1>4 DEF Inv, EndSetSize, TypeOK, NoCall, NoRect, Rect, sizeVars, cropVars, rendererVars, topVars
  <2>2. SizeInv' /\ TopInv'
    BY <1>4 DEF Inv, SizeInv, TopInv, EndSetSize, NoCall, sizeVars, rendererVars, topVars
  <2>3. call.name # "crop" /\ call'.name # "crop" /\ UNCHANGED cropVars
    BY <1>4 DEF EndSetSize, NoCall
  <2> QED BY <2>1, <2>2, <2>3, CropKept DEF Inv
<1>5. CASE EndCrop
  <2>1. call.rect \in [x0 : 0 .. Grid, y0 : 0 .. Grid, x1 : 0 .. Grid, y1 : 0 .. Grid]
    BY <1>5 DEF Inv, EndCrop, CropInv, Acceptable, TypeOK, Rect
  <2>2. TypeOK'
    BY <1>5, <2>1 DEF Inv, EndCrop, TypeOK, NoCall, NoRect, Rect, sizeVars, rendererVars, topVars
  <2>3. SizeInv' /\ TopInv'
    BY <1>5 DEF Inv, SizeInv, TopInv, EndCrop, NoCall, sizeVars, rendererVars, topVars
  <2>4. CropInv'
    BY <1>5 DEF Inv, CropInv, EndCrop, NoCall, Acceptable, Flipped
  <2> QED BY <2>2, <2>3, <2>4 DEF Inv
<1>6. CASE EndOnTop
  <2>1. TypeOK'
    BY <1>6 DEF Inv, EndOnTop, TypeOK, NoCall, NoRect, Rect, sizeVars, cropVars, rendererVars
  <2>2. SizeInv' /\ TopInv'
    BY <1>6 DEF Inv, SizeInv, TopInv, EndOnTop, NoCall, sizeVars, rendererVars
  <2>3. call.name # "crop" /\ call'.name # "crop" /\ UNCHANGED cropVars
    BY <1>6 DEF EndOnTop, NoCall
  <2> QED BY <2>1, <2>2, <2>3, CropKept DEF Inv
<1> QED BY <1>1, <1>2, <1>3, <1>4, <1>5, <1>6 DEF Call, Return

-----------------------------------------------------------------------------
(* The output thread: it changes neither the call nor the rectangle.         *)

LEMMA OutputKeepsCrop == Inv /\ OutputThread => CropInv'
<1> SUFFICES ASSUME Inv, OutputThread PROVE CropInv'
  OBVIOUS
<1>1. UNCHANGED <<call, cropVars>>
  BY DEF OutputThread, GetFrame, Render, ResetOnTop, RenderFails, NoResize, BeginResize, EndResize
<1> QED BY <1>1 DEF Inv, CropInv, cropVars, Acceptable, Flipped

\* A frame may be the first one, which makes the window.  What gives the window
\* the video's size leaves it what the last request asked for where it should:
\* with both options there is no such step once the renderer has its size.
LEMMA SizingKeeps ==
    ASSUME Inv, thread = "render",
           \/ UNCHANGED <<made, window>>
           \/ (\E c \in Cuts : MustSize(c.rect)) /\ SizeWindow
    PROVE  /\ window' \in [Fields -> Video .. MaxSizes]
           /\ made' \in BOOLEAN /\ (made => made')
           /\ ~need_resize /\ sizes > 0 /\ ~split /\ ~early =>
                 \A f \in Fields : window'[f] = sizes \/ (window'[f] = Video /\ f \in Extent /\ given # {"w", "h"})
<1>1. window' \in [Fields -> Video .. MaxSizes] /\ made' \in BOOLEAN /\ (made => made')
  <2>1. window \in [Fields -> Video .. MaxSizes] /\ made \in BOOLEAN
    BY DEF Inv, TypeOK
  <2>2. Video \in Video .. MaxSizes
    BY RequestAssumption DEF RequestAssumption, Video
  <2>3. CASE SizeWindow
    BY <2>1, <2>2, <2>3 DEF SizeWindow
  <2> QED BY <2>1, <2>3
<1>2. ASSUME ~need_resize, sizes > 0, ~split, ~early, NEW f \in Fields
      PROVE  window'[f] = sizes \/ (window'[f] = Video /\ f \in Extent /\ given # {"w", "h"})
  <2>1. window[f] = sizes \/ (window[f] = Video /\ f \in Extent /\ given # {"w", "h"})
    BY <1>2 DEF Inv, SizeInv
  <2>2. CASE UNCHANGED window
    BY <2>1, <2>2
  <2>3. CASE (\E c \in Cuts : MustSize(c.rect)) /\ SizeWindow
    <3>1. PICK c \in Cuts : MustSize(c.rect)
      BY <2>3
    <3>2. c.rect \in Rect
      BY CutRects DEF Inv
    <3>3. given # {"w", "h"}
      BY <1>2, <3>1, <3>2, SizesFor DEF Inv, SizeInv, MustSize
    <3> QED BY <2>1, <2>3, <3>3 DEF SizeWindow
  <2> QED BY <2>2, <2>3
<1> QED BY <1>1, <1>2

LEMMA RenderKeeps == Inv /\ Render => TypeOK' /\ SizeInv' /\ TopInv'
<1> SUFFICES ASSUME Inv, Render PROVE TypeOK' /\ SizeInv' /\ TopInv'
  OBVIOUS
<1>1. thread = "render" /\ frame' \in Cuts /\ renderer_size' = SizeFor(frame'.rect)
  BY DEF Render
<1>2. /\ frame' \in [cut : BOOLEAN, own : BOOLEAN, rect : Rect]
      /\ SizeFor(frame'.rect) \in [w : Int, h : Int]
      /\ given = {"w", "h"} => SizeFor(frame'.rect) = [w |-> Grid, h |-> Grid]
  BY <1>1, CutRects, SizesFor DEF Inv
<1>3. \/ UNCHANGED <<made, window>>
      \/ (\E c \in Cuts : MustSize(c.rect)) /\ SizeWindow
  BY <1>1 DEF Render
<1>4. /\ window' \in [Fields -> Video .. MaxSizes]
      /\ made' \in BOOLEAN /\ (made => made')
      /\ ~need_resize /\ sizes > 0 /\ ~split /\ ~early =>
            \A f \in Fields : window'[f] = sizes \/ (window'[f] = Video /\ f \in Extent /\ given # {"w", "h"})
  BY <1>1, <1>3, SizingKeeps
<1>5. TypeOK'
  BY <1>1, <1>2, <1>4 DEF Inv, Render, TypeOK, cropVars
<1>6. SizeInv'
  <2>1. /\ thread # "resize" /\ thread' # "resize"
        /\ UNCHANGED <<given, need_resize, sizes, read_from, split, early, call>>
    BY DEF Render
  <2>2. sizes > 0 /\ ~need_resize /\ ~early => renderer_size' # NoSize
    <3>1. CASE SizeFor(frame'.rect) = renderer_size
      BY <1>1, <3>1 DEF Inv, SizeInv
    <3>2. CASE MustSize(frame'.rect)
      BY <1>1, <3>2 DEF MustSize, NoSize
    <3> QED BY <3>1, <3>2 DEF Render
  <2>3. renderer_size' # NoSize => made'
    BY <1>1 DEF Inv, SizeInv, Render, SizeWindow
  <2> QED BY <1>1, <1>2, <1>4, <2>1, <2>2, <2>3 DEF Inv, SizeInv
<1>7. TopInv'
  BY DEF Inv, TopInv, Render
<1> QED BY <1>5, <1>6, <1>7

LEMMA RenderFailsKeeps == Inv /\ RenderFails => TypeOK' /\ SizeInv' /\ TopInv'
<1> SUFFICES ASSUME Inv, RenderFails PROVE TypeOK' /\ SizeInv' /\ TopInv'
  OBVIOUS
<1>1. /\ thread = "render" /\ thread' = "check"
      /\ UNCHANGED <<given, renderer_size, need_resize, sizes, read_from, split, early, cropVars, topVars, frame, call>>
  BY DEF RenderFails
<1>2. /\ window' \in [Fields -> Video .. MaxSizes]
      /\ made' \in BOOLEAN /\ (made => made')
      /\ ~need_resize /\ sizes > 0 /\ ~split /\ ~early =>
            \A f \in Fields : window'[f] = sizes \/ (window'[f] = Video /\ f \in Extent /\ given # {"w", "h"})
  BY <1>1, SizingKeeps DEF RenderFails
<1>3. TypeOK'
  BY <1>1, <1>2 DEF Inv, TypeOK, cropVars, topVars
<1>4. SizeInv'
  BY <1>1, <1>2 DEF Inv, SizeInv
<1>5. TopInv'
  BY <1>1 DEF Inv, TopInv, topVars
<1> QED BY <1>3, <1>4, <1>5

LEMMA OutputKeeps == Inv /\ OutputThread => TypeOK' /\ SizeInv' /\ TopInv'
<1> SUFFICES ASSUME Inv, OutputThread PROVE TypeOK' /\ SizeInv' /\ TopInv'
  OBVIOUS
<1> USE RequestAssumption DEF RequestAssumption
<1>1. CASE GetFrame \/ NoResize
  <2>1. UNCHANGED <<sizeVars, cropVars, rendererVars, topVars, call>>
    BY <1>1 DEF GetFrame, NoResize
  <2>2. thread # "resize" /\ thread # "reset" /\ thread' \in {"render", "check", "get"}
    BY <1>1 DEF GetFrame, NoResize
  <2>5. frame' \in [cut : BOOLEAN, own : BOOLEAN, rect : Rect]
    BY <1>1, NoFrameType DEF Inv, TypeOK, GetFrame, NoResize
  <2>3. TypeOK'
    BY <2>1, <2>2, <2>5 DEF Inv, TypeOK, sizeVars, cropVars, rendererVars, topVars
  <2>4. SizeInv' /\ TopInv'
    BY <2>1, <2>2 DEF Inv, SizeInv, TopInv, sizeVars, rendererVars, topVars
  <2> QED BY <2>3, <2>4
<1>2. CASE ResetOnTop
  <2>1. TypeOK'
    <3>1. /\ on_top_changed' \in BOOLEAN /\ thread' = "check"
          /\ UNCHANGED <<sizeVars, cropVars, rendererVars, on_top, window_on_top, missed, frame, call>>
      BY <1>2 DEF ResetOnTop
    <3> QED BY <3>1 DEF Inv, TypeOK, sizeVars, cropVars, rendererVars
  <2>2. SizeInv' /\ TopInv'
    BY <1>2 DEF Inv, SizeInv, TopInv, ResetOnTop, sizeVars, rendererVars
  <2> QED BY <2>1, <2>2
<1>3. CASE BeginResize
  <2>1. Stable \in 0 .. MaxSizes
    BY <1>3 DEF Inv, TypeOK, SizeInv, Stable
  <2>2. TypeOK'
    BY <1>3, <2>1 DEF Inv, TypeOK, BeginResize, cropVars, rendererVars, topVars
  <2>3. SizeInv' /\ TopInv'
    BY <1>3 DEF Inv, TypeOK, SizeInv, TopInv, BeginResize, Stable, rendererVars, topVars
  <2> QED BY <2>2, <2>3
<1>4. CASE EndResize
  <2>1. window' \in [Fields -> Video .. MaxSizes]
    BY <1>4 DEF Inv, TypeOK, EndResize, Video
  <2>2. TypeOK'
    BY <1>4, <2>1, NoFrameType DEF Inv, TypeOK, EndResize, cropVars, rendererVars, topVars
  <2>3. ASSUME ~need_resize, sizes > 0, ~split, ~early, NEW f \in Fields PROVE window'[f] = sizes
    <3>1. window' \in [Fields -> sizes .. sizes]
      BY <1>4, <2>3 DEF Inv, SizeInv, EndResize
    <3> QED BY <3>1 DEF Inv, TypeOK
  <2>4. SizeInv' /\ TopInv'
    BY <1>4, <2>3 DEF Inv, SizeInv, TopInv, EndResize, rendererVars, topVars
  <2> QED BY <2>2, <2>4
<1> QED BY <1>1, <1>2, <1>3, <1>4, RenderKeeps, RenderFailsKeeps DEF OutputThread

LEMMA InvNext == Inv /\ [Next]_vars => Inv'
<1> SUFFICES ASSUME Inv, [Next]_vars PROVE Inv'
  OBVIOUS
<1>1. CASE UNCHANGED vars
  <2>1. TypeOK'
    BY <1>1 DEF Inv, TypeOK, vars, sizeVars, cropVars, rendererVars, topVars
  <2>2. SizeInv' /\ TopInv' /\ CropInv'
    BY <1>1 DEF Inv, SizeInv, TopInv, CropInv, Acceptable, Flipped, vars, sizeVars, cropVars, rendererVars, topVars
  <2> QED BY <2>1, <2>2 DEF Inv
<1>2. CASE OutputThread
  BY <1>2, OutputKeeps, OutputKeepsCrop DEF Inv
<1> QED BY <1>1, <1>2, CallsKeep DEF Next

THEOREM Invariance == Spec => []Inv
  BY InvInit, InvNext, PTL DEF Spec

-----------------------------------------------------------------------------
(* The results.                                                              *)

\* Every variable keeps its type: a crop rectangle in the player never leaves
\* the frame, whatever crop_video() is called with.
THEOREM TypeCorrect == Spec => []TypeOK
<1>1. Inv => TypeOK
  BY DEF Inv
<1> QED BY <1>1, Invariance, PTL

\* The window ends with the geometry of the last set_size(), unless the output
\* thread looked while that call stored it, or before there was a window.
THEOREM LastSizeWins == Spec => []LastSizeIsApplied
<1>1. Inv => LastSizeIsApplied
  BY DEF Inv, SizeInv, LastSizeIsApplied, SizeSettled
<1> QED BY <1>1, Invariance, PTL

\* The window manager ends with the last choice of set_smallbox(), unless that
\* fell between the output thread's read and its reset of the flag.
THEOREM LastOnTopWins == Spec => []LastOnTopIsApplied
<1>1. Inv => LastOnTopIsApplied
  BY DEF Inv, TopInv, LastOnTopIsApplied
<1> QED BY <1>1, Invariance, PTL

\* On a grid of any fineness, with any rectangles of the decoder's: a frame that
\* has none of its own shows what the last accepted request asks for, unless
\* crop_video() is storing one while the frame reads it.
THEOREM CropShowsRequest == Spec => CropIsRequested
<1>1. Inv /\ Render /\ ~frame'.own /\ call.name # "crop" => Shows(frame'.rect, cropped)
  <2> SUFFICES ASSUME Inv, Render, ~frame'.own, call.name # "crop" PROVE Shows(frame'.rect, cropped)
    OBVIOUS
  <2>1. frame' \in Cuts
    BY DEF Render
  <2>2. frame'.rect \in Readable
    BY <2>1, CutRects DEF Inv
  <2>3. frame'.rect = crop_rect
    BY <2>2 DEF Readable
  <2>4. /\ cropped \in Rect /\ crop_rect = Flipped(cropped) /\ Acceptable(crop_rect)
        /\ crop_rect.x0 \in Int /\ crop_rect.x1 \in Int /\ crop_rect.y0 \in Int /\ crop_rect.y1 \in Int
    BY RequestAssumption DEF RequestAssumption, Inv, CropInv, TypeOK
  <2> QED BY <2>3, <2>4, FlippedShowsRequest DEF Acceptable, Shows
<1>2. [Next]_vars /\ frame'.cut /\ ~frame.cut => Render
  <2> SUFFICES ASSUME [Next]_vars, ~Render PROVE UNCHANGED frame \/ frame' = NoFrame
    BY DEF NoFrame
  <2>1. CASE Call
    BY <2>1 DEF Call, Return, BeginSetSize, BeginCrop, BeginOnTop, EndSetSize, EndCrop, EndOnTop
  <2>2. CASE OutputThread
    BY <2>2 DEF OutputThread, GetFrame, ResetOnTop, RenderFails, NoResize, BeginResize, EndResize
  <2> QED BY <2>1, <2>2 DEF Next, vars
<1>3. Inv /\ [Next]_vars =>
      [frame'.cut /\ ~frame.cut /\ ~frame'.own /\ call.name # "crop" => Shows(frame'.rect, cropped)]_vars
  BY <1>1, <1>2
<1> QED BY <1>3, Invariance, PTL DEF Spec, CropIsRequested
=============================================================================
