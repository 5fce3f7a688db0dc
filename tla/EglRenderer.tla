---------------------------- MODULE EglRenderer ----------------------------
(***************************************************************************)
(* The EGL renderer (src/ffvarenderer_egl.cpp) as the player uses it: the  *)
(* output thread gives the window a size (app_ensure_renderer_size in      *)
(* src/vafastplayer.c, renderer_set_size) and puts one decoded surface     *)
(* after the other (renderer_put_surface), while the application's thread  *)
(* loads images and moves them (renderer_load_image, ...).  No lock of the *)
(* program is taken by either.                                             *)
(*                                                                         *)
(* The library is built for OpenGL ES 3 and the player asks for dma-buf    *)
(* memory, so the paths over GEM names and over the Mesa filter are not    *)
(* reached.  The texts of text overlays are a second list of the same make *)
(* as the list of images and are left out.                                 *)
(*                                                                         *)
(* A frame that cannot be bound, or drawn, is counted as an error and goes *)
(* through the remaining steps all the same; a step that EGL, GL or VA may *)
(* refuse is a choice.                                                     *)
(*                                                                         *)
(* Definitions introduced by "Mutant" are faulty variants of the one below *)
(* them, kept to show that the properties notice.                          *)
(***************************************************************************)
EXTENDS Integers, Sequences, FiniteSets

CONSTANTS Surfaces,     \* VA surfaces the decoder hands out
          Formats,      \* formats of their images
          Sizes,        \* window sizes the player asks for
          MaxContexts,  \* bound: EGL contexts made in a behaviour
          MaxLoads,     \* bound: images loaded in a behaviour
          None          \* a model value: no surface, no program, no text

Planes == [NV12 |-> 2, I420 |-> 3, RGBA |-> 1, other |-> 0]

ASSUME ConstAssumption ==
    /\ Formats \subseteq DOMAIN Planes
    /\ Sizes \subseteq Nat \ {0}
    /\ MaxContexts \in Nat
    /\ MaxLoads \in Nat
    /\ None \notin Surfaces \cup Formats
    /\ None \notin [fmt : Formats, ctx : 0 .. MaxContexts]

VARIABLES pc,       \* where the output thread is in a frame
          frame,    \* the surface it was given: its image's format, the size
          appSize,  \* app->renderer_width and _height, 0: none yet
          context,  \* egl->context, 0: NULL
          window,   \* egl->surface is a window surface
          current,  \* the context current in the output thread, 0: none
          made,     \* contexts made so far; none but the last is destroyed
          again,    \* history: a size was set after the first one recorded
          images,   \* egl->images[0..num_images-1]
          textures, \* egl->textures[0..num_textures-1]
          vaImage,  \* rnd->va_image is derived from this surface
          vaHandle, \* its buffer's handle is acquired (mem_size > 0)
          bound,    \* renderer_bind_surface() succeeded in this frame
          text,     \* egl->frag_shader_text, by the format it is for
          changed,  \* egl->program_changed
          program,  \* egl->program: format of its text and its context
          unbuilt   \* history: the format whose program was not built last

VARIABLES num,      \* rnd->num_overlays
          ptr,      \* rnd->overlays: the block it points to, 0: NULL
          block,    \* the block that holds the list now
          slots,    \* what the block holds: overlays, 0: nothing stored yet
          overlay,  \* overlay objects: their kind, state and context
          loader,   \* where the application's thread is in a load
          walk,     \* the index of the walk over the list, and its pointer
          moved     \* history: the list moved since the walk took its pointer

frameVars  == <<pc, frame>>
windowVars == <<appSize, context, window, current, made, again>>
imageVars  == <<images, textures, vaImage, vaHandle, bound>>
progVars   == <<text, changed, program, unbuilt>>
listVars   == <<num, ptr, block, slots, overlay, loader>>
walkVars   == <<walk, moved>>
vars == <<frameVars, windowVars, imageVars, progVars, listVars, walkVars>>

Blocks   == 0 .. MaxLoads
Contexts == 0 .. MaxContexts
Plane    == [surf : Surfaces, plane : 1 .. 3]
Program  == [fmt : Formats, ctx : Contexts]
Overlay  == [kind : {"rgba", "rgb565"}, state : {"new", "built", "freed"},
             ctx : Contexts]

TypeOK ==
    /\ pc \in {"idle", "size", "bind", "peek", "peekRef", "video", "walk",
               "walkRef", "swap", "unbind", "gone"}
    /\ frame \in IF pc \in {"idle", "gone"} THEN {None}
                 ELSE [surf : Surfaces, fmt : Formats, size : Sizes]
    /\ appSize \in Sizes \cup {0}
    /\ context \in Contexts /\ current \in Contexts /\ made \in Contexts
    /\ window \in BOOLEAN /\ again \in BOOLEAN
    /\ images \in Seq(Plane) /\ textures \in Seq(Plane)
    /\ vaImage \in Surfaces \cup {None} /\ vaHandle \in BOOLEAN
    /\ bound \in BOOLEAN /\ changed \in BOOLEAN
    /\ text \in Formats \cup {None}
    /\ program \in Program \cup {None} /\ unbuilt \in Formats \cup {None}
    /\ num \in 0 .. MaxLoads
    /\ ptr \in Blocks /\ block \in Blocks
    /\ slots \in Seq(0 .. MaxLoads)
    /\ overlay \in Seq(Overlay)
    /\ loader \in {"idle", "moving", "creating", "counting"}
    /\ walk \in [i : 0 .. MaxLoads, base : Blocks]
    /\ moved \in BOOLEAN

Init ==
    /\ pc = "idle"
    /\ frame = None
    /\ appSize = 0 /\ context = 0 /\ current = 0 /\ made = 0
    /\ window = FALSE /\ again = FALSE
    /\ images = <<>> /\ textures = <<>>
    /\ vaImage = None /\ vaHandle = FALSE /\ bound = FALSE
    /\ text = None /\ changed = FALSE /\ program = None /\ unbuilt = None
    /\ num = 0 /\ ptr = 0 /\ block = 0 /\ slots = <<>> /\ overlay = <<>>
    /\ loader = "idle"
    /\ walk = [i |-> 0, base |-> 0] /\ moved = FALSE

-----------------------------------------------------------------------------
(* The window's size: app_ensure_renderer_size() and renderer_set_size().  *)

\* app_render_surface() is called with the next frame's surface.
NextFrame(f) ==
    /\ pc = "idle"
    /\ frame' = f
    /\ pc' = IF appSize = f.size THEN "bind" ELSE "size"
    /\ UNCHANGED <<windowVars, imageVars, progVars, listVars, walkVars>>

\* What a size that is not set leaves: the frame is dropped, the size the
\* player has recorded stays, and the next frame tries again.
MutantNotSetRecorded ==
    /\ pc' = "bind"
    /\ frame' = frame
    /\ appSize' = frame.size
NotSet ==
    /\ pc' = "idle"
    /\ frame' = None
    /\ appSize' = appSize

\* ensure_context() makes a context (an old one is neither destroyed nor
\* released) and a window surface, makes both current, and looks up the
\* functions the renderer needs.
EnsureContext ==
    \/ /\ NotSet                                       \* no context
       /\ context' = 0
       /\ UNCHANGED <<window, current, made>>
    \/ /\ made < MaxContexts
       /\ made' = made + 1
       /\ context' = made'
       /\ \/ /\ NotSet                                 \* no window surface
             /\ window' = FALSE
             /\ UNCHANGED current
          \/ /\ NotSet                                 \* a function is missing
             /\ window' = TRUE
             /\ current' = made'
          \/ /\ appSize' = frame.size
             /\ pc' = "bind"
             /\ frame' = frame
             /\ window' = TRUE
             /\ current' = made'

\* renderer_set_size(): the native window first, then the context.
SetSize ==
    /\ pc = "size"
    /\ again' = (again \/ appSize # 0)
    /\ \/ /\ NotSet
          /\ UNCHANGED <<context, window, current, made>>
       \/ EnsureContext
    /\ UNCHANGED <<imageVars, progVars, listVars, walkVars>>

-----------------------------------------------------------------------------
(* renderer_put_surface(): bind                                            *)

\* renderer_clear_images() and renderer_clear_textures() drop what the frame
\* before left behind.
MutantKeptImages == images
KeptImages == <<>>

\* renderer_set_shader_text(): another text than the last asks for a program.
MutantTextChanged(f) == changed
TextChanged(f) == changed \/ text # f

\* The planes of the frame's image, in the order they are imported.
Imported(k) == [p \in 1 .. k |-> [surf |-> frame.surf, plane |-> p]]

\* renderer_bind_surface() and renderer_bind_textures(): the VA image, the
\* handle of its buffer, one EGL image for each plane; the text of the
\* shader is set when all were imported.  Every image that was made gets a
\* texture, whether or not the binding succeeded.
Bind ==
    /\ pc = "bind"
    /\ pc' = "peek"
    /\ \/ /\ UNCHANGED <<vaImage, vaHandle, bound, text, changed>>  \* no VA image
          /\ images' = KeptImages
       \/ /\ vaImage' = frame.surf                                  \* no handle
          /\ images' = KeptImages
          /\ UNCHANGED <<vaHandle, bound, text, changed>>
       \/ /\ vaImage' = frame.surf
          /\ vaHandle' = TRUE
          /\ \E k \in {0} \cup 1 .. Planes[frame.fmt] - 1 :         \* k planes only
                images' = KeptImages \o Imported(k)
          /\ UNCHANGED <<bound, text, changed>>
       \/ /\ Planes[frame.fmt] > 0
          /\ vaImage' = frame.surf
          /\ vaHandle' = TRUE
          /\ images' = KeptImages \o Imported(Planes[frame.fmt])
          /\ changed' = TextChanged(frame.fmt)
          /\ text' = frame.fmt
          /\ bound' = TRUE
    /\ textures' = images'
    /\ UNCHANGED <<frame, windowVars, program, unbuilt, listVars, walkVars>>

-----------------------------------------------------------------------------
(* renderer_put_surface(): draw                                            *)

\* The output thread reads rnd->overlays, to look at entry i; it is done with
\* what it read, and goes on to entry i.
TakePointer(i) ==
    /\ walk' = [i |-> i, base |-> ptr]
    /\ moved' = (loader = "moving")
LeavePointer(i) ==
    /\ walk' = [i |-> i, base |-> 0]
    /\ moved' = FALSE

\* What it finds there: the list may be freed by now, the entry empty, the
\* image freed.
Met ==
    IF walk.base # block THEN "freed list"
    ELSE IF slots[walk.i + 1] = 0 THEN "nothing"
    ELSE IF overlay[slots[walk.i + 1]].state = "freed" THEN "freed image"
    ELSE overlay[slots[walk.i + 1]].kind

\* renderer_redraw(): the first image, if there is one, decides whether the
\* video is drawn at all.
Peek ==
    /\ pc = "peek"
    /\ \/ /\ num = 0
          /\ pc' = "video"
          /\ UNCHANGED <<walk, moved>>
       \/ /\ num > 0
          /\ pc' = "peekRef"
          /\ TakePointer(0)
    /\ UNCHANGED <<frame, windowVars, imageVars, progVars, listVars>>

\* A format read from freed memory may be anything.
PeekRef ==
    /\ pc = "peekRef"
    /\ \/ /\ Met # "rgba"
          /\ pc' = "walk"
       \/ /\ Met # "rgb565"
          /\ pc' = "video"
    /\ LeavePointer(0)
    /\ UNCHANGED <<frame, windowVars, imageVars, progVars, listVars>>

\* Where a frame goes on that could not be drawn: the error is counted only.
MutantUndrawn ==
    /\ pc' = "idle"
    /\ frame' = None
Undrawn ==
    /\ pc' = "unbind"
    /\ frame' = frame

\* A program that is asked for replaces the old one; when it cannot be built
\* the drawing ends there, and no later frame asks until the text changes.
DrawVideo ==
    /\ pc = "video"
    /\ \/ /\ ~changed
          /\ pc' = "walk"
          /\ UNCHANGED <<program, unbuilt, changed, frame>>
       \/ /\ changed
          /\ changed' = FALSE
          /\ \/ /\ program' = None
                /\ unbuilt' = text
                /\ Undrawn
             \/ /\ program' = [fmt |-> text, ctx |-> current]
                /\ unbuilt' = None
                /\ pc' = "walk"
                /\ UNCHANGED frame
    /\ UNCHANGED <<windowVars, imageVars, text, listVars, walkVars>>

\* The walk: the count is read again before every entry.
Walk ==
    /\ pc = "walk"
    /\ \/ /\ walk.i < num
          /\ pc' = "walkRef"
          /\ TakePointer(walk.i)
       \/ /\ walk.i >= num
          /\ pc' = "swap"
          /\ LeavePointer(0)
    /\ UNCHANGED <<frame, windowVars, imageVars, progVars, listVars>>

\* render_image_overlay(): an image drawn for the first time gets a program
\* and a texture; one whose program cannot be built is freed and stays in the
\* list, and is read on at once.
WalkRef ==
    /\ pc = "walkRef"
    /\ LET o == slots[walk.i + 1] IN
       IF Met \in {"rgba", "rgb565"} /\ overlay[o].state = "new"
       THEN \/ overlay' = [overlay EXCEPT ![o] = [kind |-> @.kind, state |-> "built", ctx |-> current]]
            \/ overlay' = [overlay EXCEPT ![o] = [kind |-> @.kind, state |-> "freed", ctx |-> @.ctx]]
       ELSE UNCHANGED overlay
    /\ pc' = "walk"
    /\ LeavePointer(walk.i + 1)
    /\ UNCHANGED <<frame, windowVars, imageVars, progVars, num, ptr, block, slots,
                   loader>>

\* eglSwapBuffers(): its result is not looked at.
Swap ==
    /\ pc = "swap"
    /\ pc' = "unbind"
    /\ UNCHANGED <<frame, windowVars, imageVars, progVars, listVars, walkVars>>

\* renderer_unbind_surface(), whatever became of the steps before.
Unbind ==
    /\ pc = "unbind"
    /\ pc' = "idle"
    /\ frame' = None
    /\ vaHandle' = FALSE
    /\ vaImage' = None
    /\ bound' = FALSE
    /\ UNCHANGED <<windowVars, images, textures, progVars, listVars, walkVars>>

\* renderer_finalize(); the images of the application are not freed.
Finalize ==
    /\ pc = "idle"
    /\ pc' = "gone"
    /\ current' = 0 /\ context' = 0 /\ window' = FALSE
    /\ program' = None
    /\ images' = <<>> /\ textures' = <<>>
    /\ UNCHANGED <<frame, appSize, made, again, vaImage, vaHandle, bound, text,
                   changed, unbuilt, listVars, walkVars>>

-----------------------------------------------------------------------------
(* The application's thread                                                *)

appKeeps == <<frameVars, windowVars, imageVars, progVars, walk>>

\* renderer_load_image(), renderer_add_image_data() and renderer_add_fc():
\* realloc() lets the list grow where it is or moves it and frees the old
\* block; only then is its answer stored.
LoadGrow ==
    /\ pc # "gone"
    /\ loader = "idle"
    /\ Len(overlay) < MaxLoads
    /\ loader' = "moving"
    /\ \/ /\ block # 0
          /\ UNCHANGED <<block, moved>>
       \/ /\ block < MaxLoads
          /\ block' = block + 1
          /\ moved' = TRUE
    /\ slots' = IF Len(slots) = num THEN Append(slots, 0) ELSE slots
    /\ UNCHANGED <<appKeeps, num, ptr, overlay>>

LoadPointer ==
    /\ loader = "moving"
    /\ loader' = "creating"
    /\ ptr' = block
    /\ UNCHANGED <<appKeeps, num, block, slots, overlay, moved>>

\* The image is read from its file and stored in the list, where nothing
\* looks for it yet; the load answers -1 when the file cannot be read.
MutantUnread == "counting"
Unread == "idle"

LoadCreate ==
    /\ loader = "creating"
    /\ \/ \E k \in {"rgba", "rgb565"} :
             overlay' = Append(overlay, [kind |-> k, state |-> "new", ctx |-> 0])
          /\ slots' = [slots EXCEPT ![num + 1] = Len(overlay')]
          /\ loader' = "counting"
       \/ /\ UNCHANGED <<overlay, slots>>
          /\ loader' = Unread
    /\ UNCHANGED <<appKeeps, num, ptr, block, moved>>

\* Only now does the count take the image in.
LoadCount ==
    /\ loader = "counting"
    /\ loader' = "idle"
    /\ num' = num + 1
    /\ UNCHANGED <<appKeeps, ptr, block, slots, overlay, moved>>

-----------------------------------------------------------------------------
OutputNext ==
    \/ \E f \in [surf : Surfaces, fmt : Formats, size : Sizes] : NextFrame(f)
    \/ SetSize \/ Bind \/ Peek \/ PeekRef \/ DrawVideo \/ Walk \/ WalkRef
    \/ Swap \/ Unbind \/ Finalize

AppNext == LoadGrow \/ LoadPointer \/ LoadCreate \/ LoadCount

Next == OutputNext \/ AppNext

Spec == Init /\ [][Next]_vars

-----------------------------------------------------------------------------
(* What the renderer promises                                              *)

Drawing == pc \in {"peek", "peekRef", "video", "walk", "walkRef", "swap", "unbind"}

\* While a frame is drawn every texture shows a plane of the frame's own
\* surface, each at its own place, and all of them are there when the surface
\* was bound: nothing of an earlier surface, which the decoder may be filling
\* by now, is left from a frame that failed half way.
DrawsItsSurface ==
    Drawing =>
        /\ \A i \in 1 .. Len(textures) :
              textures[i] = [surf |-> frame.surf, plane |-> i]
        /\ bound => Len(textures) = Planes[frame.fmt]

\* Between two frames the renderer holds neither a VA image nor the handle of
\* its buffer, on whatever step the last frame failed.  The EGL images made of the
\* surface are not meant: they stay until the next frame.
NothingHeldBetweenFrames ==
    pc \in {"idle", "size", "bind", "gone"} => vaImage = None /\ ~vaHandle

\* A surface that was bound is drawn with the program made for its format;
\* without any program only after that very one could not be built.
DrawnWithItsProgram ==
    [][pc = "video" /\ pc' = "walk" /\ bound =>
         IF program' = None THEN unbuilt' = frame.fmt
                            ELSE program'.fmt = frame.fmt]_vars

\* Until a size is set after the first one the player has recorded, what is
\* drawn is seen: there is a window surface, and the program and the images
\* belong to the context that is current.  (A second size makes a new context
\* and leaves program and images in the old one.)
FirstSizeIsWhole ==
    Drawing /\ ~again =>
        /\ window /\ context = current /\ current # 0
        /\ program # None => program.ctx = current
        /\ \A o \in DOMAIN overlay :
              overlay[o].state = "built" => overlay[o].ctx = current

\* An entry of the list is read only after an image was stored in it, and a
\* list that realloc() has freed is read only by a frame that took its address
\* before a load moved it and stored the new one.
ListIsReadStored ==
    pc \in {"peekRef", "walkRef"} =>
        /\ Met # "nothing"
        /\ Met = "freed list" => moved

=============================================================================
