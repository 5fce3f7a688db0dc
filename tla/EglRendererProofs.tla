-------------------------- MODULE EglRendererProofs --------------------------
(***************************************************************************)
(* Proofs about EglRenderer, for any surfaces, formats among those the     *)
(* renderer knows, window sizes, and numbers of contexts and images.       *)
(***************************************************************************)
EXTENDS EglRenderer, SequenceTheorems, TLAPS

-----------------------------------------------------------------------------
(* The inductive invariant.                                                  *)

Frame == [surf : Surfaces, fmt : Formats, size : Sizes]

\* TypeOK in the parts that actions disturb together.
FrameType == frame \in IF pc \in {"idle", "gone"} THEN {None} ELSE Frame
PcType ==
    pc \in {"idle", "size", "bind", "peek", "peekRef", "video", "walk", "walkRef", "swap", "unbind", "gone"}
WindowType ==
    /\ appSize \in Sizes \cup {0}
    /\ context \in Contexts /\ current \in Contexts /\ made \in Contexts
    /\ window \in BOOLEAN /\ again \in BOOLEAN
ImageType ==
    /\ images \in Seq(Plane) /\ textures \in Seq(Plane)
    /\ vaImage \in Surfaces \cup {None} /\ vaHandle \in BOOLEAN /\ bound \in BOOLEAN
ProgType ==
    /\ changed \in BOOLEAN /\ text \in Formats \cup {None}
    /\ program \in Program \cup {None} /\ unbuilt \in Formats \cup {None}
ListType ==
    /\ num \in 0 .. MaxLoads
    /\ ptr \in Blocks /\ block \in Blocks
    /\ slots \in Seq(0 .. MaxLoads)
    /\ overlay \in Seq(Overlay)
    /\ loader \in {"idle", "moving", "creating", "counting"}
WalkType == walk \in [i : 0 .. MaxLoads, base : Blocks] /\ moved \in BOOLEAN

\* A frame that is drawn shows its surface, with the program of its format.
ImageInv ==
    /\ Drawing => \A i \in 1 .. Len(textures) : textures[i] = [surf |-> frame.surf, plane |-> i]
    /\ Drawing /\ bound => Len(textures) = Planes[frame.fmt] /\ text = frame.fmt
    /\ ~Drawing => vaImage = None /\ ~vaHandle /\ ~bound

\* The program is that of the text, or of a text set since, or was not built.
ProgInv ==
    /\ changed => text # None
    /\ pc # "gone" /\ ~changed /\ text # None =>
          IF program = None THEN unbuilt = text ELSE program.fmt = text

\* The list holds an image at every place below the count, in the block its
\* pointer names except while a load has not stored the new one.
ListInv ==
    /\ Len(overlay) = IF loader = "counting" THEN num + 1 ELSE num
    /\ Len(slots) \in Nat /\ num <= Len(slots)
    /\ loader # "idle" => num + 1 <= Len(slots) /\ num < MaxLoads
    /\ \A j \in 1 .. Len(slots) : slots[j] <= Len(overlay)
    /\ \A j \in 1 .. Len(overlay) : slots[j] # 0
    /\ loader # "moving" => ptr = block

WalkInv ==
    pc \in {"peekRef", "walkRef"} => walk.i < num /\ (walk.base # block => moved)

\* Until a second size, nothing was made in another context than the current one.
ContextInv ==
    pc # "gone" /\ ~again =>
        /\ pc \notin {"idle", "size"} => appSize # 0
        /\ IF appSize = 0
           THEN program = None /\ \A o \in 1 .. Len(overlay) : overlay[o].state # "built"
           ELSE /\ window /\ context = current /\ current # 0
                /\ program # None => program.ctx = current
                /\ \A o \in 1 .. Len(overlay) : overlay[o].state = "built" => overlay[o].ctx = current

TypeInv == PcType /\ FrameType /\ WindowType /\ ImageType /\ ProgType /\ ListType /\ WalkType

Inv == TypeInv /\ ImageInv /\ ProgInv /\ ListInv /\ WalkInv /\ ContextInv

LEMMA TypeParts == TypeInv <=> TypeOK
  BY DEF TypeInv, TypeOK, PcType, FrameType, Frame, WindowType, ImageType, ProgType, ListType, WalkType

-----------------------------------------------------------------------------
(* Helpers.                                                                  *)

LEMMA Distinct ==
    /\ None \notin Surfaces /\ None \notin Formats /\ None \notin Program
    /\ Formats \subseteq {"NV12", "I420", "RGBA", "other"}
    /\ \A s \in Sizes : s # 0
    /\ MaxLoads \in Nat /\ MaxContexts \in Nat
  BY ConstAssumption DEF ConstAssumption, Program, Contexts, Planes

\* The images imported for a frame are planes of its surface, in their order.
LEMMA ImportedPlanes ==
    ASSUME frame \in Frame, NEW k \in 0 .. 3
    PROVE  /\ KeptImages \o Imported(k) \in Seq(Plane)
           /\ Len(KeptImages \o Imported(k)) = k
           /\ \A i \in 1 .. k : (KeptImages \o Imported(k))[i] = [surf |-> frame.surf, plane |-> i]
<1>1. Imported(k) \in Seq(Plane) /\ Len(Imported(k)) = k
      /\ \A i \in 1 .. k : Imported(k)[i] = [surf |-> frame.surf, plane |-> i]
  BY DEF Imported, Plane, Frame
<1>2. KeptImages \o Imported(k) = Imported(k)
  BY <1>1, ConcatEmptySeq DEF KeptImages
<1> QED BY <1>1, <1>2

LEMMA PlanesOfFormat ==
    ASSUME frame \in Frame
    PROVE  Planes[frame.fmt] \in 0 .. 3 /\ frame.fmt \in Formats
<1>1. frame.fmt \in {"NV12", "I420", "RGBA", "other"} /\ frame.fmt \in Formats
  BY Distinct DEF Frame
<1>2. Planes["NV12"] = 2 /\ Planes["I420"] = 3 /\ Planes["RGBA"] = 1 /\ Planes["other"] = 0
  BY DEF Planes
<1> QED BY <1>1, <1>2

\* What the binding of a frame's surface may come to.
LEMMA BindOutcome ==
    ASSUME frame \in Frame, Bind
    PROVE  \E k \in 0 .. 3 :
              /\ images' = KeptImages \o Imported(k) /\ textures' = images'
              /\ \/ UNCHANGED <<bound, text, changed>>
                 \/ /\ k = Planes[frame.fmt] /\ bound' = TRUE /\ text' = frame.fmt
                    /\ changed' = TextChanged(frame.fmt)
              /\ vaImage' \in {vaImage, frame.surf} /\ vaHandle' \in {vaHandle, TRUE}
<1>1. KeptImages \o Imported(0) = KeptImages
  <2>1. Imported(0) = <<>>
    BY DEF Imported
  <2> QED BY <2>1 DEF KeptImages
<1>2. ASSUME NEW k \in {0} \cup 1 .. Planes[frame.fmt] - 1 PROVE k \in 0 .. 3
  BY <1>2, PlanesOfFormat
<1> QED BY <1>1, <1>2, PlanesOfFormat DEF Bind

-----------------------------------------------------------------------------
(* Types.                                                                    *)

LEMMA TypeInit == Init => TypeInv
<1> SUFFICES ASSUME Init PROVE TypeInv
  OBVIOUS
<1>1. PcType /\ FrameType
  BY DEF Init, PcType, FrameType
<1>2. WindowType
  <2>1. 0 \in Contexts
    BY Distinct DEF Contexts
  <2>2. window \in BOOLEAN /\ again \in BOOLEAN
    BY DEF Init
  <2> QED BY <2>1, <2>2 DEF Init, WindowType
<1>3. ImageType /\ ProgType
  <2>1. images \in Seq(Plane) /\ textures \in Seq(Plane)
    BY DEF Init
  <2>2. vaHandle \in BOOLEAN /\ bound \in BOOLEAN /\ changed \in BOOLEAN
    BY DEF Init
  <2> QED BY <2>1, <2>2 DEF Init, ImageType, ProgType
<1>4. ListType
  BY Distinct DEF Init, ListType, Blocks
<1>5. WalkType
  <2>1. walk \in [i : 0 .. MaxLoads, base : Blocks]
    BY Distinct DEF Init, Blocks
  <2> QED BY <2>1 DEF Init, WalkType
<1> QED BY <1>1, <1>2, <1>3, <1>4, <1>5 DEF TypeInv

LEMMA FrameNext == TypeInv /\ [Next]_vars => PcType' /\ FrameType'
<1> SUFFICES ASSUME TypeInv, [Next]_vars PROVE PcType' /\ FrameType'
  OBVIOUS
<1> USE DEF TypeInv, PcType, FrameType
<1>1. ASSUME NEW f \in Frame, NextFrame(f) PROVE PcType' /\ FrameType'
  BY <1>1 DEF NextFrame
<1>2. CASE SetSize
  BY <1>2 DEF SetSize, EnsureContext, NotSet
<1>3. CASE Bind \/ Peek \/ PeekRef \/ Walk \/ WalkRef \/ Swap
  BY <1>3 DEF Bind, Peek, PeekRef, Walk, WalkRef, Swap
<1>4. CASE DrawVideo
  BY <1>4 DEF DrawVideo, Undrawn
<1>5. CASE Unbind \/ Finalize
  BY <1>5 DEF Unbind, Finalize
<1>6. CASE AppNext \/ UNCHANGED vars
  <2>1. UNCHANGED frameVars
    BY <1>6 DEF AppNext, LoadGrow, LoadPointer, LoadCreate, LoadCount, appKeeps, vars
  <2> QED BY <2>1 DEF frameVars
<1> QED BY <1>1, <1>2, <1>3, <1>4, <1>5, <1>6 DEF Next, OutputNext, Frame

LEMMA WindowNext == TypeInv /\ [Next]_vars => WindowType'
<1> SUFFICES ASSUME TypeInv, [Next]_vars PROVE WindowType'
  OBVIOUS
<1>1. CASE SetSize
  <2>1. frame.size \in Sizes
    BY <1>1 DEF SetSize, TypeInv, FrameType, Frame
  <2>2. made < MaxContexts => made + 1 \in Contexts
    BY Distinct DEF TypeInv, WindowType, Contexts
  <2>3. again' \in BOOLEAN
    BY <1>1 DEF SetSize
  <2>4. /\ window' \in {window, TRUE, FALSE} /\ appSize' \in {appSize, frame.size}
        /\ made' \in {made} \cup (IF made < MaxContexts THEN {made + 1} ELSE {})
        /\ context' \in {context, 0, made'} /\ current' \in {current, made'}
    BY <1>1 DEF SetSize, EnsureContext, NotSet
  <2>5. made' \in Contexts /\ 0 \in Contexts
    BY <2>2, <2>4, Distinct DEF TypeInv, WindowType, Contexts
  <2> QED BY <2>1, <2>3, <2>4, <2>5 DEF TypeInv, WindowType
<1>2. CASE Finalize
  <2>1. 0 \in Contexts
    BY Distinct DEF Contexts
  <2> QED BY <1>2, <2>1 DEF Finalize, TypeInv, WindowType
<1>3. CASE UNCHANGED windowVars
  BY <1>3 DEF TypeInv, WindowType, windowVars
<1> QED BY <1>1, <1>2, <1>3 DEF Next, OutputNext, NextFrame, Bind, Peek, PeekRef, DrawVideo, Walk, WalkRef, Swap, Unbind,
          AppNext, LoadGrow, LoadPointer, LoadCreate, LoadCount, appKeeps, vars

LEMMA ImageNext == TypeInv /\ [Next]_vars => ImageType'
<1> SUFFICES ASSUME TypeInv, [Next]_vars PROVE ImageType'
  OBVIOUS
<1>1. CASE Bind
  <2>1. frame \in Frame
    BY <1>1 DEF Bind, TypeInv, FrameType
  <2> QED BY <1>1, <2>1, BindOutcome, ImportedPlanes DEF TypeInv, ImageType, Frame
<1>2. CASE Unbind \/ Finalize
  <2>1. /\ images' \in {images, <<>>} /\ textures' \in {textures, <<>>}
        /\ vaImage' \in {vaImage, None} /\ vaHandle' \in {vaHandle, FALSE} /\ bound' \in {bound, FALSE}
    BY <1>2 DEF Unbind, Finalize
  <2>2. vaHandle' \in BOOLEAN /\ bound' \in BOOLEAN
    BY <2>1 DEF TypeInv, ImageType
  <2>3. images' \in Seq(Plane) /\ textures' \in Seq(Plane)
    BY <2>1, EmptySeq DEF TypeInv, ImageType
  <2> QED BY <2>1, <2>2, <2>3 DEF TypeInv, ImageType
<1>3. CASE UNCHANGED imageVars
  BY <1>3 DEF TypeInv, ImageType, imageVars
<1>4. CASE DrawVideo
  BY <1>4 DEF DrawVideo, imageVars, TypeInv, ImageType
<1> QED BY <1>1, <1>2, <1>3, <1>4 DEF Next, OutputNext, NextFrame, SetSize, Peek, PeekRef, Walk, WalkRef, Swap,
          AppNext, LoadGrow, LoadPointer, LoadCreate, LoadCount, appKeeps, vars

LEMMA ProgNext == TypeInv /\ ProgInv /\ [Next]_vars => ProgType'
<1> SUFFICES ASSUME TypeInv, ProgInv, [Next]_vars PROVE ProgType'
  OBVIOUS
<1>1. CASE Bind
  <2>1. frame \in Frame /\ frame.fmt \in Formats
    BY <1>1, PlanesOfFormat DEF Bind, TypeInv, FrameType
  <2>2. text' \in {text, frame.fmt} /\ changed' \in BOOLEAN /\ UNCHANGED <<program, unbuilt>>
    BY <1>1 DEF Bind, TextChanged, TypeInv, ProgType
  <2> QED BY <2>1, <2>2 DEF TypeInv, ProgType
<1>2. CASE DrawVideo
  <2>1. changed => [fmt |-> text, ctx |-> current] \in Program
    BY DEF TypeInv, ProgInv, ProgType, WindowType, Program
  <2>2. /\ UNCHANGED text /\ changed' \in {changed, FALSE}
        /\ \/ UNCHANGED <<program, unbuilt>>
           \/ program' = None /\ unbuilt' = text
           \/ changed /\ program' = [fmt |-> text, ctx |-> current] /\ unbuilt' = None
    BY <1>2 DEF DrawVideo
  <2> QED BY <2>1, <2>2 DEF TypeInv, ProgType
<1>3. CASE Finalize
  BY <1>3 DEF Finalize, TypeInv, ProgType
<1>4. CASE UNCHANGED progVars
  BY <1>4 DEF TypeInv, ProgType, progVars
<1> QED BY <1>1, <1>2, <1>3, <1>4 DEF Next, OutputNext, NextFrame, SetSize, Peek, PeekRef, Walk, WalkRef, Swap, Unbind,
          AppNext, LoadGrow, LoadPointer, LoadCreate, LoadCount, appKeeps, vars

-----------------------------------------------------------------------------
(* The list of images: LoadCreate and WalkRef are the steps with a value to  *)
(* store in a sequence.                                                      *)

LEMMA ListKept ==
    ASSUME TypeInv, ListInv, UNCHANGED listVars
    PROVE  ListType' /\ ListInv'
<1>1. UNCHANGED <<num, ptr, block, slots, overlay, loader>>
  BY DEF listVars
<1>2. ListType'
  BY <1>1 DEF TypeInv, ListType
<1>3. ListInv'
  BY <1>1 DEF ListInv
<1> QED BY <1>2, <1>3

LEMMA GrowKeeps ==
    ASSUME TypeInv, ListInv, LoadGrow
    PROVE  ListType' /\ ListInv'
<1>1. /\ num \in Nat /\ num < MaxLoads /\ Len(overlay) = num /\ loader = "idle"
      /\ overlay \in Seq(Overlay) /\ slots \in Seq(0 .. MaxLoads) /\ MaxLoads \in Nat
  BY Distinct DEF TypeInv, ListType, ListInv, LoadGrow
<1>2. /\ slots' \in Seq(0 .. MaxLoads) /\ Len(slots') >= num + 1
      /\ \A j \in 1 .. Len(slots') : slots'[j] = IF j <= Len(slots) THEN slots[j] ELSE 0
  <2>1. CASE Len(slots) = num
    BY <1>1, <2>1, AppendProperties DEF LoadGrow
  <2>2. CASE Len(slots) # num
    BY <1>1, <2>2 DEF ListInv, LoadGrow
  <2> QED BY <2>1, <2>2
<1>3. loader' = "moving" /\ UNCHANGED <<num, ptr, overlay>>
  BY DEF LoadGrow
<1>4. block' \in Blocks
  BY <1>1 DEF LoadGrow, Blocks, TypeInv, ListType
<1>5. ListType'
  BY <1>2, <1>3, <1>4 DEF TypeInv, ListType
<1>6. Len(slots') \in Nat /\ Len(slots) \in Nat
  BY <1>1, <1>2, LenProperties
<1>7. ASSUME NEW j \in 1 .. Len(slots') PROVE slots'[j] <= num
  <2>1. CASE j <= Len(slots)
    <3>1. j \in 1 .. Len(slots) /\ slots'[j] = slots[j]
      BY <1>2, <1>6, <2>1
    <3> QED BY <1>1, <3>1 DEF ListInv
  <2>2. CASE ~(j <= Len(slots))
    BY <1>1, <1>2, <2>2
  <2> QED BY <2>1, <2>2
<1>8. ASSUME NEW j \in 1 .. num PROVE slots'[j] # 0
  <2>1. j \in 1 .. Len(slots) /\ j \in 1 .. Len(slots') /\ j \in 1 .. Len(overlay)
    BY <1>1, <1>2, <1>6 DEF ListInv
  <2>2. slots'[j] = slots[j]
    BY <1>2, <1>6, <2>1
  <2> QED BY <2>1, <2>2 DEF ListInv
<1>9. ListInv'
  BY <1>1, <1>2, <1>3, <1>6, <1>7, <1>8 DEF ListInv
<1> QED BY <1>5, <1>9

LEMMA CreateKeeps ==
    ASSUME TypeInv, ListInv, LoadCreate
    PROVE  ListType' /\ ListInv'
<1>1. /\ num \in 0 .. MaxLoads /\ Len(overlay) = num /\ loader = "creating" /\ num + 1 <= Len(slots)
      /\ overlay \in Seq(Overlay) /\ slots \in Seq(0 .. MaxLoads) /\ MaxLoads \in Nat /\ Len(slots) \in Nat
  BY Distinct DEF TypeInv, ListType, ListInv, LoadCreate
<1>2. CASE UNCHANGED <<overlay, slots>> /\ loader' = Unread
  BY <1>1, <1>2 DEF LoadCreate, Unread, TypeInv, ListType, ListInv
<1>3. ASSUME NEW k \in {"rgba", "rgb565"},
             overlay' = Append(overlay, [kind |-> k, state |-> "new", ctx |-> 0]),
             slots' = [slots EXCEPT ![num + 1] = Len(overlay')], loader' = "counting"
      PROVE  ListType' /\ ListInv'
  <2>1. [kind |-> k, state |-> "new", ctx |-> 0] \in Overlay
    BY Distinct DEF Overlay, Contexts
  <2>2. overlay' \in Seq(Overlay) /\ Len(overlay') = num + 1
    BY <1>1, <1>3, <2>1, AppendProperties
  <2>3. num + 1 \in 0 .. MaxLoads
    BY <1>1 DEF LoadCreate, ListInv
  <2>4. /\ slots' \in Seq(0 .. MaxLoads) /\ Len(slots') = Len(slots)
        /\ \A j \in 1 .. Len(slots) : slots'[j] = IF j = num + 1 THEN num + 1 ELSE slots[j]
    BY <1>1, <1>3, <2>2, <2>3, ExceptSeq
  <2>5. UNCHANGED <<num, ptr, block>>
    BY DEF LoadCreate
  <2>6. ListType'
    BY <1>3, <2>2, <2>4, <2>5 DEF TypeInv, ListType
  <2>7. ListInv'
    BY <1>1, <1>3, <2>2, <2>4, <2>5 DEF ListInv
  <2> QED BY <2>6, <2>7
<1> QED BY <1>2, <1>3 DEF LoadCreate

\* The only image a frame changes is one in the list, drawn for the first time.
LEMMA WalkRefChanges ==
    ASSUME TypeInv, ListInv, WalkInv, WalkRef
    PROVE  \/ UNCHANGED overlay
           \/ \E o \in 1 .. Len(overlay) :
                 /\ overlay[o].state = "new"
                 /\ \/ overlay' = [overlay EXCEPT ![o] = [kind |-> @.kind, state |-> "built", ctx |-> current]]
                    \/ overlay' = [overlay EXCEPT ![o] = [kind |-> @.kind, state |-> "freed", ctx |-> @.ctx]]
<1>1. walk.i + 1 \in 1 .. Len(slots) /\ walk.i + 1 \in 1 .. Len(overlay)
  <2>1. walk.i \in Nat /\ num \in Nat /\ walk.i < num
    BY Distinct DEF TypeInv, ListType, WalkType, WalkInv, WalkRef
  <2>2. Len(slots) \in Nat /\ num <= Len(slots) /\ Len(overlay) \in {num, num + 1}
    BY DEF ListInv
  <2> QED BY <2>1, <2>2
<1>2. slots[walk.i + 1] \in 1 .. Len(overlay)
  <2>1. slots[walk.i + 1] \in 0 .. MaxLoads
    BY <1>1, ElementOfSeq DEF TypeInv, ListType
  <2>2. Len(overlay) \in Nat
    BY LenProperties DEF TypeInv, ListType
  <2> QED BY <1>1, <2>1, <2>2, Distinct DEF ListInv
<1> QED BY <1>2 DEF WalkRef

LEMMA WalkRefElements ==
    ASSUME TypeInv, ListInv, WalkInv, WalkRef
    PROVE  /\ overlay' \in Seq(Overlay) /\ Len(overlay') = Len(overlay)
           /\ \A o \in 1 .. Len(overlay) :
                 overlay'[o] = overlay[o] \/ overlay'[o].state # "built" \/ overlay'[o].ctx = current
<1>1. CASE UNCHANGED overlay
  BY <1>1 DEF TypeInv, ListType
<1>2. ASSUME NEW o \in 1 .. Len(overlay), NEW e,
             e \in {[kind |-> overlay[o].kind, state |-> "built", ctx |-> current],
                    [kind |-> overlay[o].kind, state |-> "freed", ctx |-> overlay[o].ctx]},
             overlay' = [overlay EXCEPT ![o] = e]
      PROVE  /\ overlay' \in Seq(Overlay) /\ Len(overlay') = Len(overlay)
             /\ \A i \in 1 .. Len(overlay) :
                   overlay'[i] = overlay[i] \/ overlay'[i].state # "built" \/ overlay'[i].ctx = current
  <2>1. overlay \in Seq(Overlay) /\ overlay[o] \in Overlay /\ current \in Contexts
    BY ElementOfSeq DEF TypeInv, ListType, WindowType
  <2>2. e \in Overlay /\ (e.state # "built" \/ e.ctx = current)
    BY <1>2, <2>1 DEF Overlay
  <2> QED BY <1>2, <2>1, <2>2, ExceptSeq
<1>3. ASSUME NEW o \in 1 .. Len(overlay),
             \/ overlay' = [overlay EXCEPT ![o] = [kind |-> @.kind, state |-> "built", ctx |-> current]]
             \/ overlay' = [overlay EXCEPT ![o] = [kind |-> @.kind, state |-> "freed", ctx |-> @.ctx]]
      PROVE  \E e \in {[kind |-> overlay[o].kind, state |-> "built", ctx |-> current],
                       [kind |-> overlay[o].kind, state |-> "freed", ctx |-> overlay[o].ctx]} :
                overlay' = [overlay EXCEPT ![o] = e]
  BY <1>3
<1> QED BY <1>1, <1>2, <1>3, WalkRefChanges

LEMMA ListNext == TypeInv /\ ListInv /\ WalkInv /\ [Next]_vars => ListType' /\ ListInv'
<1> SUFFICES ASSUME TypeInv, ListInv, WalkInv, [Next]_vars PROVE ListType' /\ ListInv'
  OBVIOUS
<1>1. CASE LoadPointer
  BY <1>1 DEF LoadPointer, TypeInv, ListType, ListInv
<1>2. CASE LoadCount
  <2>1. Len(overlay) = num + 1 /\ num + 1 <= Len(slots) /\ num \in Nat
    BY <1>2, Distinct DEF LoadCount, TypeInv, ListType, ListInv
  <2>2. num + 1 \in 0 .. MaxLoads
    BY <1>2, <2>1, Distinct DEF LoadCount, ListInv, TypeInv, ListType
  <2> QED BY <1>2, <2>1, <2>2 DEF LoadCount, TypeInv, ListType, ListInv
<1>3. CASE WalkRef
  <2>1. UNCHANGED <<num, ptr, block, slots, loader>>
    BY <1>3 DEF WalkRef
  <2>2. ListType'
    BY <1>3, <2>1, WalkRefElements DEF TypeInv, ListType
  <2>3. ListInv'
    BY <1>3, <2>1, WalkRefElements DEF ListInv
  <2> QED BY <2>2, <2>3
<1>4. CASE UNCHANGED listVars
  BY <1>4, ListKept
<1> QED BY <1>1, <1>2, <1>3, <1>4, GrowKeeps, CreateKeeps
        DEF Next, OutputNext, NextFrame, SetSize, Bind, Peek, PeekRef, DrawVideo, Walk, Swap, Unbind, Finalize, AppNext, vars

\* The output thread's look at the list.
LEMMA WalkNext ==
    ASSUME TypeInv, ListInv, WalkInv, [Next]_vars
    PROVE  WalkType' /\ WalkInv'
<1> USE Distinct DEF TypeInv, ListType, WalkType
<1>1. CASE Peek \/ Walk
  <2>1. UNCHANGED listVars
    BY <1>1 DEF Peek, Walk
  <2>2. walk' \in [i : 0 .. MaxLoads, base : Blocks] /\ moved' \in BOOLEAN
    <3>1. \/ walk' = walk /\ moved' = moved
          \/ \E i \in 0 .. MaxLoads : walk' = [i |-> i, base |-> ptr] /\ moved' = (loader = "moving")
          \/ walk' = [i |-> 0, base |-> 0] /\ moved' = FALSE
      BY <1>1 DEF Peek, Walk, TakePointer, LeavePointer
    <3>2. moved' \in BOOLEAN
      BY <3>1
    <3>3. walk' \in [i : 0 .. MaxLoads, base : Blocks]
      BY <3>1 DEF Blocks
    <3> QED BY <3>2, <3>3
  <2>3. pc' \in {"peekRef", "walkRef"} => walk'.i < num /\ walk'.base = ptr /\ moved' = (loader = "moving")
    BY <1>1 DEF Peek, Walk, TakePointer
  <2> QED BY <2>1, <2>2, <2>3 DEF ListInv, WalkInv, listVars
<1>2. CASE PeekRef \/ WalkRef
  <2>1. walk.i + 1 \in 0 .. MaxLoads /\ 0 \in 0 .. MaxLoads /\ 0 \in Blocks
    BY <1>2 DEF PeekRef, WalkRef, WalkInv, Blocks
  <2>2. walk' \in [i : 0 .. MaxLoads, base : Blocks] /\ moved' \in BOOLEAN
    <3>1. \E i \in 0 .. MaxLoads : walk' = [i |-> i, base |-> 0] /\ moved' = FALSE
      BY <1>2, <2>1 DEF PeekRef, WalkRef, LeavePointer
    <3>2. moved' \in BOOLEAN
      BY <3>1
    <3>3. walk' \in [i : 0 .. MaxLoads, base : Blocks]
      BY <2>1, <3>1
    <3> QED BY <3>2, <3>3
  <2>3. pc' \notin {"peekRef", "walkRef"}
    BY <1>2 DEF PeekRef, WalkRef
  <2> QED BY <2>2, <2>3 DEF WalkInv
<1>3. CASE LoadGrow
  <2>1. UNCHANGED <<pc, num, walk>> /\ (UNCHANGED <<block, moved>> \/ moved' = TRUE)
    BY <1>3 DEF LoadGrow, appKeeps, frameVars
  <2>2. moved' \in BOOLEAN
    BY <2>1
  <2> QED BY <2>1, <2>2 DEF WalkInv
<1>4. CASE LoadPointer \/ LoadCreate \/ LoadCount
  <2>1. UNCHANGED <<pc, walk, moved, block>> /\ num' \in {num, num + 1}
    BY <1>4 DEF LoadPointer, LoadCreate, LoadCount, appKeeps, frameVars
  <2>2. WalkInv'
    BY <2>1 DEF WalkInv
  <2> QED BY <2>1, <2>2
<1>5. ASSUME UNCHANGED <<walkVars, listVars>>, UNCHANGED pc \/ pc' \notin {"peekRef", "walkRef"} PROVE WalkType' /\ WalkInv'
  <2>1. UNCHANGED <<walk, moved, num, block>>
    BY <1>5 DEF walkVars, listVars
  <2>2. WalkType'
    BY <2>1
  <2>3. WalkInv'
    BY <1>5, <2>1 DEF WalkInv
  <2> QED BY <2>2, <2>3
<1>6. CASE UNCHANGED vars
  <2>1. UNCHANGED <<walkVars, listVars>> /\ UNCHANGED pc
    BY <1>6 DEF vars, frameVars
  <2> QED BY <1>5, <2>1
<1>7. ASSUME NEW f \in Frame, NextFrame(f) PROVE UNCHANGED <<walkVars, listVars>> /\ pc' \notin {"peekRef", "walkRef"}
  BY <1>7 DEF NextFrame
<1>8. CASE SetSize \/ Bind \/ DrawVideo \/ Swap \/ Unbind \/ Finalize
  <2>1. UNCHANGED <<walkVars, listVars>> /\ pc' \notin {"peekRef", "walkRef"}
    BY <1>8 DEF SetSize, EnsureContext, NotSet, Bind, DrawVideo, Undrawn, Swap, Unbind, Finalize
  <2> QED BY <1>5, <2>1
<1> QED BY <1>1, <1>2, <1>3, <1>4, <1>5, <1>6, <1>7, <1>8 DEF Next, OutputNext, AppNext, Frame

-----------------------------------------------------------------------------
(* Images and program.                                                       *)

LEMMA ImageInvNext ==
    ASSUME TypeInv, ImageInv, [Next]_vars
    PROVE  ImageInv'
<1>1. CASE Bind
  <2>1. frame \in Frame /\ frame' = frame /\ ~Drawing /\ Drawing'
    BY <1>1 DEF Bind, TypeInv, FrameType, Drawing
  <2>2. PICK k \in 0 .. 3 :
              /\ images' = KeptImages \o Imported(k) /\ textures' = images'
              /\ \/ UNCHANGED <<bound, text, changed>>
                 \/ k = Planes[frame.fmt] /\ bound' = TRUE /\ text' = frame.fmt
    BY <1>1, <2>1, BindOutcome
  <2>3. Len(textures') = k /\ \A i \in 1 .. k : textures'[i] = [surf |-> frame.surf, plane |-> i]
    BY <2>1, <2>2, ImportedPlanes
  <2> QED BY <2>1, <2>2, <2>3 DEF ImageInv
<1>2. CASE Unbind \/ Finalize
  BY <1>2 DEF Unbind, Finalize, ImageInv, Drawing
<1>3. ASSUME UNCHANGED <<textures, vaImage, vaHandle, bound, text>>,
             Drawing' => Drawing /\ frame' = frame, ~Drawing' => ~Drawing
      PROVE  ImageInv'
  BY <1>3 DEF ImageInv
<1>4. ASSUME NEW f \in Frame, NextFrame(f) PROVE ImageInv'
  BY <1>3, <1>4 DEF NextFrame, Drawing, imageVars, progVars
<1>5. CASE SetSize
  BY <1>3, <1>5 DEF SetSize, EnsureContext, NotSet, Drawing, imageVars, progVars
<1>6. CASE Peek \/ PeekRef \/ Walk \/ WalkRef \/ Swap
  BY <1>3, <1>6 DEF Peek, PeekRef, Walk, WalkRef, Swap, Drawing, imageVars, progVars
<1>7. CASE DrawVideo
  BY <1>3, <1>7 DEF DrawVideo, Undrawn, Drawing, imageVars
<1>8. CASE AppNext \/ UNCHANGED vars
  <2>1. UNCHANGED <<frameVars, imageVars, progVars>>
    BY <1>8 DEF AppNext, LoadGrow, LoadPointer, LoadCreate, LoadCount, appKeeps, vars
  <2> QED BY <1>3, <2>1 DEF Drawing, frameVars, imageVars, progVars
<1> QED BY <1>1, <1>2, <1>4, <1>5, <1>6, <1>7, <1>8 DEF Next, OutputNext, Frame

LEMMA ProgInvNext ==
    ASSUME TypeInv, ProgInv, [Next]_vars
    PROVE  ProgInv'
<1>1. CASE Bind
  <2>1. frame \in Frame /\ frame.fmt # None
    BY <1>1, PlanesOfFormat, Distinct DEF Bind, TypeInv, FrameType
  <2>2. /\ UNCHANGED <<program, unbuilt>> /\ pc # "gone"
        /\ UNCHANGED <<text, changed>> \/ (text' = frame.fmt /\ changed' = (changed \/ text # frame.fmt))
    BY <1>1 DEF Bind, TextChanged, progVars
  <2>3. CASE UNCHANGED <<text, changed>>
    BY <2>2, <2>3 DEF ProgInv
  <2>4. CASE text' = frame.fmt /\ changed' = (changed \/ text # frame.fmt)
    <3>1. text' # None
      BY <2>1, <2>4
    <3>2. ~changed' => ~changed /\ text' = text
      BY <2>4
    <3> QED BY <2>2, <3>1, <3>2 DEF ProgInv
  <2> QED BY <2>2, <2>3, <2>4
<1>2. CASE DrawVideo
  <2>1. [fmt |-> text, ctx |-> current].fmt = text /\ (changed => [fmt |-> text, ctx |-> current] # None)
    BY Distinct DEF TypeInv, ProgInv, ProgType, WindowType, Program
  <2> QED BY <1>2, <2>1 DEF DrawVideo, Undrawn, ProgInv
<1>3. CASE Finalize
  BY <1>3 DEF Finalize, ProgInv
<1>4. ASSUME UNCHANGED progVars, pc = "gone" => pc' = "gone" PROVE ProgInv'
  BY <1>4 DEF ProgInv, progVars
<1>5. CASE UNCHANGED vars
  BY <1>4, <1>5 DEF vars, frameVars
<1>6. CASE AppNext
  BY <1>4, <1>6 DEF AppNext, LoadGrow, LoadPointer, LoadCreate, LoadCount, appKeeps, frameVars
<1>7. ASSUME NEW f \in Frame, NextFrame(f) PROVE ProgInv'
  BY <1>4, <1>7 DEF NextFrame
<1>8. CASE SetSize \/ Peek \/ PeekRef \/ Walk \/ WalkRef \/ Swap \/ Unbind
  BY <1>4, <1>8 DEF SetSize, Peek, PeekRef, Walk, WalkRef, Swap, Unbind
<1> QED BY <1>1, <1>2, <1>3, <1>5, <1>6, <1>7, <1>8 DEF Next, OutputNext, Frame

-----------------------------------------------------------------------------
(* The context that everything was made in.                                  *)

ContextFacts ==
    IF appSize = 0
    THEN program = None /\ \A o \in 1 .. Len(overlay) : overlay[o].state # "built"
    ELSE /\ window /\ context = current /\ current # 0
         /\ program # None => program.ctx = current
         /\ \A o \in 1 .. Len(overlay) : overlay[o].state = "built" => overlay[o].ctx = current

LEMMA ContextInvNext ==
    ASSUME TypeInv, ListInv, WalkInv, ContextInv, [Next]_vars
    PROVE  ContextInv'
<1>1. ContextInv <=> (pc # "gone" /\ ~again => (pc \notin {"idle", "size"} => appSize # 0) /\ ContextFacts)
  BY DEF ContextInv, ContextFacts
<1>2. ContextInv' <=> (pc' # "gone" /\ ~again' => (pc' \notin {"idle", "size"} => appSize' # 0) /\ ContextFacts')
  BY DEF ContextInv, ContextFacts
<1>3. CASE SetSize
  <2>1. /\ UNCHANGED <<program, overlay>> /\ pc = "size" /\ frame.size # 0
        /\ again' <=> again \/ appSize # 0
    BY <1>3, Distinct DEF SetSize, progVars, listVars, TypeInv, FrameType, Frame
  <2>2. \/ appSize' = appSize /\ pc' = "idle"
        \/ appSize' = frame.size /\ pc' = "bind" /\ window' = TRUE /\ context' = current' /\ current' = made + 1
    BY <1>3 DEF SetSize, EnsureContext, NotSet
  <2>3. made + 1 # 0
    BY Distinct DEF TypeInv, WindowType, Contexts
  <2> QED BY <1>1, <1>2, <2>1, <2>2, <2>3 DEF ContextFacts
<1>4. CASE Finalize
  BY <1>2, <1>4 DEF Finalize
<1>5. CASE DrawVideo
  <2>1. /\ UNCHANGED <<overlay, appSize, window, context, current, again>> /\ pc = "video" /\ pc' \in {"walk", "unbind"}
        /\ program' \in {program, None, [fmt |-> text, ctx |-> current]}
    BY <1>5 DEF DrawVideo, Undrawn, windowVars, listVars
  <2> QED BY <1>1, <1>2, <2>1 DEF ContextFacts
<1>6. CASE WalkRef
  <2>1. UNCHANGED <<program, appSize, window, context, current, again>> /\ pc = "walkRef" /\ pc' = "walk"
    BY <1>6 DEF WalkRef, windowVars, progVars
  <2> QED BY <1>1, <1>2, <1>6, <2>1, WalkRefElements DEF ContextFacts
<1>7. CASE LoadCreate
  <2>1. UNCHANGED <<program, appSize, window, context, current, again, pc>>
    BY <1>7 DEF LoadCreate, appKeeps, frameVars, windowVars, progVars
  <2>2. \/ UNCHANGED overlay
        \/ \E k \in {"rgba", "rgb565"} : overlay' = Append(overlay, [kind |-> k, state |-> "new", ctx |-> 0])
    BY <1>7 DEF LoadCreate
  <2>3. ASSUME NEW o \in 1 .. Len(overlay'), overlay'[o].state = "built"
        PROVE  o \in 1 .. Len(overlay) /\ overlay'[o] = overlay[o]
    <3>1. CASE UNCHANGED overlay
      BY <2>3, <3>1
    <3>2. ASSUME NEW k \in {"rgba", "rgb565"}, overlay' = Append(overlay, [kind |-> k, state |-> "new", ctx |-> 0])
          PROVE  o \in 1 .. Len(overlay) /\ overlay'[o] = overlay[o]
      <4>1. [kind |-> k, state |-> "new", ctx |-> 0] \in Overlay
        BY Distinct DEF Overlay, Contexts
      <4>2. overlay \in Seq(Overlay) /\ Len(overlay) \in Nat
        BY LenProperties DEF TypeInv, ListType
      <4>3. /\ Len(overlay') = Len(overlay) + 1 /\ overlay'[Len(overlay) + 1].state = "new"
            /\ \A i \in 1 .. Len(overlay) : overlay'[i] = overlay[i]
        BY <3>2, <4>1, <4>2, AppendProperties
      <4>4. o # Len(overlay) + 1
        BY <2>3, <4>3
      <4> QED BY <4>2, <4>3, <4>4
    <3> QED BY <2>2, <3>1, <3>2
  <2> QED BY <1>1, <1>2, <2>1, <2>3 DEF ContextFacts
<1>8. ASSUME UNCHANGED <<windowVars, program, overlay>>,
             pc = "gone" => pc' = "gone", pc \in {"idle", "size"} => pc' \in {"idle", "size", "gone"} \/ appSize # 0
      PROVE  ContextInv'
  <2>1. UNCHANGED <<appSize, window, context, current, again>>
    BY <1>8 DEF windowVars
  <2> QED BY <1>1, <1>2, <1>8, <2>1 DEF ContextFacts
<1>9. ASSUME NEW f \in Frame, NextFrame(f) PROVE ContextInv'
  <2>1. f.size # 0
    BY Distinct DEF Frame
  <2> QED BY <1>8, <1>9, <2>1 DEF NextFrame, progVars, listVars
<1>10. CASE Bind \/ Peek \/ PeekRef \/ Walk \/ Swap \/ Unbind
  BY <1>8, <1>10 DEF Bind, Peek, PeekRef, Walk, Swap, Unbind, progVars, listVars
<1>11. CASE LoadGrow \/ LoadPointer \/ LoadCount
  BY <1>8, <1>11 DEF LoadGrow, LoadPointer, LoadCount, appKeeps, frameVars, progVars
<1>12. CASE UNCHANGED vars
  BY <1>8, <1>12 DEF vars, frameVars, progVars, listVars
<1> QED BY <1>3, <1>4, <1>5, <1>6, <1>7, <1>9, <1>10, <1>11, <1>12 DEF Next, OutputNext, AppNext, Frame

-----------------------------------------------------------------------------
(* The results.                                                              *)

LEMMA InvInit == Init => Inv
<1> SUFFICES ASSUME Init PROVE Inv
  OBVIOUS
<1>1. ImageInv /\ ProgInv /\ WalkInv
  BY DEF Init, ImageInv, ProgInv, WalkInv, Drawing
<1>2. ListInv
  BY Distinct DEF Init, ListInv
<1>3. ContextInv
  BY DEF Init, ContextInv
<1> QED BY <1>1, <1>2, <1>3, TypeInit DEF Inv

LEMMA InvNext == Inv /\ [Next]_vars => Inv'
<1> SUFFICES ASSUME Inv, [Next]_vars PROVE Inv'
  OBVIOUS
<1> USE DEF Inv
<1>1. TypeInv'
  BY FrameNext, WindowNext, ImageNext, ProgNext, ListNext, WalkNext DEF TypeInv
<1> QED BY <1>1, ImageInvNext, ProgInvNext, ListNext, WalkNext, ContextInvNext

LEMMA Invariance == Spec => []Inv
  BY InvInit, InvNext, PTL DEF Spec

\* Every variable keeps its type; a frame is in the renderer's hands exactly
\* while the output thread is between taking it and giving it back.
THEOREM TypeCorrect == Spec => []TypeOK
<1>1. Inv => TypeOK
  BY TypeParts DEF Inv
<1> QED BY <1>1, Invariance, PTL

\* Whatever failed before, a frame is drawn from the planes of its own surface.
THEOREM FrameShowsItsSurface == Spec => []DrawsItsSurface
<1>1. Inv => DrawsItsSurface
  BY DEF Inv, ImageInv, DrawsItsSurface
<1> QED BY <1>1, Invariance, PTL

\* Between frames the surface is the decoder's.
THEOREM SurfaceIsGivenBack == Spec => []NothingHeldBetweenFrames
<1>1. Inv => NothingHeldBetweenFrames
  BY DEF Inv, ImageInv, Drawing, NothingHeldBetweenFrames
<1> QED BY <1>1, Invariance, PTL

\* A bound surface is drawn with the program of its format.
THEOREM ProgramIsOfFormat == Spec => DrawnWithItsProgram
<1>1. Inv /\ [Next]_vars =>
        [pc = "video" /\ pc' = "walk" /\ bound =>
             IF program' = None THEN unbuilt' = frame.fmt ELSE program'.fmt = frame.fmt]_vars
  <2> SUFFICES ASSUME Inv, Next, pc = "video", pc' = "walk", bound
               PROVE  IF program' = None THEN unbuilt' = frame.fmt ELSE program'.fmt = frame.fmt
    OBVIOUS
  <2>1. text' = frame.fmt /\ text' # None /\ ~changed'
    <3>1. DrawVideo
      BY DEF Next, OutputNext, NextFrame, SetSize, Bind, Peek, PeekRef, Walk, WalkRef, Swap, Unbind, Finalize,
             AppNext, LoadGrow, LoadPointer, LoadCreate, LoadCount, appKeeps, frameVars
    <3>2. frame \in Frame /\ text = frame.fmt
      BY DEF Inv, TypeInv, FrameType, ImageInv, Drawing
    <3>3. UNCHANGED text /\ ~changed'
      BY <3>1 DEF DrawVideo
    <3> QED BY <3>2, <3>3, PlanesOfFormat, Distinct
  <2>2. ProgInv' /\ pc' # "gone"
    BY InvNext DEF Inv
  <2> QED BY <2>1, <2>2 DEF ProgInv
<1> QED BY <1>1, Invariance, PTL DEF Spec, DrawnWithItsProgram

\* An image is read only where one was stored, and a freed list only by a frame
\* that took its address while a load was moving it.
THEOREM ListReadsAreStored == Spec => []ListIsReadStored
<1>1. Inv => ListIsReadStored
  <2> SUFFICES ASSUME Inv, pc \in {"peekRef", "walkRef"} PROVE Met # "nothing" /\ (Met = "freed list" => moved)
    BY DEF ListIsReadStored
  <2>1. CASE walk.base # block
    BY <2>1 DEF Inv, WalkInv, Met
  <2>2. CASE walk.base = block
    <3>1. walk.i \in Nat /\ num \in Nat /\ walk.i < num /\ Len(overlay) \in {num, num + 1} /\ Len(slots) \in Nat /\ num <= Len(slots)
      BY Distinct DEF Inv, TypeInv, ListType, WalkType, WalkInv, ListInv
    <3>2. slots[walk.i + 1] # 0
      BY <3>1 DEF Inv, ListInv
    <3>3. slots[walk.i + 1] \in 1 .. Len(overlay)
      <4>1. walk.i + 1 \in 1 .. Len(slots)
        BY <3>1
      <4>2. slots[walk.i + 1] \in 0 .. MaxLoads
        BY <4>1, ElementOfSeq DEF Inv, TypeInv, ListType
      <4>3. slots[walk.i + 1] <= Len(overlay)
        BY <4>1 DEF Inv, ListInv
      <4> QED BY <3>1, <3>2, <4>2, <4>3, Distinct
    <3>4. overlay[slots[walk.i + 1]].kind \in {"rgba", "rgb565"}
      <4>1. overlay[slots[walk.i + 1]] \in Overlay
        BY <3>3, ElementOfSeq DEF Inv, TypeInv, ListType
      <4> QED BY <4>1 DEF Overlay
    <3> QED BY <2>2, <3>2, <3>4 DEF Met
  <2> QED BY <2>1, <2>2
<1> QED BY <1>1, Invariance, PTL

\* What is drawn is seen until a second size: it is all in the current context.
THEOREM FirstSizeMakesAll == Spec => []FirstSizeIsWhole
<1>1. Inv => FirstSizeIsWhole
  <2>1. Drawing => pc \notin {"idle", "size", "gone"}
    BY DEF Drawing
  <2>2. Inv => DOMAIN overlay = 1 .. Len(overlay)
    BY LenProperties DEF Inv, TypeInv, ListType
  <2> QED BY <2>1, <2>2 DEF Inv, ContextInv, FirstSizeIsWhole
<1> QED BY <1>1, Invariance, PTL
=============================================================================
