--------------------------- MODULE ReceiverProofs ----------------------------
(***************************************************************************)
(* Proofs about what the fabric sends and answers: FrameReceiver, for any  *)
(* sizes and any number of pictures and stops, and GroupRequests, for any  *)
(* callers, operations, groups and number of calls.  They use no fairness. *)
(***************************************************************************)
EXTENDS FrameReceiver, GroupRequests, TLAPS

-----------------------------------------------------------------------------
(* FrameReceiver: received video.                                            *)

Places == {"none", "exit", "add", "test", "locked", "waiting", "woken", "copying",
           "end", "ended"}

BufferType == [size : Nat, freed : BOOLEAN]

\* The pictures that were added, the one being added among them.
Begun == Len(pictures) + (IF adding = NoAdd THEN 0 ELSE 1)

\* What is numbered: there is one receiver for each buffer, the latest buffer
\* is the one rgbBuf points to, and there are no more buffers than pictures.
Counts ==
    /\ rgbBuf = Len(buffer)
    /\ Len(buffer) <= Len(pictures)
    /\ Begun <= MaxAdds
    /\ \A r \in Receivers : at[r] = "none" <=> r > Len(buffer)
    /\ \A r \in Receivers : at[r] = "copying" => copying[r].buf \in 1 .. Len(buffer)
    /\ \A i \in DOMAIN pictures : pictures[i].buf <= Len(buffer)

\* Nothing has taken a mapping away, or refused one.
On == stops = 0 /\ ~mapFailed

\* Until then rxBuf points to a mapping that is there, as does every copy under
\* way, and no receiver goes to its end, so that no buffer was freed.
MappedWhileOn ==
    On =>
        /\ rxBuf # 0 => rxBuf \in mapped
        /\ buffer # <<>> => rxBuf # 0
        /\ \A r \in Receivers : at[r] # "end"
        /\ \A r \in Receivers : at[r] = "copying" => copying[r].map \in mapped
        /\ \A b \in 1 .. Len(buffer) : ~buffer[b].freed
        /\ died # "unmapped"

\* The size is that of the latest mapping, unless init() is between the two.
SizeIsMapped ==
    rxBuf \in mapped /\ adding.stage \notin {"height", "width"}
        => mapSize[rxBuf] = size

\* As long as no picture is added while a receiver runs, the only one that can
\* run is the latest: its buffer is the one of rgbBuf, is not freed, and has
\* the size its copies use, as does the mapping they read, while it is there.  A
\* receiver frees the buffer as it ends.
OneRuns ==
    ~overlap =>
        /\ \A r \in Running :
              /\ r = Len(buffer)
              /\ ~buffer[r].freed /\ buffer[r].size = size
              /\ at[r] = "copying" =>
                    /\ copying[r].buf = r /\ copying[r].size = size
                    /\ copying[r].map \in mapped => mapSize[copying[r].map] = size
        /\ adding # NoAdd => Running = {}
        /\ died \notin {"buffer", "past end"}

\* The size of a picture is stored before it is mapped by it; between init() and
\* start() the mapping and the size are its own.
AddedIsMapped ==
    /\ adding.stage = "width" => size = adding.size
    /\ adding.stage = "done" /\ ~adding.refused /\ ~mapFailed
          => rxBuf # 0 /\ size = adding.size

\* The inductive invariant.  PicturesFit is a part of it.
Inv ==
    /\ TypeOK /\ Counts /\ MappedWhileOn /\ SizeIsMapped /\ OneRuns
    /\ AddedIsMapped /\ PicturesFit

LEMMA InvInit == Init => Inv
<1> SUFFICES ASSUME Init PROVE Inv
  OBVIOUS
<1>1. TypeOK
  <2>1. /\ buffer = <<>> /\ buffer \in Seq(BufferType) /\ Len(buffer) = 0
        /\ pictures = <<>> /\ pictures \in Seq(Picture)
    BY DEF Init
  <2>2. /\ at \in [Receivers -> Places]
        /\ copying \in [Receivers -> [map : Nat, buf : Receivers \cup {0}, size : Nat]]
    BY ConstAssumption DEF ConstAssumption, Init, NoCopy, Places
  <2>3. /\ size \in Sizes \cup {0} /\ mapped \subseteq 1 .. Len(mapSize)
        /\ mtx \in Receivers \cup {0}
    BY DEF Init
  <2>5. /\ rxBuf \in 0 .. Len(mapSize) /\ mapSize \in Seq(Nat)
        /\ rgbBuf \in 0 .. 0 /\ stops \in 0 .. MaxStops
    BY ConstAssumption DEF ConstAssumption, Init
  <2>6. /\ mapFailed \in BOOLEAN /\ overlap \in BOOLEAN
        /\ died \in {"no", "signal", "unmapped", "past end", "buffer"}
    BY DEF Init
  <2>4. adding \in Adding \cup {NoAdd}
    BY DEF Init
  <2> QED BY <2>1, <2>2, <2>3, <2>4, <2>5, <2>6 DEF TypeOK, BufferType, Places
<1>2. Counts
  BY ConstAssumption DEF ConstAssumption, Init, Counts, Begun, Receivers
<1>3. MappedWhileOn /\ SizeIsMapped /\ OneRuns
  BY DEF Init, MappedWhileOn, SizeIsMapped, OneRuns, Running
<1>4. AddedIsMapped /\ PicturesFit
  BY DEF Init, NoAdd, AddedIsMapped, PicturesFit
<1> QED BY <1>1, <1>2, <1>3, <1>4 DEF Inv

\* What the types say of numbers and sequences.
LEMMA Numbers ==
    ASSUME TypeOK
    PROVE  /\ size \in Nat /\ stops \in Nat
           /\ mapSize \in Seq(Nat) /\ Len(mapSize) \in Nat
           /\ rxBuf \in 0 .. Len(mapSize) /\ rxBuf \in Nat
           /\ mapped \subseteq 1 .. Len(mapSize)
           /\ buffer \in Seq(BufferType) /\ Len(buffer) \in Nat
           /\ pictures \in Seq(Picture) /\ Len(pictures) \in Nat
<1>1. /\ size \in Sizes \cup {0} /\ stops \in 0 .. MaxStops
      /\ mapSize \in Seq(Nat) /\ rxBuf \in 0 .. Len(mapSize)
      /\ mapped \subseteq 1 .. Len(mapSize)
      /\ buffer \in Seq(BufferType) /\ pictures \in Seq(Picture)
  BY DEF TypeOK, BufferType
<1>2. size \in Nat /\ stops \in Nat
  BY <1>1, ConstAssumption DEF ConstAssumption
<1>3. Len(mapSize) \in Nat /\ Len(buffer) \in Nat /\ Len(pictures) \in Nat
  BY <1>1
<1> QED BY <1>1, <1>2, <1>3

\* A receiver that runs has been started, so there is a buffer.
LEMMA RunningIsStarted ==
    ASSUME TypeOK, Counts, NEW r \in Receivers, at[r] # "none"
    PROVE  r \in 1 .. Len(buffer) /\ Len(buffer) \in Receivers /\ rgbBuf = Len(buffer)
<1>2. Len(buffer) \in Nat /\ Len(pictures) \in Nat
  BY Numbers
<1>3. Len(pictures) <= Begun /\ Begun \in Nat
  BY <1>2 DEF Begun
<1>1. r <= Len(buffer) /\ Len(buffer) <= MaxAdds /\ Len(buffer) \in Nat /\ r \in Nat /\ r >= 1
  BY <1>2, <1>3, ConstAssumption DEF Counts, Receivers, ConstAssumption
<1> QED BY <1>1, ConstAssumption DEF Receivers, Counts, ConstAssumption

\* Steps that neither begin nor end anything.
Moves ==
    /\ UNCHANGED <<recvKeeps, buffer, copying>>
    /\ mtx' \in Receivers \cup {0}
    /\ died = "no" /\ died' \in {"no", "signal"}
    /\ at' \in [Receivers -> Places]
    /\ \A r \in Receivers :
          \/ at'[r] = at[r]
          \/ /\ {at[r], at'[r]} \cap {"none", "ended", "copying"} = {}
             /\ at'[r] = "end" => rxBuf = 0

\* They keep the invariant, whichever they are.
LEMMA MovesKeep == ASSUME Inv, Moves PROVE Inv'
<1>1. TypeOK'
  BY DEF Inv, TypeOK, Moves, recvKeeps, Places
<1>2. Counts'
  BY DEF Inv, Counts, Begun, Moves, recvKeeps
<1>3. Running' \subseteq Running
  BY DEF Running, Moves
<1>4. MappedWhileOn'
  <2> SUFFICES ASSUME On PROVE MappedWhileOn'
    BY DEF MappedWhileOn, On, Moves, recvKeeps
  <2>1. ASSUME NEW r \in Receivers PROVE at'[r] # "end"
    <3> SUFFICES ASSUME at'[r] = "end" PROVE FALSE
      OBVIOUS
    <3>1. at[r] \notin {"end", "none"} /\ rxBuf = 0
      BY DEF Moves, Inv, MappedWhileOn
    <3>2. buffer # <<>>
      BY <3>1, RunningIsStarted DEF Inv
    <3> QED BY <3>1, <3>2 DEF Inv, MappedWhileOn
  <2> QED BY <2>1 DEF Inv, MappedWhileOn, On, Moves, recvKeeps
<1>5. OneRuns'
  BY <1>3 DEF Inv, OneRuns, Running, Moves, recvKeeps
<1>6. AddedIsMapped' /\ SizeIsMapped'
  BY DEF Inv, AddedIsMapped, SizeIsMapped, Moves, recvKeeps
<1>7. PicturesFit'
  BY DEF Inv, PicturesFit, Moves, recvKeeps
<1> QED BY <1>1, <1>2, <1>4, <1>5, <1>6, <1>7 DEF Inv

\* These steps are moves: those of a receiver up to its copy, and the wake-up by
\* a frame of the card.
LEMMA MovesOfReceivers ==
    ASSUME TypeOK,
           GotFrame \/ \E r \in Receivers :
              Request(r, "exit", "add") \/ Request(r, "add", "test") \/ Test(r) \/ Wait(r)
    PROVE  Moves
<1>1. CASE GotFrame
  <2>1. /\ at' \in [Receivers -> Places]
        /\ \A r \in Receivers : at'[r] = IF at[r] = "waiting" THEN "woken" ELSE at[r]
    BY <1>1 DEF GotFrame, Wake, TypeOK, Places
  <2> QED BY <1>1, <2>1 DEF GotFrame, Moves, TypeOK
<1>2. ASSUME NEW r \in Receivers,
             Request(r, "exit", "add") \/ Request(r, "add", "test") \/ Test(r) \/ Wait(r)
      PROVE  Moves
  <2>1. PICK to \in {"add", "test", "locked", "waiting", "end"} :
          /\ at' = [at EXCEPT ![r] = to]
          /\ at[r] \in {"exit", "add", "test", "locked"}
          /\ to = "end" => rxBuf = 0
    BY <1>2 DEF Request, Test, Wait, Go
  <2>2. /\ UNCHANGED <<recvKeeps, buffer, copying, mtx>>
        /\ died = "no" /\ died' \in {"no", "signal"}
    BY <1>2 DEF Request, Test, Wait, Go
  <2>3. /\ at' \in [Receivers -> Places]
        /\ at'[r] = to
        /\ \A q \in Receivers : q # r => at'[q] = at[q]
    BY <2>1 DEF TypeOK, Places
  <2> QED BY <2>1, <2>2, <2>3 DEF Moves, TypeOK
<1> QED BY <1>1, <1>2

\* A picture is being added, or none is.
LEMMA AddingType ==
    ASSUME TypeOK
    PROVE  /\ adding # NoAdd <=> adding.stage \in {"height", "width", "done"}
           /\ adding # NoAdd => adding \in Adding /\ adding.size \in Nat /\ adding.size \in Sizes
           /\ adding = NoAdd <=> adding.stage = "none"
<1>1. adding \in Adding \/ adding = NoAdd
  BY DEF TypeOK
<1>2. NoAdd.stage = "none"
  BY DEF NoAdd
<1>3. ASSUME adding \in Adding
      PROVE  /\ adding.stage \in {"height", "width", "done"} /\ adding.size \in Sizes
             /\ adding.size \in Nat
  BY <1>3, ConstAssumption DEF Adding, ConstAssumption
<1> QED BY <1>1, <1>2, <1>3

\* init() begins: the size becomes another, while whichever receiver runs goes on.
LEMMA BeginAddKeeps ==
    ASSUME Inv, NEW n \in Sizes, NEW ok \in BOOLEAN, BeginAdd(n, ok)
    PROVE  Inv'
<1> DEFINE a == [size |-> n, refused |-> ~ok, stage |-> IF ok THEN "height" ELSE "done"]
<1>1. /\ died = "no" /\ died' = "no" /\ adding = NoAdd /\ adding' = a
      /\ Len(pictures) < MaxAdds
      /\ UNCHANGED <<rgbBuf, buffer, pictures, at, copying, mtx, stops,
                     rxBuf, mapSize, mapped, mapFailed>>
      /\ overlap' = (overlap \/ Running # {})
      /\ IF ok THEN size' \in Sizes ELSE size' = size
  BY DEF BeginAdd, initKeeps
<1>2. /\ a \in Adding /\ a.stage \in {"height", "done"} /\ a.refused = ~ok
      /\ a.stage = "done" => ~ok
      /\ a # NoAdd /\ adding.stage = "none"
  BY <1>1 DEF Adding, NoAdd
<1>3. /\ Begun = Len(pictures) /\ Begun' = Len(pictures) + 1 /\ Len(pictures) \in Nat
      /\ Begun' <= MaxAdds
  BY <1>1, <1>2, ConstAssumption DEF Begun, Inv, TypeOK, ConstAssumption
<1>4. TypeOK'
  <2>1. size' \in Sizes \cup {0} /\ overlap' \in BOOLEAN
    BY <1>1 DEF Inv, TypeOK
  <2> QED BY <2>1, <1>1, <1>2 DEF Inv, TypeOK
<1>5. Counts'
  BY <1>1, <1>3 DEF Inv, Counts
<1>6. MappedWhileOn' /\ PicturesFit'
  BY <1>1 DEF Inv, MappedWhileOn, On, PicturesFit
<1>7. SizeIsMapped' /\ AddedIsMapped'
  BY <1>1, <1>2 DEF Inv, SizeIsMapped, AddedIsMapped
<1>8. OneRuns'
  BY <1>1 DEF Inv, OneRuns, Running
<1> QED BY <1>4, <1>5, <1>6, <1>7, <1>8 DEF Inv

\* The width: the size is now that of the picture.
LEMMA StoreWidthKeeps == ASSUME Inv, StoreWidth PROVE Inv'
<1> DEFINE a == [adding EXCEPT !.stage = "width"]
<1>1. /\ died = "no" /\ died' = "no" /\ adding.stage = "height" /\ adding' = a
      /\ size' = adding.size
      /\ UNCHANGED <<rgbBuf, buffer, pictures, at, copying, mtx, stops,
                     rxBuf, mapSize, mapped, mapFailed, overlap>>
  BY DEF StoreWidth, initKeeps
<1>2. /\ adding \in Adding /\ adding # NoAdd /\ adding.size \in Sizes
  BY <1>1, AddingType DEF Inv
<1>3. a \in Adding /\ a.stage = "width" /\ a.size = adding.size /\ a # NoAdd
  BY <1>2 DEF Adding, NoAdd
<1>4. TypeOK'
  BY <1>1, <1>2, <1>3 DEF Inv, TypeOK
<1>5. Counts' /\ MappedWhileOn' /\ PicturesFit'
  BY <1>1, <1>2, <1>3 DEF Inv, Counts, Begun, MappedWhileOn, On, PicturesFit
<1>6. SizeIsMapped' /\ AddedIsMapped'
  BY <1>1, <1>3 DEF Inv, SizeIsMapped, AddedIsMapped
<1>7. OneRuns'
  BY <1>1, <1>2 DEF Inv, OneRuns, Running
<1> QED BY <1>4, <1>5, <1>6, <1>7 DEF Inv

\* The mapping: it has the size there is, and leaves the older ones alone.
LEMMA MapFramesKeeps == ASSUME Inv, MapFrames PROVE Inv'
<1> DEFINE a == [adding EXCEPT !.stage = "done"]
<1>1. /\ died = "no" /\ died' = "no" /\ adding.stage = "width" /\ adding' = a
      /\ mapSize' = Append(mapSize, size)
      /\ \/ rxBuf' = Len(mapSize') /\ mapped' = mapped \cup {rxBuf'} /\ mapFailed' = mapFailed
         \/ rxBuf' \in {0, Len(mapSize')} /\ mapFailed' = TRUE /\ mapped' = mapped
      /\ UNCHANGED <<rgbBuf, buffer, pictures, at, copying, mtx, stops, size, overlap>>
  BY DEF MapFrames, Kept, initKeeps
<1>2. /\ adding \in Adding /\ adding # NoAdd /\ adding.size \in Sizes
      /\ a \in Adding /\ a.stage = "done" /\ a.size = adding.size /\ a # NoAdd
  <2>1. adding \in Adding /\ adding # NoAdd /\ adding.size \in Sizes
    BY <1>1, AddingType DEF Inv
  <2> QED BY <2>1 DEF Adding, NoAdd
<1>3. /\ mapSize' \in Seq(Nat) /\ Len(mapSize') = Len(mapSize) + 1 /\ Len(mapSize) \in Nat
      /\ mapSize'[Len(mapSize')] = size
      /\ \A k \in 1 .. Len(mapSize) : mapSize'[k] = mapSize[k]
      /\ Len(mapSize') \notin mapped /\ Len(mapSize') # 0 /\ 0 \notin mapped
  <2>1. mapSize \in Seq(Nat) /\ size \in Nat /\ mapped \subseteq 1 .. Len(mapSize)
    BY Numbers DEF Inv
  <2> QED BY <1>1, <2>1
<1>4. TypeOK'
  <2>1. rxBuf' \in 0 .. Len(mapSize') /\ mapped' \subseteq 1 .. Len(mapSize')
    BY <1>1, <1>3 DEF Inv, TypeOK
  <2>2. mapFailed' \in BOOLEAN
    BY <1>1 DEF Inv, TypeOK
  <2> QED BY <2>1, <2>2, <1>1, <1>2, <1>3 DEF Inv, TypeOK
<1>5. Counts' /\ PicturesFit'
  BY <1>1, <1>2 DEF Inv, TypeOK, Counts, Begun, PicturesFit
<1>6. MappedWhileOn'
  BY <1>1, <1>3 DEF Inv, MappedWhileOn, On
<1>7. SizeIsMapped' /\ AddedIsMapped'
  BY <1>1, <1>2, <1>3 DEF Inv, SizeIsMapped, AddedIsMapped
<1>8. OneRuns'
  BY <1>1, <1>2 DEF Inv, OneRuns, Running
<1> QED BY <1>4, <1>5, <1>6, <1>7, <1>8 DEF Inv

\* stop(): the mapping goes, and the invariant says nothing of it any more.
LEMMA StopKeeps == ASSUME Inv, Stop PROVE Inv'
<1>1. /\ died = "no" /\ stops' = stops + 1 /\ stops' > 0
      /\ mapped' \subseteq mapped /\ rxBuf' = 0
      /\ adding = NoAdd
      /\ UNCHANGED <<died, size, rgbBuf, buffer, adding, pictures, copying, mtx,
                     mapSize, mapFailed, overlap>>
  BY DEF Stop, Inv, TypeOK
<1>2. /\ at' \in [Receivers -> Places]
      /\ \A r \in Receivers : at'[r] = IF at[r] = "waiting" THEN "woken" ELSE at[r]
  BY DEF Stop, Wake, Inv, TypeOK, Places
<1>3. TypeOK'
  BY <1>1, <1>2, ConstAssumption DEF Stop, Inv, TypeOK, Places, ConstAssumption
<1>4. Counts'
  BY <1>1, <1>2 DEF Inv, Counts, Begun
<1>5. MappedWhileOn' /\ AddedIsMapped' /\ SizeIsMapped'
  BY <1>1, AddingType DEF MappedWhileOn, On, AddedIsMapped, SizeIsMapped, Inv, TypeOK
<1>6. Running' = Running
  BY <1>2 DEF Running
<1>7. OneRuns'
  BY <1>1, <1>2, <1>6 DEF Inv, OneRuns, Running
<1>8. PicturesFit'
  BY <1>1 DEF Inv, PicturesFit
<1> QED BY <1>3, <1>4, <1>5, <1>7, <1>8 DEF Inv

\* The number of the receiver that start() creates, if it creates one.
Fresh == Len(buffer) + 1

\* start(): a buffer, a receiver and a picture are added, each with the next
\* number.
LEMMA StartKeeps == ASSUME Inv, Start PROVE Inv'
<1> DEFINE p == [size |-> adding.size, buf |-> rgbBuf', refused |-> adding.refused]
           b == [size |-> size, freed |-> FALSE]
<1>1. /\ died = "no" /\ adding.stage = "done" /\ adding' = NoAdd
      /\ pictures' = Append(pictures, p)
      /\ UNCHANGED <<died, size, rxBuf, mapSize, mapped, copying, mtx, mapFailed, overlap, stops>>
      /\ \/ rxBuf = 0 /\ UNCHANGED <<rgbBuf, buffer, at>>
         \/ /\ rxBuf # 0 /\ buffer' = Append(buffer, b)
            /\ rgbBuf' = Len(buffer') /\ at' = [at EXCEPT ![Len(buffer')] = "exit"]
  BY DEF Start, Pictured, Allocated
<1>2. /\ adding \in Adding /\ adding # NoAdd
      /\ size \in Nat /\ b \in BufferType
      /\ buffer \in Seq(BufferType) /\ pictures \in Seq(Picture)
      /\ Len(buffer) \in Nat /\ Len(pictures) \in Nat
  <2>1. adding \in Adding /\ adding # NoAdd
    BY <1>1, AddingType DEF Inv
  <2>2. size \in Nat /\ buffer \in Seq(BufferType) /\ Len(buffer) \in Nat
    BY Numbers DEF Inv
  <2>3. pictures \in Seq(Picture)
    BY DEF Inv, TypeOK
  <2>5. Len(pictures) \in Nat
    BY ONLY <2>3
  <2>4. b \in BufferType
    BY <2>2 DEF BufferType
  <2> QED BY <2>1, <2>2, <2>3, <2>4, <2>5
<1>3. /\ Begun = Len(pictures) + 1 /\ Len(pictures') = Len(pictures) + 1
      /\ Begun' = Begun
      /\ Len(buffer) <= Len(pictures) /\ Begun <= MaxAdds /\ rgbBuf = Len(buffer)
  BY <1>1, <1>2 DEF Inv, Counts, Begun
<1>4. /\ buffer' \in Seq(BufferType) /\ Len(buffer') \in {Len(buffer), Fresh}
      /\ rgbBuf' = Len(buffer')
      /\ \A k \in 1 .. Len(buffer) : buffer'[k] = buffer[k]
      /\ buffer' = buffer => rxBuf = 0 /\ at' = at
      /\ buffer' # buffer =>
            /\ rxBuf # 0 /\ Len(buffer') = Fresh /\ buffer'[Fresh] = b
            /\ at' = [at EXCEPT ![Fresh] = "exit"]
  <2>1. CASE rxBuf = 0
    BY <1>1, <1>2, <1>3, <2>1
  <2>2. CASE rxBuf # 0
    <3>1. buffer' = Append(buffer, b) /\ rgbBuf' = Len(buffer') /\ at' = [at EXCEPT ![Len(buffer')] = "exit"]
      BY <1>1, <2>2
    <3>2. /\ buffer' \in Seq(BufferType) /\ Len(buffer') = Fresh /\ buffer'[Fresh] = b
          /\ \A k \in 1 .. Len(buffer) : buffer'[k] = buffer[k]
      BY <1>2, <3>1 DEF Fresh
    <3>3. buffer' # buffer
      BY <1>2, <3>2 DEF Fresh
    <3> QED BY <2>2, <3>1, <3>2, <3>3
  <2> QED BY <2>1, <2>2
<1>5. /\ Fresh \in Receivers /\ Len(buffer') <= MaxAdds /\ Len(buffer') <= Len(pictures')
      /\ Len(buffer') \in Nat /\ Len(buffer) <= Len(buffer')
  BY <1>2, <1>3, <1>4, ConstAssumption DEF Fresh, Receivers, ConstAssumption
<1>6. /\ at' \in [Receivers -> Places]
      /\ \A r \in Receivers : IF r = Fresh /\ buffer' # buffer THEN at'[r] = "exit"
                                                        ELSE at'[r] = at[r]
  BY <1>4, <1>5 DEF Inv, TypeOK, Places
<1>7. p \in Picture /\ p.buf = Len(buffer')
  <2>1. rgbBuf' \in Receivers \cup {0}
    BY <1>4, <1>5 DEF Receivers
  <2> QED BY <1>2, <1>4, <2>1 DEF Picture, Adding
<1>8. /\ pictures' \in Seq(Picture)
      /\ \A k \in DOMAIN pictures' :
            \/ k \in DOMAIN pictures /\ pictures'[k] = pictures[k]
            \/ pictures'[k] = p
  BY <1>1, <1>2, <1>7
<1>9. TypeOK'
  <2>1. rgbBuf' \in 0 .. Len(buffer')
    BY <1>4, <1>5
  <2> QED BY <2>1, <1>1, <1>4, <1>6, <1>8 DEF Inv, TypeOK, Places, BufferType
<1>10. Counts'
  <2>1. \A r \in Receivers : at'[r] = "none" <=> r > Len(buffer')
    <3>1. CASE buffer' = buffer
      BY <3>1, <1>6 DEF Inv, Counts
    <3>2. CASE buffer' # buffer
      BY <3>2, <1>2, <1>4, <1>6 DEF Inv, Counts, Fresh, Receivers
    <3> QED BY <3>1, <3>2
  <2>2. \A r \in Receivers : at'[r] = "copying" => copying'[r].buf \in 1 .. Len(buffer')
    <3> SUFFICES ASSUME NEW r \in Receivers, at'[r] = "copying"
                 PROVE  copying[r].buf \in 1 .. Len(buffer')
      BY <1>1
    <3>1. copying[r].buf \in 1 .. Len(buffer)
      BY <1>6 DEF Inv, Counts
    <3> QED BY <3>1, <1>2, <1>5
  <2>3. \A k \in DOMAIN pictures' : pictures'[k].buf <= Len(buffer')
    <3> SUFFICES ASSUME NEW k \in DOMAIN pictures' PROVE pictures'[k].buf <= Len(buffer')
      OBVIOUS
    <3>1. CASE pictures'[k] = p
      BY <3>1, <1>5, <1>7
    <3>2. CASE k \in DOMAIN pictures /\ pictures'[k] = pictures[k]
      <4>1. pictures[k] \in Picture /\ pictures[k].buf <= Len(buffer)
        BY <3>2, <1>2 DEF Inv, Counts
      <4>2. pictures[k].buf \in Nat
        BY <4>1 DEF Picture, Receivers
      <4> QED BY <3>2, <4>1, <4>2, <1>2, <1>5
    <3> QED BY <3>1, <3>2, <1>8
  <2>4. Begun' <= MaxAdds
    BY <1>1, <1>3 DEF Inv, Counts
  <2> QED BY <2>1, <2>2, <2>3, <2>4, <1>4, <1>5 DEF Counts
<1>11. MappedWhileOn'
  <2> SUFFICES ASSUME On
               PROVE  /\ rxBuf # 0 => rxBuf \in mapped
                      /\ buffer' # <<>> => rxBuf # 0
                      /\ \A r \in Receivers : at'[r] # "end"
                      /\ \A r \in Receivers : at'[r] = "copying" => copying[r].map \in mapped
                      /\ \A k \in 1 .. Len(buffer') : ~buffer'[k].freed
                      /\ died # "unmapped"
    BY <1>1 DEF MappedWhileOn, On
  <2>1. \A k \in 1 .. Len(buffer') : k \in 1 .. Len(buffer) \/ (k = Fresh /\ buffer'[k] = b)
    BY <1>2, <1>4 DEF Fresh
  <2>2. /\ rxBuf # 0 => rxBuf \in mapped
        /\ buffer # <<>> => rxBuf # 0
        /\ \A r \in Receivers : at[r] # "end"
        /\ \A r \in Receivers : at[r] = "copying" => copying[r].map \in mapped
        /\ \A k \in 1 .. Len(buffer) : ~buffer[k].freed
        /\ died # "unmapped"
    BY DEF Inv, MappedWhileOn
  <2>3. buffer' # <<>> => rxBuf # 0
    BY <1>4, <2>2
  <2>4. /\ \A r \in Receivers : at'[r] # "end"
        /\ \A r \in Receivers : at'[r] = "copying" => copying[r].map \in mapped
    BY <1>6, <2>2
  <2>5. \A k \in 1 .. Len(buffer') : ~buffer'[k].freed
    <3>1. b.freed = FALSE
      OBVIOUS
    <3> QED BY <1>4, <2>1, <2>2, <3>1
  <2> QED BY <2>2, <2>3, <2>4, <2>5
<1>12. OneRuns'
  <2> SUFFICES ASSUME ~overlap
               PROVE  /\ \A r \in Running' :
                            /\ r = Len(buffer')
                            /\ ~buffer'[r].freed /\ buffer'[r].size = size
                            /\ at'[r] # "copying"
                      /\ died \notin {"buffer", "past end"}
    BY <1>1 DEF OneRuns
  <2>1. Running = {}
    BY <1>2 DEF Inv, OneRuns
  <2>2. \A r \in Running' : r = Fresh /\ buffer' # buffer /\ at'[r] = "exit"
    BY <2>1, <1>6 DEF Running
  <2> QED BY <2>2, <1>1, <1>4
<1>13. AddedIsMapped' /\ SizeIsMapped'
  BY <1>1 DEF Inv, AddedIsMapped, SizeIsMapped, NoAdd
<1>14. PicturesFit'
  <2> SUFFICES ASSUME NEW k \in DOMAIN pictures', ~pictures'[k].refused, ~mapFailed
               PROVE  /\ pictures'[k].buf # 0
                      /\ buffer'[pictures'[k].buf].size >= pictures'[k].size
                      /\ buffer'[pictures'[k].buf].freed => stops > 0
    BY <1>1 DEF PicturesFit
  <2>1. CASE pictures'[k] = p
    <3>1. rxBuf # 0 /\ size = adding.size
      BY <2>1, <1>1 DEF Inv, AddedIsMapped
    <3>2. buffer' # buffer
      BY <3>1, <1>1, <1>2
    <3>3. p.buf = Fresh /\ p.size = size /\ buffer'[Fresh] = b /\ Fresh # 0
      BY <3>1, <3>2, <1>2, <1>4, <1>7 DEF Fresh
    <3>4. b.size = size /\ b.freed = FALSE /\ size >= size
      BY <1>2
    <3>5. /\ pictures'[k].buf = Fresh /\ pictures'[k].size = size
          /\ buffer'[pictures'[k].buf].size = size
          /\ buffer'[pictures'[k].buf].freed = FALSE
      BY <2>1, <3>3, <3>4
    <3> QED BY <3>3, <3>4, <3>5
  <2>2. CASE k \in DOMAIN pictures /\ pictures'[k] = pictures[k]
    <3>1. /\ pictures[k] \in Picture /\ pictures[k].buf <= Len(buffer)
          /\ pictures[k].buf # 0
          /\ buffer[pictures[k].buf].size >= pictures[k].size
          /\ buffer[pictures[k].buf].freed => stops > 0
      BY <2>2, <1>2 DEF Inv, Counts, PicturesFit
    <3>2. pictures[k].buf \in 1 .. Len(buffer)
      BY <3>1, <1>2 DEF Picture, Receivers
    <3> QED BY <2>2, <3>1, <3>2, <1>4
  <2> QED BY <2>1, <2>2, <1>8
<1> QED BY <1>9, <1>10, <1>11, <1>12, <1>13, <1>14 DEF Inv

\* A copy takes the mapping and the buffer that are there.
LEMMA BeginCopyKeeps == ASSUME Inv, NEW r \in Receivers, BeginCopy(r) PROVE Inv'
<1> DEFINE c == [map |-> rxBuf, buf |-> rgbBuf, size |-> size]
<1>1. /\ died = "no" /\ at[r] = "woken"
      /\ UNCHANGED <<died, size, rxBuf, mapped, rgbBuf, adding, pictures, mapSize, mapFailed,
                     overlap, stops, buffer>>
      /\ mtx' = r
      /\ copying' = [copying EXCEPT ![r] = c]
      /\ at' = [at EXCEPT ![r] = "copying"]
  BY DEF BeginCopy, Go, Copied, recvKeeps
<1>2. /\ r \in 1 .. Len(buffer) /\ Len(buffer) \in Receivers /\ rgbBuf = Len(buffer)
      /\ buffer # <<>> /\ Len(buffer) \in 1 .. Len(buffer)
  <2>1. r \in 1 .. Len(buffer) /\ Len(buffer) \in Receivers /\ rgbBuf = Len(buffer)
    BY <1>1, RunningIsStarted DEF Inv
  <2> QED BY <2>1 DEF Receivers
<1>3. /\ size \in Nat /\ rxBuf \in Nat
      /\ c \in [map : Nat, buf : Receivers \cup {0}, size : Nat]
  <2>1. size \in Nat /\ rxBuf \in Nat
    BY Numbers DEF Inv
  <2>2. rgbBuf \in Receivers \cup {0}
    BY <1>2
  <2> QED BY <2>1, <2>2
<1>4. /\ at' \in [Receivers -> Places] /\ at'[r] = "copying" /\ copying'[r] = c
      /\ copying' \in [Receivers -> [map : Nat, buf : Receivers \cup {0}, size : Nat]]
      /\ \A q \in Receivers : q # r => at'[q] = at[q] /\ copying'[q] = copying[q]
  BY <1>1, <1>3 DEF Inv, TypeOK, Places
<1>5. TypeOK'
  BY <1>1, <1>4 DEF Inv, TypeOK, Places
<1>6. Counts'
  BY <1>1, <1>2, <1>4 DEF Inv, Counts, Begun
<1>7. MappedWhileOn'
  BY <1>1, <1>2, <1>4 DEF Inv, MappedWhileOn, On
<1>8. Running' = Running /\ r \in Running
  BY <1>1, <1>4 DEF Running
<1>9. OneRuns'
  <2>1. ~overlap => adding = NoAdd
    BY <1>8 DEF Inv, OneRuns
  <2>2. ~overlap /\ rxBuf \in mapped => mapSize[rxBuf] = size
    BY <2>1 DEF Inv, SizeIsMapped, NoAdd
  <2> QED BY <1>1, <1>2, <1>4, <1>8, <2>2 DEF Inv, OneRuns, Running
<1>10. AddedIsMapped' /\ SizeIsMapped' /\ PicturesFit'
  BY <1>1 DEF Inv, AddedIsMapped, SizeIsMapped, PicturesFit
<1> QED BY <1>5, <1>6, <1>7, <1>9, <1>10 DEF Inv

\* A copy does harm only where the invariant does not say that all is well.
LEMMA EndCopyKeeps == ASSUME Inv, NEW r \in Receivers, EndCopy(r) PROVE Inv'
<1>1. /\ died = "no" /\ at[r] = "copying"
      /\ UNCHANGED <<size, rxBuf, mapped, rgbBuf, adding, pictures, mapSize, mapFailed,
                     overlap, stops, buffer>>
      /\ mtx' = 0 /\ died' = Harm(copying[r])
      /\ copying' = [copying EXCEPT ![r] = NoCopy]
      /\ at' = [at EXCEPT ![r] = "test"]
  BY DEF EndCopy, Go, recvKeeps
<1>2. /\ at' \in [Receivers -> Places] /\ at'[r] = "test"
      /\ copying' \in [Receivers -> [map : Nat, buf : Receivers \cup {0}, size : Nat]]
      /\ \A q \in Receivers : q # r => at'[q] = at[q] /\ copying'[q] = copying[q]
  BY <1>1, ConstAssumption DEF Inv, TypeOK, Places, NoCopy, ConstAssumption
<1>3. died' \in {"no", "unmapped", "past end", "buffer"}
  BY <1>1 DEF Harm
<1>4. TypeOK'
  BY <1>1, <1>2, <1>3 DEF Inv, TypeOK, Places
<1>5. Counts'
  BY <1>1, <1>2 DEF Inv, Counts, Begun
<1>6. MappedWhileOn'
  BY <1>1, <1>2 DEF Inv, MappedWhileOn, On, Harm
<1>7. Running' = Running /\ r \in Running
  BY <1>1, <1>2 DEF Running
<1>8. ~overlap => died' \notin {"buffer", "past end"}
  <2> SUFFICES ASSUME ~overlap PROVE died' \notin {"buffer", "past end"}
    OBVIOUS
  <2>1. /\ ~buffer[r].freed /\ buffer[r].size = size /\ copying[r].buf = r /\ copying[r].size = size
        /\ copying[r].map \in mapped => mapSize[copying[r].map] = size
    BY <1>1, <1>7 DEF Inv, OneRuns
  <2>2. size \in Nat
    BY Numbers DEF Inv
  <2>3. CASE copying[r].map \notin mapped
    BY <1>1, <2>3 DEF Harm
  <2>4. CASE copying[r].map \in mapped
    <3>1. /\ ~(mapSize[copying[r].map] < copying[r].size)
          /\ ~(buffer[copying[r].buf].size < copying[r].size)
          /\ ~buffer[copying[r].buf].freed
      BY <2>1, <2>2, <2>4
    <3> QED BY <1>1, <2>4, <3>1 DEF Harm
  <2> QED BY <2>3, <2>4
<1>9. OneRuns'
  <2>1. ASSUME ~overlap, NEW q \in Running
        PROVE  /\ q = Len(buffer) /\ ~buffer[q].freed /\ buffer[q].size = size
               /\ at'[q] = "copying" =>
                     /\ copying'[q].buf = q /\ copying'[q].size = size
                     /\ copying'[q].map \in mapped => mapSize[copying'[q].map] = size
    <3>1. /\ q = Len(buffer) /\ ~buffer[q].freed /\ buffer[q].size = size
          /\ at[q] = "copying" =>
                /\ copying[q].buf = q /\ copying[q].size = size
                /\ copying[q].map \in mapped => mapSize[copying[q].map] = size
      BY <2>1 DEF Inv, OneRuns
    <3>2. at'[q] = "copying" => at'[q] = at[q] /\ copying'[q] = copying[q]
      BY <1>2 DEF Running
    <3> QED BY <3>1, <3>2
  <2>2. ~overlap /\ adding # NoAdd => Running = {}
    BY DEF Inv, OneRuns
  <2> QED BY <1>1, <1>7, <1>8, <2>1, <2>2 DEF OneRuns
<1>10. AddedIsMapped' /\ SizeIsMapped' /\ PicturesFit'
  BY <1>1 DEF Inv, AddedIsMapped, SizeIsMapped, PicturesFit
<1> QED BY <1>4, <1>5, <1>6, <1>9, <1>10 DEF Inv

\* A receiver ends and frees what rgbBuf points to, which is its own buffer
\* unless a picture was added beside it.
LEMMA EndKeeps == ASSUME Inv, NEW r \in Receivers, End(r) PROVE Inv'
<1>1. /\ died = "no" /\ at[r] = "end"
      /\ UNCHANGED <<size, rxBuf, mapped, rgbBuf, adding, pictures, mapSize, mapFailed,
                     overlap, stops, copying, mtx>>
      /\ buffer' = [buffer EXCEPT ![rgbBuf].freed = TRUE]
      /\ died' = IF buffer[rgbBuf].freed THEN "buffer" ELSE "no"
      /\ at' = [at EXCEPT ![r] = "ended"]
  BY DEF End, Go, recvKeeps
<1>2. /\ r \in 1 .. Len(buffer) /\ rgbBuf = Len(buffer) /\ Len(buffer) \in Nat
      /\ rgbBuf \in 1 .. Len(buffer)
  <2>1. r \in 1 .. Len(buffer) /\ Len(buffer) \in Receivers /\ rgbBuf = Len(buffer)
    BY <1>1, RunningIsStarted DEF Inv
  <2> QED BY <2>1 DEF Receivers
<1>3. ~On
  BY <1>1 DEF Inv, MappedWhileOn
<1>4. /\ at' \in [Receivers -> Places] /\ at'[r] = "ended"
      /\ \A q \in Receivers : q # r => at'[q] = at[q]
  BY <1>1 DEF Inv, TypeOK, Places
<1>5. /\ buffer' \in Seq(BufferType) /\ Len(buffer') = Len(buffer)
      /\ \A k \in 1 .. Len(buffer) : buffer'[k].size = buffer[k].size
      /\ \A k \in 1 .. Len(buffer) : k # rgbBuf => buffer'[k] = buffer[k]
  <2>1. buffer \in Seq(BufferType)
    BY DEF Inv, TypeOK, BufferType
  <2>2. buffer[rgbBuf] \in BufferType
    BY <1>2, <2>1
  <2>3. [buffer[rgbBuf] EXCEPT !.freed = TRUE] \in BufferType
    BY <2>2 DEF BufferType
  <2> QED BY <1>1, <1>2, <2>1, <2>2, <2>3 DEF BufferType
<1>6. TypeOK'
  BY <1>1, <1>4, <1>5 DEF Inv, TypeOK, Places, BufferType
<1>7. Counts'
  BY <1>1, <1>4, <1>5 DEF Inv, Counts, Begun
<1>8. MappedWhileOn'
  BY <1>1, <1>3 DEF MappedWhileOn, On
<1>9. OneRuns'
  <2> SUFFICES ASSUME ~overlap
               PROVE  /\ \A q \in Running' : FALSE
                      /\ adding # NoAdd => Running' = {}
                      /\ died' \notin {"buffer", "past end"}
    BY <1>1 DEF OneRuns
  <2>1. r \in Running
    BY <1>1 DEF Running
  <2>2. ~buffer[rgbBuf].freed /\ \A q \in Running : q = r
    BY <1>2, <2>1 DEF Inv, OneRuns
  <2>3. Running' = {}
    BY <1>4, <2>2 DEF Running
  <2> QED BY <1>1, <2>2, <2>3
<1>10. AddedIsMapped' /\ SizeIsMapped'
  BY <1>1 DEF Inv, AddedIsMapped, SizeIsMapped
<1>11. PicturesFit'
  <2> SUFFICES ASSUME NEW k \in DOMAIN pictures, ~pictures[k].refused, ~mapFailed
               PROVE  /\ pictures[k].buf # 0
                      /\ buffer'[pictures[k].buf].size >= pictures[k].size
                      /\ stops > 0
    BY <1>1 DEF PicturesFit
  <2>1. /\ pictures[k] \in Picture /\ pictures[k].buf <= Len(buffer)
        /\ pictures[k].buf # 0
        /\ buffer[pictures[k].buf].size >= pictures[k].size
    BY Numbers DEF Inv, Counts, PicturesFit
  <2>2. pictures[k].buf \in 1 .. Len(buffer)
    BY <2>1, <1>2 DEF Picture, Receivers
  <2>3. stops > 0
    BY <1>3, Numbers DEF On, Inv
  <2> QED BY <2>1, <2>2, <2>3, <1>5
<1> QED BY <1>6, <1>7, <1>8, <1>9, <1>10, <1>11 DEF Inv

-----------------------------------------------------------------------------
LEMMA InvStep == Inv /\ [Next]_vars => Inv'
<1> SUFFICES ASSUME Inv, [Next]_vars PROVE Inv'
  OBVIOUS
<1>1. ASSUME NEW n \in Sizes, NEW ok \in BOOLEAN, BeginAdd(n, ok) PROVE Inv'
  BY <1>1, BeginAddKeeps
<1>7. CASE StoreWidth \/ MapFrames
  BY <1>7, StoreWidthKeeps, MapFramesKeeps
<1>2. CASE Start
  BY <1>2, StartKeeps
<1>3. CASE Stop
  BY <1>3, StopKeeps
<1>4. ASSUME NEW r \in Receivers, Receive(r) PROVE Inv'
  <2>1. CASE Request(r, "exit", "add") \/ Request(r, "add", "test") \/ Test(r) \/ Wait(r)
    BY <2>1, MovesOfReceivers, MovesKeep DEF Inv
  <2> QED BY <1>4, <2>1, BeginCopyKeeps, EndCopyKeeps, EndKeeps DEF Receive
<1>5. CASE GotFrame
  BY <1>5, MovesOfReceivers, MovesKeep DEF Inv
<1>6. CASE UNCHANGED vars
  <2>1. TypeOK'
    BY <1>6 DEF vars, Inv, TypeOK
  <2>2. Counts' /\ MappedWhileOn' /\ SizeIsMapped'
    BY <1>6 DEF vars, Inv, Counts, Begun, MappedWhileOn, On, SizeIsMapped
  <2>3. OneRuns' /\ AddedIsMapped' /\ PicturesFit'
    BY <1>6 DEF vars, Inv, OneRuns, Running, AddedIsMapped, PicturesFit
  <2> QED BY <2>1, <2>2, <2>3 DEF Inv
<1> QED BY <1>1, <1>2, <1>3, <1>4, <1>5, <1>6, <1>7 DEF Next

LEMMA Invariant == Spec => []Inv
  BY InvInit, InvStep, PTL DEF Spec

\* Every variable of the receiver keeps its type, whatever is refused and however
\* often it is stopped.
THEOREM TypeCorrect == Spec => []TypeOK
<1>1. Inv => TypeOK
  BY DEF Inv
<1> QED BY <1>1, Invariant, PTL

\* No receiver reads an address that is not mapped, before the receiver is first
\* stopped and unless mmap() was refused, and none reads past the end of its
\* mapping, unless a picture was added while a receiver ran.
THEOREM CopiesAreMapped == Spec => []CopiesWhatIsMapped
<1>1. Inv => CopiesWhatIsMapped
  <2> SUFFICES ASSUME Inv PROVE CopiesWhatIsMapped
    OBVIOUS
  <2>1. stops \in Nat
    BY Numbers DEF Inv
  <2>2. ~On => stops > 0 \/ mapFailed
    BY <2>1 DEF On
  <2> QED BY <2>2 DEF Inv, MappedWhileOn, OneRuns, CopiesWhatIsMapped
<1> QED BY <1>1, Invariant, PTL

\* No receiver writes past its buffer, into a freed one, or frees one twice,
\* unless a picture was added while a receiver ran.
THEOREM BuffersAreOwn == Spec => []BufferIsOwn
<1>1. Inv => BufferIsOwn
  BY DEF Inv, OneRuns, BufferIsOwn
<1> QED BY <1>1, Invariant, PTL

\* The renderer draws a picture from a buffer that is large enough for it and
\* not freed before a stop.
THEOREM PicturesKeepFitting == Spec => []PicturesFit
<1>1. Inv => PicturesFit
  BY DEF Inv
<1> QED BY <1>1, Invariant, PTL

-----------------------------------------------------------------------------
(* GroupRequests: requests about groups.                                     *)

\* No two callers have been in the operation at a time, and none has given it up
\* while its thread ran: the calls of the operation follow one another.
Clear(o) == o \notin shared \cup late

\* A thread that runs has its caller waiting for it ...
RunningAsks ==
    \A n \in Calls : ThreadRuns(n) /\ Clear(call[n].op) => Asking(n)

\* ... of whom there is one,
OneAsks ==
    \A m, n \in Calls :
        Asking(m) /\ Asking(n) /\ call[m].op = call[n].op /\ Clear(call[n].op) => m = n

\* and whose block it is: it holds the group of that call, and no answer but
\* that of its own thread, once that has answered.
BlockIsTheirs ==
    \A n \in Calls :
        Asking(n) /\ Clear(call[n].op) =>
            /\ block[call[n].op].grp = call[n].grp
            /\ block[call[n].op].retv \in {Unanswered, call[n].grp}
            /\ ThreadRuns(n) => block[call[n].op].retv = Unanswered
            /\ helper[n].at = "asking" => helper[n].grp = call[n].grp

\* An answer in a block came in the time of every call that still looks for one
\* there, Clear or not: whoever asks last has cleared the block.
AnswerCameIn ==
    \A n \in Calls : Asking(n) /\ block[call[n].op].retv # Unanswered => n \in met

\* The inductive invariant.  Except for AnswerCameIn it speaks of the operations
\* that are Clear only, and one that is not stays so.
RequestInv ==
    /\ RequestTypeOK /\ RunningAsks /\ OneAsks /\ BlockIsTheirs /\ AnswerIsOwn
    /\ AnswerCameIn /\ AnswerIsFresh

Entries == {NoCall} \cup [by : Callers, op : Ops, grp : Groups,
                          at : {"asking", "returned"}, got : Answers]

\* A call that was made has the fields of one.
LEMMA MadeCalls ==
    ASSUME RequestTypeOK, NEW n \in Calls, call[n] # NoCall
    PROVE  /\ call[n] \in [by : Callers, op : Ops, grp : Groups,
                           at : {"asking", "returned"}, got : Answers]
           /\ n <= made
  BY DEF RequestTypeOK, Calls

\* A call in progress, or with a thread that runs, was made.
LEMMA AskingIsMade ==
    ASSUME RequestTypeOK, NEW n \in Calls, Asking(n) \/ ThreadRuns(n)
    PROVE  call[n] # NoCall
  BY DEF RequestTypeOK, Asking, ThreadRuns, NoCall

LEMMA RequestInvInit == RequestInit => RequestInv
<1> SUFFICES ASSUME RequestInit PROVE RequestInv
  OBVIOUS
<1>1. RequestTypeOK
  <2>1. \A n \in Calls : n > made /\ call[n] = NoCall /\ helper[n].at = "none"
    BY DEF RequestInit, Calls
  <2>2. /\ made \in 0 .. MaxCalls
        /\ call \in [Calls -> {NoCall}]
        /\ helper \in [Calls -> [at : {"none", "begun", "asking", "ended"}, grp : Answers]]
        /\ block \in [Ops -> [grp : Answers, retv : Answers]]
    BY RequestAssumption DEF RequestAssumption, RequestInit, Answers
  <2> QED BY <2>1, <2>2 DEF RequestInit, RequestTypeOK
<1>2. /\ RunningAsks /\ OneAsks /\ BlockIsTheirs /\ AnswerIsOwn
      /\ AnswerCameIn /\ AnswerIsFresh
  BY DEF RequestInit, RunningAsks, OneAsks, BlockIsTheirs, AnswerIsOwn, AnswerCameIn,
         AnswerIsFresh, ThreadRuns, Asking, NoCall
<1> QED BY <1>1, <1>2 DEF RequestInv

\* A new call clears the answer and writes its group.  Were another in progress
\* on the same block, or its thread, the operation would not be Clear.
LEMMA AskKeeps ==
    ASSUME RequestInv,
           NEW c \in Callers, NEW o \in Ops, NEW g \in Groups, Ask(c, o, g)
    PROVE  RequestInv'
<1> DEFINE k == made + 1
           new == [by |-> c, op |-> o, grp |-> g, at |-> "asking", got |-> Unanswered]
<1>1. /\ k \in Calls /\ made \in Nat /\ call[k] = NoCall /\ helper[k].at = "none"
      /\ call' = [call EXCEPT ![k] = new]
      /\ helper' = [helper EXCEPT ![k].at = "begun"]
      /\ made' = k
  BY RequestAssumption DEF Ask, RequestInv, RequestTypeOK, RequestAssumption, Calls
<1>2. /\ call'[k] = new /\ helper'[k].at = "begun"
      /\ \A n \in Calls : n # k => call'[n] = call[n] /\ helper'[n] = helper[n]
  BY <1>1 DEF RequestInv, RequestTypeOK
<1>3. new # NoCall /\ new \in Entries
  BY RequestAssumption DEF NoCall, Entries, Answers, RequestAssumption
<1>4. /\ block' = [block EXCEPT ![o] = [grp |-> g, retv |-> Unanswered]]
      /\ block'[o] = [grp |-> g, retv |-> Unanswered]
      /\ \A p \in Ops : p # o => block'[p] = block[p]
  BY DEF Ask, Cleared, RequestInv, RequestTypeOK
<1>5. /\ shared \subseteq shared' /\ late' = late /\ met' = met
      /\ (\E n \in Calls : Asking(n) /\ call[n].op = o) => o \in shared'
      /\ shared' \subseteq Ops
  BY DEF Ask, RequestInv, RequestTypeOK
<1>6. RequestTypeOK'
  <2>1. made' \in 0 .. MaxCalls
    BY <1>1, RequestAssumption DEF Calls, RequestAssumption
  <2>2. call' \in [Calls -> Entries]
    BY <1>1, <1>3 DEF RequestInv, RequestTypeOK, Entries
  <2>3. helper' \in [Calls -> [at : {"none", "begun", "asking", "ended"}, grp : Answers]]
    BY <1>1 DEF RequestInv, RequestTypeOK
  <2>4. \A n \in Calls : /\ (n > made') <=> (call'[n] = NoCall)
                         /\ (n > made') <=> (helper'[n].at = "none")
    BY <1>1, <1>2, <1>3 DEF RequestInv, RequestTypeOK, Calls
  <2>5. block' \in [Ops -> [grp : Answers, retv : Answers]]
    BY <1>4 DEF RequestInv, RequestTypeOK, Answers
  <2>6. /\ handled' \in BOOLEAN /\ killed' \in BOOLEAN /\ late' \subseteq Ops
        /\ met' \subseteq Calls
    BY DEF RequestInv, RequestTypeOK, Ask
  <2> QED BY <2>1, <2>2, <2>3, <2>4, <2>5, <2>6, <1>5 DEF RequestTypeOK, Entries
<1>7. \A n \in Calls : /\ Asking(n)' <=> n = k \/ Asking(n)
                       /\ ThreadRuns(n)' <=> n = k \/ ThreadRuns(n)
                       /\ Asking(n) \/ ThreadRuns(n) => n # k /\ call[n].op \in Ops
  BY <1>1, <1>2, MadeCalls, AskingIsMade DEF Asking, ThreadRuns, NoCall, RequestInv
<1>8. \A p : Clear(p)' => Clear(p)
  BY <1>5 DEF Clear
<1>9. \A n \in Calls : Asking(n) /\ Clear(o)' => call[n].op # o
  BY <1>5 DEF Clear
<1>10. RunningAsks'
  BY <1>2, <1>7, <1>8 DEF RunningAsks, RequestInv
<1>11. OneAsks'
  BY <1>2, <1>7, <1>8, <1>9 DEF OneAsks, RequestInv
<1>12. BlockIsTheirs'
  BY <1>2, <1>4, <1>7, <1>8, <1>9 DEF BlockIsTheirs, RequestInv
<1>13. AnswerIsOwn'
  BY <1>2, <1>8 DEF AnswerIsOwn, RequestInv, Clear
<1>14. AnswerCameIn'
  <2> SUFFICES ASSUME NEW n \in Calls, Asking(n)', block'[call'[n].op].retv # Unanswered
               PROVE  n \in met
    BY <1>5 DEF AnswerCameIn
  <2>1. n # k
    BY <1>2, <1>4
  <2>2. Asking(n) /\ call'[n] = call[n] /\ call[n].op \in Ops
    BY <2>1, <1>2, <1>7
  <2>3. block'[call[n].op] = block[call[n].op]
    BY <2>2, <1>4
  <2> QED BY <2>2, <2>3 DEF RequestInv, AnswerCameIn
<1>15. AnswerIsFresh'
  BY <1>2, <1>5 DEF AnswerIsFresh, RequestInv
<1> QED BY <1>6, <1>10, <1>11, <1>12, <1>13, <1>14, <1>15 DEF RequestInv

\* What the thread of a call does to it and to its helper.
LEMMA AskDeviceKeeps ==
    ASSUME RequestInv, NEW n \in Calls, AskDevice(n)
    PROVE  RequestInv'
<1>1. /\ ThreadRuns(n) /\ call[n] # NoCall
      /\ call' = call /\ block' = block /\ shared' = shared /\ late' = late
      /\ made' = made /\ killed' = killed /\ handled' = handled /\ met' = met
  BY AskingIsMade DEF AskDevice, ThreadRuns, RequestInv
<1>2. /\ helper' \in [Calls -> [at : {"none", "begun", "asking", "ended"}, grp : Answers]]
      /\ \A m \in Calls : m # n => helper'[m] = helper[m]
      /\ helper'[n].at \in {"asking", "ended"}
      /\ helper'[n].at = "asking" => helper'[n].grp = block[call[n].op].grp
  <2>1. block[call[n].op].grp \in Answers
    BY <1>1, MadeCalls DEF RequestInv, RequestTypeOK
  <2> QED BY <2>1 DEF AskDevice, RequestInv, RequestTypeOK
<1>3. RequestTypeOK'
  BY <1>1, <1>2 DEF RequestInv, RequestTypeOK, ThreadRuns
<1>4. RunningAsks' /\ OneAsks' /\ AnswerIsOwn'
  BY <1>1, <1>2 DEF RequestInv, RunningAsks, OneAsks, AnswerIsOwn, ThreadRuns, Asking, Clear
<1>5. BlockIsTheirs'
  BY <1>1, <1>2 DEF RequestInv, BlockIsTheirs, Asking, ThreadRuns, Clear
<1>6. AnswerCameIn' /\ AnswerIsFresh'
  BY <1>1 DEF RequestInv, AnswerCameIn, AnswerIsFresh, Asking
<1> QED BY <1>3, <1>4, <1>5, <1>6 DEF RequestInv

\* An answer of the device goes to the block, where only its own call looks.
LEMMA AnswerKeeps ==
    ASSUME RequestInv, NEW n \in Calls, Answer(n)
    PROVE  RequestInv'
<1> DEFINE o == call[n].op
<1>1. /\ ThreadRuns(n) /\ call[n] # NoCall
      /\ call' = call /\ shared' = shared /\ late' = late
      /\ made' = made /\ killed' = killed /\ handled' = handled
  BY AskingIsMade DEF Answer, ThreadRuns, RequestInv
<1>2. /\ helper[n].at = "asking" /\ helper[n].grp \in Answers
      /\ helper' = [helper EXCEPT ![n] = [at |-> "ended", grp |-> Unanswered]]
  BY DEF Answer, RequestInv, RequestTypeOK
<1>3. o \in Ops
  BY <1>1, MadeCalls DEF RequestInv
<1>4. PICK r \in {helper[n].grp, Unanswered} :
        /\ block' = [block EXCEPT ![o].retv = r]
        /\ met' = IF r = Unanswered THEN met
                  ELSE met \cup {c \in Calls : Asking(c) /\ call[c].op = o}
  BY DEF Answer
<1>5. /\ block'[o].grp = block[o].grp /\ block'[o].retv = r
      /\ \A p \in Ops : p # o => block'[p] = block[p]
      /\ block' \in [Ops -> [grp : Answers, retv : Answers]]
  BY <1>2, <1>3, <1>4 DEF RequestInv, RequestTypeOK, Answers
<1>9. met \subseteq met' /\ met' \subseteq Calls
  BY <1>4 DEF RequestInv, RequestTypeOK
<1>6. RequestTypeOK'
  BY <1>1, <1>2, <1>5, <1>9 DEF RequestInv, RequestTypeOK, Answers
<1>7. RunningAsks' /\ OneAsks' /\ AnswerIsOwn'
  BY <1>1, <1>2 DEF RequestInv, RequestTypeOK, RunningAsks, OneAsks, AnswerIsOwn, ThreadRuns, Asking, Clear
<1>8. BlockIsTheirs'
  <2> SUFFICES ASSUME NEW m \in Calls, Asking(m), Clear(call[m].op)
               PROVE  /\ block'[call[m].op].grp = call[m].grp
                      /\ block'[call[m].op].retv \in {Unanswered, call[m].grp}
                      /\ ThreadRuns(m)' => block'[call[m].op].retv = Unanswered
                      /\ helper'[m].at = "asking" => helper'[m].grp = call[m].grp
    BY <1>1 DEF BlockIsTheirs, Asking, ThreadRuns, Clear
  <2>1. call[m].op \in Ops
    BY MadeCalls, AskingIsMade DEF RequestInv
  <2>2. CASE call[m].op # o
    BY <2>1, <2>2, <1>2, <1>5 DEF RequestInv, BlockIsTheirs, ThreadRuns, RequestTypeOK
  <2>3. CASE call[m].op = o
    <3>1. m = n
      BY <2>3, <1>1 DEF RequestInv, RunningAsks, OneAsks
    <3> QED BY <3>1, <1>2, <1>5 DEF RequestInv, BlockIsTheirs, ThreadRuns, RequestTypeOK
  <2> QED BY <2>2, <2>3
<1>10. AnswerCameIn'
  <2> SUFFICES ASSUME NEW m \in Calls, Asking(m), block'[call[m].op].retv # Unanswered
               PROVE  m \in met'
    BY <1>1 DEF AnswerCameIn, Asking
  <2>1. call[m].op \in Ops
    BY MadeCalls, AskingIsMade DEF RequestInv
  <2>2. CASE call[m].op # o
    BY <2>1, <2>2, <1>5, <1>9 DEF RequestInv, AnswerCameIn
  <2>3. CASE call[m].op = o
    BY <2>3, <1>4, <1>5
  <2> QED BY <2>2, <2>3
<1>11. AnswerIsFresh'
  BY <1>1, <1>9 DEF RequestInv, AnswerIsFresh
<1> QED BY <1>6, <1>7, <1>8, <1>10, <1>11 DEF RequestInv

\* A call that ends with an answer or with none.
LEMMA ReturnKeeps ==
    ASSUME RequestInv, NEW n \in Calls, Take(n) \/ TimeOut(n)
    PROVE  RequestInv'
<1>1. /\ Asking(n) /\ call[n] # NoCall
      /\ made' = made /\ helper' = helper /\ block' = block
      /\ handled' = handled /\ shared' = shared /\ met' = met
      /\ late \subseteq late' /\ late' \subseteq Ops /\ killed' \in BOOLEAN
      /\ TimeOut(n) /\ ThreadRuns(n) => call[n].op \in late'
  BY AskingIsMade, MadeCalls DEF Take, TimeOut, RequestInv, RequestTypeOK
<1>2. /\ call[n].op \in Ops /\ call[n].grp \in Groups /\ call[n].got \in Answers
      /\ block[call[n].op].retv \in Answers
  BY <1>1, MadeCalls DEF RequestInv, RequestTypeOK
<1>3. /\ call' \in [Calls -> Entries]
      /\ \A m \in Calls : m # n => call'[m] = call[m]
      /\ call'[n].op = call[n].op /\ call'[n].grp = call[n].grp
      /\ call'[n].at = "returned"
      /\ call'[n].got = call[n].got \/ call'[n].got = block[call[n].op].retv
  BY <1>1, <1>2, MadeCalls DEF Take, TimeOut, RequestInv, RequestTypeOK, Entries
<1>4. RequestTypeOK'
  BY <1>1, <1>3 DEF RequestInv, RequestTypeOK, Entries, NoCall
<1>5. \A m \in Calls : /\ Asking(m)' => m # n /\ Asking(m)
                       /\ ThreadRuns(m)' => ThreadRuns(m)
                       /\ call'[m].op = call[m].op /\ call'[m].grp = call[m].grp
  BY <1>1, <1>3 DEF Asking, ThreadRuns
<1>6. \A p : Clear(p)' => Clear(p)
  BY <1>1 DEF Clear
<1>7. AnswerIsOwn'
  <2> SUFFICES ASSUME NEW m \in Calls, call'[m].got # Unanswered, Clear(call[m].op)'
               PROVE  call'[m].got = call[m].grp
    BY <1>5 DEF AnswerIsOwn, Clear
  <2>1. Clear(call[m].op)
    BY <1>5, <1>6
  <2>2. CASE m # n \/ call'[m].got = call[m].got
    BY <1>3, <2>1, <2>2 DEF RequestInv, AnswerIsOwn, Clear
  <2>3. CASE m = n /\ call'[n].got = block[call[n].op].retv
    BY <1>1, <2>1, <2>3 DEF RequestInv, BlockIsTheirs
  <2> QED BY <1>3, <2>2, <2>3
<1>8. RunningAsks'
  <2> SUFFICES ASSUME NEW m \in Calls, ThreadRuns(m)', Clear(call[m].op)'
               PROVE  Asking(m)'
    BY <1>5 DEF RunningAsks, Clear
  <2>1. ThreadRuns(m) /\ Clear(call[m].op) /\ Asking(m)
    BY <1>5, <1>6 DEF RequestInv, RunningAsks
  <2>2. CASE m # n
    BY <1>3, <2>1, <2>2 DEF Asking
  <2>3. CASE m = n /\ TimeOut(n)
    BY <1>1, <1>5, <2>3 DEF Clear
  <2>4. CASE m = n /\ Take(n)
    BY <1>1, <2>1, <2>4 DEF Take, RequestInv, BlockIsTheirs
  <2> QED BY <2>2, <2>3, <2>4
<1>9. OneAsks'
  BY <1>5, <1>6 DEF RequestInv, OneAsks, Clear
<1>10. BlockIsTheirs'
  BY <1>1, <1>5, <1>6 DEF RequestInv, BlockIsTheirs, Clear
<1>11. AnswerCameIn'
  BY <1>1, <1>5 DEF RequestInv, AnswerCameIn
<1>12. AnswerIsFresh'
  BY <1>1, <1>3 DEF RequestInv, AnswerCameIn, AnswerIsFresh
<1> QED BY <1>4, <1>7, <1>8, <1>9, <1>10, <1>11, <1>12 DEF RequestInv

LEMMA RequestInvStep == RequestInv /\ [RequestNext]_requestVars => RequestInv'
<1> SUFFICES ASSUME RequestInv, [RequestNext]_requestVars PROVE RequestInv'
  OBVIOUS
<1>1. ASSUME NEW c \in Callers, NEW o \in Ops, NEW g \in Groups, Ask(c, o, g)
      PROVE  RequestInv'
  BY <1>1, RequestAssumption, AskKeeps
<1>2. ASSUME NEW n \in Calls, AskDevice(n) \/ Answer(n) \/ Take(n) \/ TimeOut(n)
      PROVE  RequestInv'
  BY <1>2, RequestAssumption, AskDeviceKeeps, AnswerKeeps, ReturnKeeps
<1>3. CASE UNCHANGED requestVars
  BY <1>3 DEF requestVars, RequestInv, RequestTypeOK, RunningAsks, OneAsks, BlockIsTheirs, AnswerIsOwn,
              AnswerCameIn, AnswerIsFresh, ThreadRuns, Asking, Clear
<1> QED BY <1>1, <1>2, <1>3 DEF RequestNext

LEMMA RequestInvariant == RequestSpec => []RequestInv
  BY RequestInvInit, RequestInvStep, PTL DEF RequestSpec

\* Calls, threads and blocks keep their types, for any number of callers and
\* calls.
THEOREM RequestTypeCorrect == RequestSpec => []RequestTypeOK
<1>1. RequestInv => RequestTypeOK
  BY DEF RequestInv
<1> QED BY <1>1, RequestInvariant, PTL

\* common_OpGrp() answers with the group the call asked about, as long as its
\* block is used by one caller at a time and no earlier call was given up.
THEOREM AnswersAreOwn == RequestSpec => []AnswerIsOwn
<1>1. RequestInv => AnswerIsOwn
  BY DEF RequestInv
<1> QED BY <1>1, RequestInvariant, PTL

\* Even where a block is shared or a thread is late, common_OpGrp() returns no
\* answer that the device gave before the call.
THEOREM AnswersAreFresh == RequestSpec => []AnswerIsFresh
<1>1. RequestInv => AnswerIsFresh
  BY DEF RequestInv
<1> QED BY <1>1, RequestInvariant, PTL

=============================================================================
