-------------------------- MODULE SurfacePoolProofs --------------------------
(***************************************************************************)
(* Proofs about SurfacePool, for every set of pool sizes, any number of    *)
(* attempts of get_format() and with or without allocation failures.       *)
(***************************************************************************)
EXTENDS SurfacePool, Sequences, FiniteSetTheorems, TLAPS

-----------------------------------------------------------------------------
(* The type invariant.  Beyond TypeOK it needs that a decoder whose format   *)
(* is initialised has a context and at least one slot, so that the indices   *)
(* taken modulo queue_length are numbers.                                    *)

Lifecycle ==
    /\ phase # "freed" => (format_inited = TRUE <=> context_id # Invalid)
    /\ phase = "freed" => context_id = Invalid
    /\ frames # {} => context_id # Invalid
    /\ context_id # Invalid => queue_length > 0 /\ queue_head \in Slots /\ queue_tail \in Slots

TypeInv == TypeOK /\ Lifecycle

\* The index after i stays in the ring (lines 179 and 198 of ffvadecoder.cpp).
LEMMA NextSlotIs ==
    ASSUME queue_length \in Nat, queue_length > 0, NEW i \in 0 .. queue_length - 1
    PROVE  /\ NextSlot(i) = IF i + 1 = queue_length THEN 0 ELSE i + 1
           /\ NextSlot(i) \in 0 .. queue_length - 1
<1>1. CASE i + 1 = queue_length
  BY <1>1 DEF NextSlot
<1>2. CASE i + 1 < queue_length
  BY <1>2 DEF NextSlot
<1> QED BY <1>1, <1>2

\* A ring that is not empty has a first slot.
LEMMA FirstSlot == \A length \in Nat : length > 0 => 0 \in 0 .. length - 1
<1> QED OBVIOUS

LEMMA TypeInvInit == Init => TypeInv
<1> SUFFICES ASSUME Init PROVE TypeInv
  OBVIOUS
<1>1. RingTypes
  <2>1. 0 .. queue_length - 1 = {}
    BY DEF Init
  <2> QED BY <2>1 DEF Init, RingTypes
<1>2. VaTypes
  <2>1. 0 .. num_va_surfaces - 1 = {}
    BY DEF Init
  <2>2. va_surfaces \in [0 .. num_va_surfaces - 1 -> 0 .. MaxAttempts]
    BY <2>1 DEF Init
  <2>3. driver \subseteq Nat \X (1 .. MaxAttempts)
    BY DEF Init
  <2>4. /\ num_va_surfaces \in Nat
        /\ config_id \in 0 .. MaxAttempts
        /\ context_id \in 0 .. MaxAttempts
    BY PoolAssumption DEF PoolAssumption, Init, Invalid
  <2> QED BY <2>2, <2>3, <2>4 DEF VaTypes
<1>3. TypeOK
  <2>1. phase \in {"open", "closing", "freed"} /\ format_inited \in BOOLEAN /\ frames \subseteq Nat
    BY DEF Init
  <2>2. attempt \in 0 .. MaxAttempts
    BY PoolAssumption DEF PoolAssumption, Init
  <2> QED BY <1>1, <1>2, <2>1, <2>2 DEF TypeOK
<1>4. Lifecycle
  BY DEF Init, Lifecycle, Invalid
<1> QED BY <1>3, <1>4 DEF TypeInv

\* What growing the array leaves in it.
LEMMA GrowSurfacesTypes ==
    ASSUME TypeOK, CanInit, NEW n \in Sizes, GrowSurfaces(n),
           UNCHANGED <<config_id, context_id, driver>>
    PROVE  VaTypes' /\ attempt' \in 0 .. MaxAttempts
<1>1. n \in Nat /\ Larger(num_va_surfaces, n) \in Nat
  BY PoolAssumption DEF PoolAssumption, Larger, TypeOK, VaTypes
<1>2. GrownSurfaces(n) \in [0 .. Larger(num_va_surfaces, n) - 1 -> 0 .. MaxAttempts]
  BY <1>1, PoolAssumption DEF PoolAssumption, GrownSurfaces, TypeOK, VaTypes, Invalid
<1>3. driver' \subseteq Nat \X (1 .. MaxAttempts)
  BY DEF TypeOK, VaTypes
<1>4. /\ num_va_surfaces' \in Nat
      /\ va_surfaces' \in [0 .. num_va_surfaces' - 1 -> 0 .. MaxAttempts]
  BY <1>1, <1>2 DEF GrowSurfaces
<1>5. config_id' \in 0 .. MaxAttempts /\ context_id' \in 0 .. MaxAttempts
  BY DEF TypeOK, VaTypes
<1>6. attempt' \in 0 .. MaxAttempts
  BY PoolAssumption DEF PoolAssumption, GrowSurfaces, CanInit, TypeOK
<1> QED
  BY <1>3, <1>4, <1>5, <1>6 DEF VaTypes

\* What a successful vaCreateSurfaces() leaves in the arrays.
LEMMA CreateSurfacesTypes ==
    ASSUME TypeOK, CanInit, NEW n \in Sizes, CreateSurfaces(n),
           config_id' \in 0 .. MaxAttempts, context_id' \in 0 .. MaxAttempts
    PROVE  /\ VaTypes' /\ RingTypes'
           /\ attempt' \in 0 .. MaxAttempts
           /\ queue_length' > 0 /\ queue_head' = 0 /\ queue_tail' = 0
<1>1. /\ n \in Nat /\ n > 0
      /\ Larger(num_va_surfaces, n) \in Nat
      /\ Larger(queue_length, n) \in Nat /\ Larger(queue_length, n) > 0
  BY PoolAssumption DEF PoolAssumption, Larger, TypeOK, VaTypes, RingTypes
<1>2. attempt + 1 \in 1 .. MaxAttempts
  BY PoolAssumption DEF PoolAssumption, CanInit, TypeOK
<1>3. va_surfaces' \in [0 .. num_va_surfaces' - 1 -> 0 .. MaxAttempts]
  BY <1>1, <1>2 DEF CreateSurfaces, CreatedIds
<1>4. driver' \subseteq Nat \X (1 .. MaxAttempts)
  <2>1. ASSUME NEW id \in (0 .. Larger(num_va_surfaces, n) - 1) \X {attempt + 1}
        PROVE  id \in Nat \X (1 .. MaxAttempts)
    BY <1>1, <1>2, <2>1
  <2> QED BY <2>1 DEF CreateSurfaces, TypeOK, VaTypes
<1>5. VaTypes'
  BY <1>1, <1>3, <1>4 DEF VaTypes, CreateSurfaces
<1>6. RingTypes'
  BY <1>1 DEF RingTypes, CreateSurfaces
<1> QED BY <1>1, <1>2, <1>5, <1>6 DEF CreateSurfaces

\* What putting a surface back in the ring leaves in it.
LEMMA PutBackTypes ==
    ASSUME RingTypes, queue_length > 0, queue_tail \in Slots,
           NEW queue \in [Slots -> {Null} \cup Nat], NEW s \in Nat, PutBack(queue, s),
           UNCHANGED queue_length, queue_head' \in Slots
    PROVE  RingTypes' /\ queue_tail' \in Slots
<1>1. NextSlot(queue_tail) \in Slots
  BY NextSlotIs DEF Slots, RingTypes
<1> QED
  BY <1>1 DEF PutBack, RingTypes, Slots

LEMMA TypeInvStep == TypeInv /\ [Next]_vars => TypeInv'
<1> SUFFICES ASSUME TypeInv, [Next]_vars PROVE TypeInv'
  OBVIOUS
<1>a. TypeOK /\ Lifecycle
  BY DEF TypeInv
<1>1. ASSUME NEW n \in Sizes, InitFailsGrowingQueue(n) PROVE TypeInv'
  <2>1. VaTypes' /\ attempt' \in 0 .. MaxAttempts
    BY <1>1, <1>a, GrowSurfacesTypes DEF InitFailsGrowingQueue
  <2> QED
    BY <1>1, <1>a, <2>1 DEF InitFailsGrowingQueue, TypeInv, TypeOK, Lifecycle, RingTypes, ringVars, Slots
<1>2. ASSUME NEW n \in Sizes, InitFailsCreatingSurfaces(n) PROVE TypeInv'
  <2>1. VaTypes' /\ attempt' \in 0 .. MaxAttempts
    BY <1>2, <1>a, GrowSurfacesTypes DEF InitFailsCreatingSurfaces
  <2>2. n \in Nat /\ Larger(queue_length, n) \in Nat
    BY <1>a, PoolAssumption DEF PoolAssumption, Larger, TypeOK, RingTypes
  <2>3. RingTypes'
    BY <1>2, <1>a, <2>2 DEF InitFailsCreatingSurfaces, GrownQueue, TypeOK, RingTypes
  <2>4. context_id = Invalid
    BY <1>2, <1>a DEF InitFailsCreatingSurfaces, CanInit, Lifecycle
  <2> QED
    BY <1>2, <1>a, <2>1, <2>3, <2>4 DEF InitFailsCreatingSurfaces, TypeInv, TypeOK, Lifecycle
<1>3. ASSUME NEW n \in Sizes, InitFailsCreatingContext(n) PROVE TypeInv'
  <2>1. /\ VaTypes' /\ RingTypes'
        /\ attempt' \in 0 .. MaxAttempts
    BY <1>3, <1>a, CreateSurfacesTypes DEF InitFailsCreatingContext, TypeOK, VaTypes
  <2>2. context_id = Invalid
    BY <1>3, <1>a DEF InitFailsCreatingContext, CanInit, Lifecycle
  <2> QED
    BY <1>3, <1>a, <2>1, <2>2 DEF InitFailsCreatingContext, TypeInv, TypeOK, Lifecycle
<1>4. ASSUME NEW n \in Sizes, InitSucceeds(n) PROVE TypeInv'
  <2>1. /\ config_id' \in 0 .. MaxAttempts /\ context_id' \in 0 .. MaxAttempts
        /\ context_id' # Invalid
    BY <1>4, <1>a, PoolAssumption DEF PoolAssumption, InitSucceeds, CanInit, TypeOK, Invalid
  <2>2. /\ VaTypes' /\ RingTypes'
        /\ attempt' \in 0 .. MaxAttempts
        /\ queue_length' > 0 /\ queue_head' = 0 /\ queue_tail' = 0
    BY <1>4, <1>a, <2>1, CreateSurfacesTypes DEF InitSucceeds
  <2>3. phase' = "open" /\ format_inited' = TRUE /\ frames' \subseteq Nat
    BY <1>4, <1>a DEF InitSucceeds, CanInit, TypeOK
  <2>4. queue_head' \in Slots' /\ queue_tail' \in Slots'
    <3>1. queue_length' \in Nat /\ queue_length' > 0
      BY <2>2 DEF RingTypes
    <3>2. queue_head' = 0 /\ queue_tail' = 0
      BY <2>2
    <3>3. 0 \in 0 .. queue_length' - 1
      BY <3>1, FirstSlot
    <3> QED BY <3>2, <3>3 DEF Slots
  <2>5. Lifecycle'
    BY <2>1, <2>2, <2>3, <2>4 DEF Lifecycle
  <2> QED BY <2>2, <2>3, <2>5 DEF TypeInv, TypeOK
<1>5. CASE GetBuffer
  <2>1. queue_head \in Slots /\ NextSlot(queue_head) \in Slots
    BY <1>5, <1>a, NextSlotIs DEF GetBuffer, CanAcquire, Lifecycle, TypeOK, RingTypes, Slots
  <2>2. va_surfaces_queue[queue_head] \in Nat
    BY <1>5, <1>a, <2>1 DEF GetBuffer, CanAcquire, TypeOK, RingTypes, Slots
  <2>3. RingTypes'
    BY <1>5, <1>a, <2>1 DEF GetBuffer, Taken, TypeOK, RingTypes, Slots
  <2>4. frames' \subseteq Nat
    BY <1>5, <1>a, <2>2 DEF GetBuffer, TypeOK
  <2>5. TypeOK'
    BY <1>5, <1>a, <2>3, <2>4 DEF GetBuffer, TypeOK, VaTypes, vaVars
  <2>6. Lifecycle'
    BY <1>5, <1>a, <2>1 DEF GetBuffer, CanAcquire, Lifecycle, Slots, vaVars
  <2> QED BY <2>5, <2>6 DEF TypeInv
<1>6. CASE GetBufferFailsWrapping
  <2>1. /\ queue_length > 0 /\ queue_tail \in Slots
        /\ queue_head \in Slots /\ NextSlot(queue_head) \in Slots
    BY <1>6, <1>a, NextSlotIs
    DEF GetBufferFailsWrapping, CanAcquire, Lifecycle, TypeOK, RingTypes, Slots
  <2>2. va_surfaces_queue[queue_head] \in Nat /\ Taken \in [Slots -> {Null} \cup Nat]
    BY <1>6, <1>a, <2>1 DEF GetBufferFailsWrapping, CanAcquire, Taken, TypeOK, RingTypes, Slots
  <2>3. RingTypes' /\ queue_tail' \in Slots
    BY <1>6, <1>a, <2>1, <2>2, PutBackTypes DEF GetBufferFailsWrapping, TypeOK
  <2>4. TypeOK'
    BY <1>6, <1>a, <2>3 DEF GetBufferFailsWrapping, TypeOK, VaTypes, vaVars
  <2>5. Lifecycle'
    BY <1>6, <1>a, <2>1, <2>3 DEF GetBufferFailsWrapping, Lifecycle, Slots, vaVars
  <2> QED BY <2>4, <2>5 DEF TypeInv
<1>7. ASSUME NEW s \in frames, ReleaseSurface(s) PROVE TypeInv'
  <2>1. s \in Nat /\ queue_length > 0 /\ queue_tail \in Slots /\ queue_head \in Slots
    BY <1>7, <1>a DEF Lifecycle, TypeOK
  <2>2. RingTypes' /\ queue_tail' \in Slots
    BY <1>7, <1>a, <2>1, PutBackTypes DEF ReleaseSurface, TypeOK, RingTypes, Slots
  <2>3. TypeOK'
    BY <1>7, <1>a, <2>2 DEF ReleaseSurface, TypeOK, VaTypes, vaVars
  <2>4. Lifecycle'
    BY <1>7, <1>a, <2>1, <2>2 DEF ReleaseSurface, Lifecycle, Slots, vaVars
  <2> QED BY <2>3, <2>4 DEF TypeInv
<1>8. CASE Close
  BY <1>8, <1>a DEF Close, TypeInv, TypeOK, Lifecycle, RingTypes, VaTypes, Slots, ringVars, vaVars
<1>9. CASE Finalize
  <2>1. RingTypes'
    <3>1. 0 .. queue_length' - 1 = {}
      BY <1>9 DEF Finalize
    <3> QED BY <1>9, <1>a, <3>1 DEF Finalize, TypeOK, RingTypes
  <2>2. VaTypes'
    <3>1. 0 .. num_va_surfaces' - 1 = {}
      BY <1>9 DEF Finalize
    <3>2. va_surfaces' \in [0 .. num_va_surfaces' - 1 -> 0 .. MaxAttempts]
      BY <1>9, <3>1 DEF Finalize
    <3>3. driver' \subseteq Nat \X (1 .. MaxAttempts)
      BY <1>9, <1>a DEF Finalize, TypeOK, VaTypes
    <3> QED BY <1>9, <3>2, <3>3, PoolAssumption DEF PoolAssumption, Finalize, VaTypes, Invalid
  <2>3. TypeOK' /\ Lifecycle'
    BY <1>9, <1>a, <2>1, <2>2 DEF Finalize, TypeOK, Lifecycle
  <2> QED BY <2>3 DEF TypeInv
<1>10. CASE UNCHANGED vars
  BY <1>10, <1>a DEF vars, TypeInv, TypeOK, Lifecycle, RingTypes, VaTypes, Slots, ringVars, vaVars
<1> QED
  BY <1>1, <1>2, <1>3, <1>4, <1>5, <1>6, <1>7, <1>8, <1>9, <1>10 DEF Next, GetFormat

LEMMA TypeInvariant == Spec => []TypeInv
<1> QED BY TypeInvInit, TypeInvStep, PTL DEF Spec

\* Every variable of the pool keeps its type; the ring indices in particular
\* stay within a ring that is never empty once get_format() has succeeded.
THEOREM TypeCorrect == Spec => []TypeOK
<1>1. TypeInv => TypeOK
  BY DEF TypeInv
<1> QED
  BY <1>1, TypeInvariant, PTL

-----------------------------------------------------------------------------
(* The ring.  Its invariant is stated of a queue, a set of frames, a length  *)
(* and two indices, so that the lemmas about handing out and giving back a   *)
(* surface say what one operation does to any ring, and compose.             *)

\* Occupied(i) of SurfacePool, of any ring.
RunHolds(queue, head, tail, i) ==
    \/ head < tail /\ head <= i /\ i < tail
    \/ head > tail /\ (head <= i \/ i < tail)
    \/ head = tail /\ queue[head] # Null

\* Each of the n surfaces is in one slot of the queue or in one frame.
Placed(queue, used, n) ==
    /\ queue \in [0 .. n - 1 -> {Null} \cup (0 .. n - 1)]
    /\ used \subseteq 0 .. n - 1
    /\ \A s \in 0 .. n - 1 : s \in used <=> \A i \in 0 .. n - 1 : queue[i] # s
    /\ \A i, j \in 0 .. n - 1 : i # j /\ queue[i] # Null => queue[i] # queue[j]

\* The occupied slots are the run from the head to the tail.
OneRun(queue, n, head, tail) ==
    /\ head \in 0 .. n - 1
    /\ tail \in 0 .. n - 1
    /\ \A i \in 0 .. n - 1 : queue[i] # Null <=> RunHolds(queue, head, tail, i)

\* The index after i, as NextSlotIs computes it.
After(i, n) == IF i + 1 = n THEN 0 ELSE i + 1

\* Handing out the surface at the head.
LEMMA TakeKeepsRing ==
    ASSUME NEW n \in Nat, NEW queue, NEW used, NEW head, NEW tail,
           Placed(queue, used, n), OneRun(queue, n, head, tail), queue[head] # Null
    PROVE  /\ queue[head] \notin used
           /\ Placed([queue EXCEPT ![head] = Null], used \cup {queue[head]}, n)
           /\ OneRun([queue EXCEPT ![head] = Null], n, After(head, n), tail)
<1> DEFINE taken == [queue EXCEPT ![head] = Null]
           s == queue[head]
<1>1. /\ head \in 0 .. n - 1 /\ tail \in 0 .. n - 1
      /\ s \in 0 .. n - 1 /\ s \notin used
      /\ \A i \in 0 .. n - 1 : taken[i] = IF i = head THEN Null ELSE queue[i]
  BY DEF OneRun, Placed
<1>2. Placed(taken, used \cup {s}, n)
  <2>1. taken \in [0 .. n - 1 -> {Null} \cup (0 .. n - 1)] /\ used \cup {s} \subseteq 0 .. n - 1
    BY <1>1 DEF Placed
  <2>2. ASSUME NEW x \in 0 .. n - 1
        PROVE  x \in used \cup {s} <=> \A i \in 0 .. n - 1 : taken[i] # x
    <3>1. CASE x = s
      BY <1>1, <3>1 DEF Placed, Null
    <3>2. CASE x # s
      BY <1>1, <3>2 DEF Placed, Null
    <3> QED BY <3>1, <3>2
  <2>3. \A i, j \in 0 .. n - 1 : i # j /\ taken[i] # Null => taken[i] # taken[j]
    BY <1>1 DEF Placed
  <2> QED BY <2>1, <2>2, <2>3 DEF Placed
<1>3. OneRun(taken, n, After(head, n), tail)
  <2>1. After(head, n) \in 0 .. n - 1
    BY <1>1 DEF After
  <2>2. ASSUME NEW i \in 0 .. n - 1
        PROVE  taken[i] # Null <=> RunHolds(taken, After(head, n), tail, i)
    <3>1. queue[i] # Null <=> RunHolds(queue, head, tail, i)
      BY DEF OneRun
    <3>2. taken[After(head, n)] # Null <=> After(head, n) # head /\ RunHolds(queue, head, tail, After(head, n))
      BY <1>1, <2>1 DEF OneRun
    <3>3. CASE After(head, n) = tail
      BY <1>1, <2>1, <3>1, <3>2, <3>3 DEF RunHolds, After
    <3>4. CASE After(head, n) # tail
      BY <1>1, <2>1, <3>1, <3>4 DEF RunHolds, After
    <3> QED BY <3>3, <3>4
  <2> QED BY <1>1, <2>1, <2>2 DEF OneRun
<1> QED BY <1>1, <1>2, <1>3

\* While a surface is in a frame the slot at the tail is empty: n surfaces do
\* not fit in the n slots and in a frame as well.
LEMMA TailIsEmpty ==
    ASSUME NEW n \in Nat, NEW queue, NEW used, NEW head, NEW tail,
           Placed(queue, used, n), OneRun(queue, n, head, tail), used # {}
    PROVE  queue[tail] = Null
<1> SUFFICES ASSUME queue[tail] # Null PROVE FALSE
  OBVIOUS
<1>1. head = tail
  BY DEF OneRun, RunHolds
<1>2. \A i \in 0 .. n - 1 : queue[i] # Null
  BY <1>1 DEF OneRun, RunHolds
<1>3. PICK s \in used : TRUE
  OBVIOUS
<1>4. s \in 0 .. n - 1 /\ queue \in [0 .. n - 1 -> (0 .. n - 1) \ {s}]
  BY <1>2, <1>3 DEF Placed
<1> DEFINE Ring == 0 .. n - 1
           Rest == Ring \ {s}
<1>5. IsFiniteSet(Ring) /\ Cardinality(Ring) = n
  BY FS_Interval
<1>6. IsFiniteSet(Rest) /\ Cardinality(Rest) = n - 1
  <2>1. s \in Ring
    BY <1>4
  <2> HIDE DEF Ring
  <2> QED BY <1>5, <2>1, FS_RemoveElement
<1>7. \E i, j \in Ring : i # j /\ queue[i] = queue[j]
  <2>1. queue \in [Ring -> Rest]
    BY <1>4
  <2>2. Cardinality(Rest) < Cardinality(Ring)
    BY <1>5, <1>6
  <2> HIDE DEF Ring, Rest
  <2> QED BY <1>5, <1>6, <2>1, <2>2, FS_PigeonHole
<1> QED BY <1>2, <1>7 DEF Placed

\* Giving back a surface that is in a frame.
LEMMA GiveKeepsRing ==
    ASSUME NEW n \in Nat, NEW queue, NEW used, NEW head, NEW tail, NEW s \in used,
           Placed(queue, used, n), OneRun(queue, n, head, tail)
    PROVE  /\ Placed([queue EXCEPT ![tail] = s], used \ {s}, n)
           /\ OneRun([queue EXCEPT ![tail] = s], n, head, After(tail, n))
<1> DEFINE given == [queue EXCEPT ![tail] = s]
<1>1. queue[tail] = Null
  BY TailIsEmpty
<1>2. /\ head \in 0 .. n - 1 /\ tail \in 0 .. n - 1 /\ s \in 0 .. n - 1 /\ s # Null
      /\ \A i \in 0 .. n - 1 : given[i] = IF i = tail THEN s ELSE queue[i]
  BY DEF OneRun, Placed, Null
<1>3. Placed(given, used \ {s}, n)
  <2>1. given \in [0 .. n - 1 -> {Null} \cup (0 .. n - 1)] /\ used \ {s} \subseteq 0 .. n - 1
    BY <1>2 DEF Placed
  <2>2. ASSUME NEW x \in 0 .. n - 1
        PROVE  x \in used \ {s} <=> \A i \in 0 .. n - 1 : given[i] # x
    <3>1. CASE x = s
      BY <1>2, <3>1
    <3>2. CASE x # s
      BY <1>1, <1>2, <3>2 DEF Placed, Null
    <3> QED BY <3>1, <3>2
  <2>3. \A i, j \in 0 .. n - 1 : i # j /\ given[i] # Null => given[i] # given[j]
    BY <1>2 DEF Placed
  <2> QED BY <2>1, <2>2, <2>3 DEF Placed
<1>4. OneRun(given, n, head, After(tail, n))
  <2>1. After(tail, n) \in 0 .. n - 1
    BY <1>2 DEF After
  <2>2. ASSUME NEW i \in 0 .. n - 1
        PROVE  given[i] # Null <=> RunHolds(given, head, After(tail, n), i)
    <3>1. queue[i] # Null <=> RunHolds(queue, head, tail, i)
      BY DEF OneRun
    <3>2. given[head] # Null <=> head = tail \/ RunHolds(queue, head, tail, head)
      BY <1>2 DEF OneRun
    <3>3. ~ (head = tail /\ queue[head] # Null)
      BY <1>1
    <3>4. CASE After(tail, n) = head
      BY <1>2, <3>1, <3>2, <3>3, <3>4 DEF RunHolds, After
    <3>5. CASE After(tail, n) # head
      BY <1>2, <3>1, <3>3, <3>5 DEF RunHolds, After
    <3> QED BY <3>4, <3>5
  <2> QED BY <1>2, <2>1, <2>2 DEF OneRun
<1> QED BY <1>3, <1>4

\* Filling a ring with all its surfaces.
LEMMA FilledRing ==
    ASSUME NEW n \in Nat, n > 0
    PROVE  /\ Placed([i \in 0 .. n - 1 |-> i], {}, n)
           /\ OneRun([i \in 0 .. n - 1 |-> i], n, 0, 0)
<1> DEFINE full == [i \in 0 .. n - 1 |-> i]
<1>1. /\ full \in [0 .. n - 1 -> {Null} \cup (0 .. n - 1)]
      /\ \A i \in 0 .. n - 1 : full[i] = i /\ i # Null
      /\ 0 \in 0 .. n - 1
  BY DEF Null
<1>2. Placed(full, {}, n)
  BY <1>1 DEF Placed
<1>3. OneRun(full, n, 0, 0)
  BY <1>1 DEF OneRun, RunHolds
<1> QED BY <1>2, <1>3

-----------------------------------------------------------------------------
(* The ring of the pool.                                                     *)

RingInv ==
    context_id # Invalid =>
        /\ Placed(va_surfaces_queue, frames, queue_length)
        /\ OneRun(va_surfaces_queue, queue_length, queue_head, queue_tail)

\* PutBack succeeds when some surface is in a frame.
LEMMA PutBackIsGiving ==
    ASSUME NEW queue, NEW used, NEW head, NEW s \in used,
           queue_length \in Nat, queue_length > 0,
           Placed(queue, used, queue_length), OneRun(queue, queue_length, head, queue_tail),
           PutBack(queue, s)
    PROVE  /\ va_surfaces_queue' = [queue EXCEPT ![queue_tail] = s]
           /\ queue_tail' = After(queue_tail, queue_length)
<1>1. queue[queue_tail] = Null
  BY TailIsEmpty
<1>2. NextSlot(queue_tail) = After(queue_tail, queue_length)
  BY NextSlotIs DEF OneRun, After
<1> QED BY <1>1, <1>2 DEF PutBack

LEMMA RingInvStep == TypeInv /\ RingInv /\ [Next]_vars => RingInv'
<1> SUFFICES ASSUME TypeInv, RingInv, [Next]_vars, context_id' # Invalid PROVE
                 /\ Placed(va_surfaces_queue', frames', queue_length')
                 /\ OneRun(va_surfaces_queue', queue_length', queue_head', queue_tail')
  BY DEF RingInv, Placed, OneRun, RunHolds
<1> DEFINE Goal == /\ Placed(va_surfaces_queue', frames', queue_length')
                   /\ OneRun(va_surfaces_queue', queue_length', queue_head', queue_tail')
<1>a. Lifecycle /\ queue_length \in Nat
  BY DEF TypeInv, TypeOK, RingTypes
<1>1. ASSUME NEW n \in Sizes, InitFailsGrowingQueue(n) \/ InitFailsCreatingSurfaces(n) PROVE FALSE
  BY <1>1, <1>a DEF InitFailsGrowingQueue, InitFailsCreatingSurfaces, CanInit, Lifecycle
<1>2. ASSUME NEW n \in Sizes, InitFailsCreatingContext(n) PROVE FALSE
  BY <1>2, <1>a DEF InitFailsCreatingContext, CanInit, Lifecycle
<1>3. ASSUME NEW n \in Sizes, InitSucceeds(n) PROVE Goal
  <2>1. Larger(queue_length, n) \in Nat /\ Larger(queue_length, n) > 0
    BY <1>a, PoolAssumption DEF PoolAssumption, Larger
  <2>2. frames' = {}
    BY <1>3, <1>a DEF InitSucceeds, CanInit, Lifecycle
  <2> DEFINE length == Larger(queue_length, n)
  <2>3. /\ va_surfaces_queue' = [i \in 0 .. length - 1 |-> i]
        /\ queue_length' = length /\ queue_head' = 0 /\ queue_tail' = 0
    BY <1>3 DEF InitSucceeds, CreateSurfaces
  <2> HIDE DEF length
  <2>4. length \in Nat /\ length > 0
    BY <2>1 DEF length
  <2> DEFINE full == [i \in 0 .. length - 1 |-> i]
  <2>5. Placed(full, {}, length) /\ OneRun(full, length, 0, 0)
    BY <2>4, FilledRing
  <2>6. va_surfaces_queue' = full
    BY <2>3
  <2> HIDE DEF full
  <2> QED BY <2>2, <2>3, <2>5, <2>6
<1>4. CASE GetBuffer \/ GetBufferFailsWrapping \/ \E s \in frames : ReleaseSurface(s)
  <2>1. context_id # Invalid /\ queue_length' = queue_length
    BY <1>4 DEF GetBuffer, GetBufferFailsWrapping, ReleaseSurface, vaVars
  <2>2. /\ queue_length > 0
        /\ Placed(va_surfaces_queue, frames, queue_length)
        /\ OneRun(va_surfaces_queue, queue_length, queue_head, queue_tail)
    BY <1>a, <2>1 DEF RingInv, Lifecycle
  <2>3. NextSlot(queue_head) = After(queue_head, queue_length)
    BY <1>a, <2>2, NextSlotIs DEF OneRun, After
  <2>4. CASE GetBuffer
    <3>1. /\ Placed(Taken, frames \cup {va_surfaces_queue[queue_head]}, queue_length)
          /\ OneRun(Taken, queue_length, After(queue_head, queue_length), queue_tail)
      BY <1>a, <2>2, <2>4, TakeKeepsRing DEF GetBuffer, CanAcquire, Taken
    <3> QED BY <2>1, <2>3, <2>4, <3>1 DEF GetBuffer
  <2>5. CASE GetBufferFailsWrapping
    <3> DEFINE s == va_surfaces_queue[queue_head]
               used == frames \cup {s}
    <3>1. /\ s \notin frames
          /\ Placed(Taken, used, queue_length)
          /\ OneRun(Taken, queue_length, After(queue_head, queue_length), queue_tail)
      BY <1>a, <2>2, <2>5, TakeKeepsRing DEF GetBufferFailsWrapping, CanAcquire, Taken
    <3>2. PutBack(Taken, s) /\ frames' = used \ {s} /\ queue_head' = After(queue_head, queue_length)
      BY <2>3, <2>5, <3>1 DEF GetBufferFailsWrapping
    <3>3. s \in used
      OBVIOUS
    <3> HIDE DEF s, used
    <3>4. /\ va_surfaces_queue' = [Taken EXCEPT ![queue_tail] = s]
          /\ queue_tail' = After(queue_tail, queue_length)
      BY <1>a, <2>2, <3>1, <3>2, <3>3, PutBackIsGiving
    <3> QED BY <1>a, <2>1, <3>1, <3>2, <3>3, <3>4, GiveKeepsRing
  <2>6. ASSUME NEW s \in frames, ReleaseSurface(s) PROVE Goal
    <3>1. /\ va_surfaces_queue' = [va_surfaces_queue EXCEPT ![queue_tail] = s]
          /\ queue_tail' = After(queue_tail, queue_length)
      BY <1>a, <2>2, <2>6, PutBackIsGiving DEF ReleaseSurface
    <3> QED BY <1>a, <2>1, <2>2, <2>6, <3>1, GiveKeepsRing DEF ReleaseSurface
  <2> QED BY <1>4, <2>4, <2>5, <2>6
<1>5. CASE Close \/ UNCHANGED vars
  BY <1>5 DEF Close, vars, ringVars, vaVars, RingInv
<1>6. CASE Finalize
  BY <1>6 DEF Finalize
<1> QED
  BY <1>1, <1>2, <1>3, <1>4, <1>5, <1>6 DEF Next, GetFormat

LEMMA RingInvariant == Spec => []RingInv
<1>1. Init => RingInv
  BY DEF Init, RingInv
<1> QED BY <1>1, TypeInvariant, RingInvStep, PTL DEF Spec

\* The pool neither loses a surface nor hands one out twice, for a pool of any
\* size: each is in one slot of the free queue or in one frame.
THEOREM SurfacesInOnePlace == Spec => []OnePlaceEach
<1>1. RingInv => OnePlaceEach
  BY DEF RingInv, OnePlaceEach, Ready, Placed, Surfaces, Slots
<1> QED BY <1>1, RingInvariant, PTL

\* The free surfaces are a contiguous run of the ring from its head to its tail.
THEOREM RingIsContiguous == Spec => []RingContiguous
<1>1. RingInv => RingContiguous
  BY DEF RingInv, RingContiguous, Ready, OneRun, RunHolds, Slots, Occupied
<1> QED BY <1>1, RingInvariant, PTL

\* get_buffer2() fails only when FFmpeg holds every surface of the pool.
THEOREM AcquireFailsOnlyWhenEmpty == Spec => []AcquireFailsOnlyWhenExhausted
<1>1. RingInv => AcquireFailsOnlyWhenExhausted
  <2> SUFFICES ASSUME RingInv, Ready, va_surfaces_queue[queue_head] = Null
               PROVE  frames = Surfaces
    BY DEF AcquireFailsOnlyWhenExhausted
  <2>1. \A i \in Slots : va_surfaces_queue[i] = Null
    BY DEF RingInv, Ready, OneRun, RunHolds, Slots
  <2>2. \A s \in Surfaces : s \in frames
    BY <2>1 DEF RingInv, Ready, Placed, Surfaces, Slots, Null
  <2> QED BY <2>2 DEF RingInv, Ready, Placed, Surfaces
<1> QED BY <1>1, RingInvariant, PTL

\* vaapi_release_surface() never fails, so that no surface is lost.
THEOREM ReleaseAlwaysSucceeds == Spec => []ReleaseNeverFails
<1>1. TypeInv /\ RingInv => ReleaseNeverFails
  BY TailIsEmpty DEF TypeInv, TypeOK, RingTypes, RingInv, Ready, ReleaseNeverFails
<1> QED BY <1>1, TypeInvariant, RingInvariant, PTL

-----------------------------------------------------------------------------
(* The ids of the surfaces.  Every surface the driver holds comes from an    *)
(* attempt so far, and those of the last attempt are all in the array.       *)

IdsInv ==
    /\ HandsOutLiveIds
    /\ phase # "freed" => \A id \in driver : id[2] <= attempt /\ (id[2] = attempt => id \in RecordedIds)
    /\ LeaksOnlyOverwrittenSurfaces

LEMMA IdsInvStep == TypeInv /\ IdsInv /\ [Next]_vars => IdsInv'
<1> SUFFICES ASSUME TypeInv, IdsInv, [Next]_vars PROVE IdsInv'
  OBVIOUS
<1>a. /\ Lifecycle /\ attempt \in Nat /\ num_va_surfaces \in Nat
      /\ \A id \in driver : id[2] \in Nat
  BY PoolAssumption DEF PoolAssumption, TypeInv, TypeOK, VaTypes
<1>1. ASSUME NEW n \in Sizes, InitFailsGrowingQueue(n) \/ InitFailsCreatingSurfaces(n) PROVE IdsInv'
  BY <1>1, <1>a DEF InitFailsGrowingQueue, InitFailsCreatingSurfaces, GrowSurfaces, CanInit,
       Lifecycle, IdsInv, HandsOutLiveIds, LeaksOnlyOverwrittenSurfaces
<1>2. ASSUME NEW n \in Sizes, InitFailsCreatingContext(n) \/ InitSucceeds(n) PROVE IdsInv'
  <2>1. CreateSurfaces(n) /\ phase = "open" /\ phase' = "open"
    BY <1>2 DEF InitFailsCreatingContext, InitSucceeds, CanInit
  <2>2. RecordedIds' = (0 .. num_va_surfaces' - 1) \X {attempt'}
    BY <2>1 DEF CreateSurfaces, CreatedIds, RecordedIds
  <2>3. driver' = driver \cup RecordedIds'
    BY <2>1, <2>2 DEF CreateSurfaces
  <2>4. ASSUME NEW id \in driver' PROVE id[2] <= attempt' /\ (id[2] = attempt' => id \in RecordedIds')
    <3>1. CASE id \in driver
      BY <1>a, <2>1, <3>1 DEF CreateSurfaces, IdsInv
    <3>2. CASE id \in RecordedIds'
      BY <1>a, <2>1, <2>2, <3>2 DEF CreateSurfaces
    <3> QED BY <2>3, <3>1, <3>2
  <2> QED BY <2>1, <2>3, <2>4 DEF IdsInv, HandsOutLiveIds, LeaksOnlyOverwrittenSurfaces
<1>3. CASE GetBuffer \/ GetBufferFailsWrapping \/ \E s \in frames : ReleaseSurface(s)
  BY <1>3 DEF GetBuffer, GetBufferFailsWrapping, ReleaseSurface, CanAcquire, vaVars, RecordedIds,
       IdsInv, HandsOutLiveIds, LeaksOnlyOverwrittenSurfaces
<1>4. CASE Close \/ UNCHANGED vars
  BY <1>4 DEF Close, vars, vaVars, RecordedIds, IdsInv, HandsOutLiveIds, LeaksOnlyOverwrittenSurfaces
<1>5. CASE Finalize
  BY <1>5, <1>a DEF Finalize, IdsInv, HandsOutLiveIds, LeaksOnlyOverwrittenSurfaces
<1> QED
  BY <1>1, <1>2, <1>3, <1>4, <1>5 DEF Next, GetFormat

LEMMA IdsInvariant == Spec => []IdsInv
<1>1. Init => IdsInv
  BY DEF Init, IdsInv, HandsOutLiveIds, LeaksOnlyOverwrittenSurfaces
<1> QED BY <1>1, TypeInvariant, IdsInvStep, PTL DEF Spec

\* The ids given to FFmpeg and to the renderer exist in the driver.
THEOREM IdsAreLive == Spec => []HandsOutLiveIds
<1>1. IdsInv => HandsOutLiveIds
  BY DEF IdsInv
<1> QED BY <1>1, IdsInvariant, PTL

\* decoder_finalize() leaves behind only surfaces a later attempt overwrote.
THEOREM LeaksAreOverwritten == Spec => []LeaksOnlyOverwrittenSurfaces
<1>1. IdsInv => LeaksOnlyOverwrittenSurfaces
  BY DEF IdsInv
<1> QED BY <1>1, IdsInvariant, PTL

-----------------------------------------------------------------------------
(* The refinement.  As a sequence, the free surfaces are the run of the ring *)
(* from its head on; the lemmas say what one operation does to it.           *)

RunCount(queue, n, head, tail) ==
    IF head < tail THEN tail - head
    ELSE IF head > tail THEN n - head + tail
    ELSE IF queue[head] = Null THEN 0 ELSE n

\* The slot k places after slot i of a ring of n.
PlaceAt(i, k, n) == IF i + k < n THEN i + k ELSE i + k - n

Run(queue, n, head, tail) ==
    [k \in 1 .. RunCount(queue, n, head, tail) |-> queue[PlaceAt(head, k - 1, n)]]

LEMMA PlaceIs ==
    ASSUME NEW n \in Nat, NEW i \in 0 .. n - 1, NEW k \in 0 .. n - 1
    PROVE  (i + k) % n = PlaceAt(i, k, n)
<1>1. CASE i + k < n
  BY <1>1 DEF PlaceAt
<1>2. CASE i + k >= n
  <2>1. i + k = n + (i + k - n) /\ i + k - n \in 0 .. n - 1
    BY <1>2
  <2> QED BY <1>2, <2>1 DEF PlaceAt
<1> QED BY <1>1, <1>2

\* rest is run without its first element s; longer is run with s at its end.
TakenFrom(run, s, rest) == run # <<>> /\ Head(run) = s /\ rest = Tail(run)

GivenTo(run, s, longer) == longer = Append(run, s)

\* Handing out the surface at the head shortens the run from its front.
LEMMA TakeIsTail ==
    ASSUME NEW n \in Nat, NEW queue, NEW used, NEW head, NEW tail,
           Placed(queue, used, n), OneRun(queue, n, head, tail), queue[head] # Null
    PROVE  TakenFrom(Run(queue, n, head, tail), queue[head],
                     Run([queue EXCEPT ![head] = Null], n, After(head, n), tail))
<1> DEFINE taken == [queue EXCEPT ![head] = Null]
           count == RunCount(queue, n, head, tail)
           run   == Run(queue, n, head, tail)
<1>1. /\ head \in 0 .. n - 1 /\ tail \in 0 .. n - 1
      /\ \A i \in 0 .. n - 1 : taken[i] = IF i = head THEN Null ELSE queue[i]
  BY DEF OneRun, Placed
<1>2. count \in 1 .. n
  BY <1>1 DEF RunCount
<1>3. RunCount(taken, n, After(head, n), tail) = count - 1
  <2>1. CASE After(head, n) = tail
    <3>1. taken[tail] = Null
      BY <1>1, <2>1 DEF OneRun, RunHolds, After
    <3> QED BY <1>1, <2>1, <3>1 DEF RunCount, After
  <2>2. CASE After(head, n) # tail
    BY <1>1, <2>2 DEF RunCount, After
  <2> QED BY <2>1, <2>2
<1>4. ASSUME NEW k \in 1 .. count - 1
      PROVE  taken[PlaceAt(After(head, n), k - 1, n)] = queue[PlaceAt(head, k, n)]
  <2>1. /\ PlaceAt(After(head, n), k - 1, n) = PlaceAt(head, k, n)
        /\ PlaceAt(head, k, n) \in 0 .. n - 1 /\ PlaceAt(head, k, n) # head
    BY <1>1, <1>2 DEF PlaceAt, After
  <2> QED BY <1>1, <2>1
<1>5. run = [k \in 1 .. count |-> queue[PlaceAt(head, k - 1, n)]]
  BY DEF Run
<1> HIDE DEF count
<1>6. Len(run) = count /\ run # <<>> /\ Head(run) = run[1] /\ run[1] = queue[head]
  <2>1. PlaceAt(head, 1 - 1, n) = head
    BY <1>1 DEF PlaceAt
  <2> QED BY <1>2, <1>5, <2>1
<1>7. Tail(run) = [k \in 1 .. count - 1 |-> queue[PlaceAt(head, k, n)]]
  <2>1. Tail(run) = [k \in 1 .. Len(run) - 1 |-> run[k + 1]]
    BY <1>2, <1>5, <1>6
  <2>2. \A k \in 1 .. count - 1 : run[k + 1] = queue[PlaceAt(head, k, n)]
    <3>1. \A k \in 1 .. count - 1 : k + 1 \in 1 .. count /\ (k + 1) - 1 = k
      BY <1>2
    <3> QED BY <1>5, <3>1
  <2> QED BY <1>6, <2>1, <2>2
<1>8. Run(taken, n, After(head, n), tail)
          = [k \in 1 .. count - 1 |-> taken[PlaceAt(After(head, n), k - 1, n)]]
  BY <1>3 DEF Run
<1>9. Run(taken, n, After(head, n), tail) = Tail(run)
  BY <1>4, <1>7, <1>8
<1> QED BY <1>6, <1>9 DEF TakenFrom

\* Giving back a surface puts it at the end of the run.
LEMMA GiveIsAppend ==
    ASSUME NEW n \in Nat, NEW queue, NEW used, NEW head, NEW tail, NEW s \in used,
           Placed(queue, used, n), OneRun(queue, n, head, tail)
    PROVE  GivenTo(Run(queue, n, head, tail), s,
                   Run([queue EXCEPT ![tail] = s], n, head, After(tail, n)))
<1> DEFINE given == [queue EXCEPT ![tail] = s]
           count == RunCount(queue, n, head, tail)
           run   == Run(queue, n, head, tail)
<1>1. /\ head \in 0 .. n - 1 /\ tail \in 0 .. n - 1 /\ s # Null
      /\ \A i \in 0 .. n - 1 : given[i] = IF i = tail THEN s ELSE queue[i]
  BY DEF OneRun, Placed, Null
<1>2. queue[tail] = Null
  BY TailIsEmpty
<1>3. count \in 0 .. n - 1 /\ PlaceAt(head, count, n) = tail
  BY <1>1, <1>2 DEF RunCount, PlaceAt
<1>4. RunCount(given, n, head, After(tail, n)) = count + 1
  <2>1. CASE After(tail, n) = head
    <3>1. given[head] # Null
      BY <1>1, <1>2, <2>1 DEF OneRun, RunHolds, After
    <3> QED BY <1>1, <1>2, <2>1, <3>1 DEF RunCount, After
  <2>2. CASE After(tail, n) # head
    BY <1>1, <1>2, <2>2 DEF RunCount, After
  <2> QED BY <2>1, <2>2
<1>5. run = [k \in 1 .. count |-> queue[PlaceAt(head, k - 1, n)]]
  BY DEF Run
<1>6. \A k \in 1 .. count : given[PlaceAt(head, k - 1, n)] = queue[PlaceAt(head, k - 1, n)]
  <2> SUFFICES ASSUME NEW k \in 1 .. count
               PROVE  given[PlaceAt(head, k - 1, n)] = queue[PlaceAt(head, k - 1, n)]
    OBVIOUS
  <2>1. PlaceAt(head, k - 1, n) \in 0 .. n - 1 /\ PlaceAt(head, k - 1, n) # tail
    BY <1>1, <1>3 DEF PlaceAt
  <2> QED BY <1>1, <2>1
<1> HIDE DEF count
<1>7. Append(run, s) = [k \in 1 .. count + 1 |-> IF k = count + 1 THEN s ELSE queue[PlaceAt(head, k - 1, n)]]
  BY <1>3, <1>5
<1>8. Run(given, n, head, After(tail, n)) = [k \in 1 .. count + 1 |-> given[PlaceAt(head, k - 1, n)]]
  BY <1>4 DEF Run
<1>9. given[PlaceAt(head, (count + 1) - 1, n)] = s
  <2>1. (count + 1) - 1 = count
    BY <1>3
  <2> QED BY <1>1, <1>3, <2>1
<1>10. Run(given, n, head, After(tail, n)) = Append(run, s)
  <2>1. \A k \in 1 .. count + 1 : k = count + 1 \/ k \in 1 .. count
    BY <1>3
  <2>2. \A k \in 1 .. count + 1 :
           given[PlaceAt(head, k - 1, n)] = IF k = count + 1 THEN s ELSE queue[PlaceAt(head, k - 1, n)]
    BY <1>6, <1>9, <2>1
  <2> QED BY <1>7, <1>8, <2>2
<1> QED BY <1>10 DEF GivenTo

\* The run of a ring just filled.
LEMMA FilledRun ==
    ASSUME NEW n \in Nat, n > 0
    PROVE  Run([i \in 0 .. n - 1 |-> i], n, 0, 0) = [k \in 1 .. n |-> k - 1]
<1> DEFINE full == [i \in 0 .. n - 1 |-> i]
<1>1. RunCount(full, n, 0, 0) = n
  BY DEF RunCount, Null
<1>2. \A k \in 1 .. n : full[PlaceAt(0, k - 1, n)] = k - 1
  BY DEF PlaceAt
<1> QED BY <1>1, <1>2 DEF Run

LEMMA FreeIsRun ==
    TypeInv /\ RingInv =>
        FreeSequence = IF context_id = Invalid THEN <<>>
                       ELSE Run(va_surfaces_queue, queue_length, queue_head, queue_tail)
<1> SUFFICES ASSUME TypeInv, RingInv, context_id # Invalid
             PROVE  FreeSequence = Run(va_surfaces_queue, queue_length, queue_head, queue_tail)
  BY DEF FreeSequence
<1>1. /\ queue_length \in Nat /\ queue_head \in 0 .. queue_length - 1
      /\ queue_tail \in 0 .. queue_length - 1
  BY DEF TypeInv, TypeOK, RingTypes, RingInv, OneRun
<1>2. FreeCount = RunCount(va_surfaces_queue, queue_length, queue_head, queue_tail)
  BY <1>1 DEF FreeCount, RunCount
<1>3. FreeCount \in 0 .. queue_length
  BY <1>1, <1>2 DEF RunCount
<1>4. ASSUME NEW k \in 1 .. FreeCount
      PROVE  (queue_head + k - 1) % queue_length = PlaceAt(queue_head, k - 1, queue_length)
  <2>1. k - 1 \in 0 .. queue_length - 1
    BY <1>1, <1>3
  <2>2. queue_head + k - 1 = queue_head + (k - 1)
    BY <1>1, <1>3
  <2> QED BY <1>1, <2>1, <2>2, PlaceIs
<1> QED BY <1>2, <1>4 DEF FreeSequence, Run

\* The queue has the length of one of the attempts, or none yet.
LengthInv == queue_length \in Sizes \cup {0}

LEMMA LengthInvStep == TypeInv /\ LengthInv /\ [Next]_vars => LengthInv'
<1> SUFFICES ASSUME TypeInv, LengthInv, [Next]_vars PROVE LengthInv'
  OBVIOUS
<1>1. \A n \in Sizes : Larger(queue_length, n) \in Sizes
  BY PoolAssumption DEF PoolAssumption, LengthInv, Larger
<1>2. CASE GetFormat
  BY <1>1, <1>2 DEF GetFormat, InitFailsGrowingQueue, InitFailsCreatingSurfaces,
       InitFailsCreatingContext, InitSucceeds, CreateSurfaces, ringVars, LengthInv
<1>3. CASE GetBuffer \/ GetBufferFailsWrapping \/ \E s \in frames : ReleaseSurface(s)
  BY <1>3 DEF GetBuffer, GetBufferFailsWrapping, ReleaseSurface, LengthInv
<1>4. CASE Close \/ Finalize \/ UNCHANGED vars
  BY <1>4 DEF Close, Finalize, vars, ringVars, LengthInv
<1> QED BY <1>2, <1>3, <1>4 DEF Next

\* The pool promises what FreeList does, for pools of any size, every failure
\* of an attempt and any order of the releases: FFmpeg gets only a free
\* surface, the one that has been free for longest, and a surface it gives back
\* is free again.
THEOREM PoolIsFreeList == Spec => ImplementsFreeList
<1> DEFINE All == TypeInv /\ RingInv /\ LengthInv
           Ring == Run(va_surfaces_queue, queue_length, queue_head, queue_tail)
<1>p. (TypeInv /\ RingInv =>
        FreeSequence = IF context_id = Invalid THEN <<>>
                       ELSE Run(va_surfaces_queue, queue_length, queue_head, queue_tail))'
  BY FreeIsRun, PTL
<1>1. Init => FIFO!Init
  BY DEF Init, FIFO!Init, FreeSequence
<1>2. All /\ All' /\ [Next]_vars => [FIFO!Next]_<<FreeSequence, frames>>
  <2> SUFFICES ASSUME All, All', [Next]_vars PROVE [FIFO!Next]_<<FreeSequence, frames>>
    OBVIOUS
  <2>a. /\ FreeSequence = IF context_id = Invalid THEN <<>> ELSE Ring
        /\ FreeSequence' = IF context_id' = Invalid THEN <<>> ELSE Ring'
    BY <1>p, FreeIsRun
  <2>b. Lifecycle /\ queue_length \in Nat
    BY DEF TypeInv, TypeOK, RingTypes
  <2>c. context_id # Invalid =>
            /\ Placed(va_surfaces_queue, frames, queue_length)
            /\ OneRun(va_surfaces_queue, queue_length, queue_head, queue_tail)
            /\ NextSlot(queue_head) = After(queue_head, queue_length)
    <3> SUFFICES ASSUME context_id # Invalid
                 PROVE  /\ Placed(va_surfaces_queue, frames, queue_length)
                        /\ OneRun(va_surfaces_queue, queue_length, queue_head, queue_tail)
                        /\ NextSlot(queue_head) = After(queue_head, queue_length)
      OBVIOUS
    <3>1. /\ Placed(va_surfaces_queue, frames, queue_length)
          /\ OneRun(va_surfaces_queue, queue_length, queue_head, queue_tail)
      BY DEF RingInv
    <3>2. queue_length > 0 /\ queue_head \in 0 .. queue_length - 1
      BY <2>b, <3>1 DEF Lifecycle, OneRun
    <3> QED BY <2>b, <3>1, <3>2, NextSlotIs DEF After
  <2>d. Ring' = Run(va_surfaces_queue', queue_length', queue_head', queue_tail')
    OBVIOUS
  <2>e. /\ context_id # Invalid
        /\ va_surfaces_queue[queue_head] # Null
        => /\ Ring # <<>> /\ Head(Ring) = va_surfaces_queue[queue_head]
           /\ Run(Taken, queue_length, After(queue_head, queue_length), queue_tail) = Tail(Ring)
    <3> SUFFICES ASSUME context_id # Invalid, va_surfaces_queue[queue_head] # Null
                 PROVE  /\ Ring # <<>> /\ Head(Ring) = va_surfaces_queue[queue_head]
                        /\ Run(Taken, queue_length, After(queue_head, queue_length), queue_tail)
                               = Tail(Ring)
      OBVIOUS
    <3>1. /\ Placed(va_surfaces_queue, frames, queue_length)
          /\ OneRun(va_surfaces_queue, queue_length, queue_head, queue_tail)
      BY <2>c
    <3>2. TakenFrom(Ring, va_surfaces_queue[queue_head],
                    Run(Taken, queue_length, After(queue_head, queue_length), queue_tail))
      BY <2>b, <3>1, TakeIsTail DEF Taken
    <3> QED BY <3>2 DEF TakenFrom
  <2> HIDE DEF Ring
  <2>1. ASSUME NEW n \in Sizes, InitFailsGrowingQueue(n) \/ InitFailsCreatingSurfaces(n)
                                \/ InitFailsCreatingContext(n)
        PROVE  UNCHANGED <<FreeSequence, frames>>
    BY <2>1, <2>a, <2>b DEF InitFailsGrowingQueue, InitFailsCreatingSurfaces,
         InitFailsCreatingContext, CanInit, Lifecycle
  <2>2. ASSUME NEW n \in Sizes, InitSucceeds(n) PROVE FIFO!Next
    <3> DEFINE length == Larger(queue_length, n)
    <3>1. /\ context_id = Invalid /\ frames = {} /\ frames' = {}
          /\ context_id' = attempt + 1 /\ context_id' # Invalid
      BY <2>2, <2>b, PoolAssumption
         DEF PoolAssumption, InitSucceeds, CanInit, Lifecycle, TypeInv, TypeOK, Invalid
    <3>2. length \in Sizes /\ length \in Nat /\ length > 0
      BY PoolAssumption DEF PoolAssumption, LengthInv, Larger
    <3>3. /\ va_surfaces_queue' = [i \in 0 .. length - 1 |-> i]
          /\ queue_length' = length /\ queue_head' = 0 /\ queue_tail' = 0
      BY <2>2 DEF InitSucceeds, CreateSurfaces
    <3> HIDE DEF length
    <3>4. Ring' = Run([i \in 0 .. length - 1 |-> i], length, 0, 0)
      BY <3>3 DEF Ring
    <3>5. FreeSequence' = [k \in 1 .. length |-> k - 1]
      BY <2>a, <3>1, <3>2, <3>4, FilledRun
    <3>6. FIFO!Fill(length)
      BY <2>a, <3>1, <3>5 DEF FIFO!Fill
    <3> QED BY <3>2, <3>6 DEF FIFO!Next
  <2>3. CASE GetBuffer
    <3>1. /\ context_id # Invalid /\ context_id' = context_id /\ queue_length' = queue_length
          /\ va_surfaces_queue' = Taken /\ queue_head' = After(queue_head, queue_length)
          /\ queue_tail' = queue_tail
          /\ frames' = frames \cup {va_surfaces_queue[queue_head]}
          /\ va_surfaces_queue[queue_head] # Null
      BY <2>3, <2>b, <2>c DEF GetBuffer, CanAcquire, Lifecycle, vaVars
    <3>2. /\ Ring # <<>> /\ Head(Ring) = va_surfaces_queue[queue_head]
          /\ Ring' = Tail(Ring)
      BY <2>d, <2>e, <3>1
    <3>3. FIFO!Take
      BY <2>a, <3>1, <3>2 DEF FIFO!Take
    <3> QED BY <3>3 DEF FIFO!Next
  <2>4. CASE GetBufferFailsWrapping
    <3> DEFINE s == va_surfaces_queue[queue_head]
               used == frames \cup {s}
               next == After(queue_head, queue_length)
    <3>1. /\ context_id # Invalid /\ context_id' = context_id /\ queue_length' = queue_length
          /\ PutBack(Taken, s) /\ queue_head' = next /\ frames' = frames /\ s # Null
      BY <2>4, <2>b, <2>c DEF GetBufferFailsWrapping, CanAcquire, Lifecycle, vaVars
    <3>2. /\ Placed(Taken, used, queue_length)
          /\ OneRun(Taken, queue_length, next, queue_tail)
          /\ Ring # <<>> /\ Head(Ring) = s
          /\ Run(Taken, queue_length, next, queue_tail) = Tail(Ring)
      <4>1. /\ Placed(va_surfaces_queue, frames, queue_length)
            /\ OneRun(va_surfaces_queue, queue_length, queue_head, queue_tail)
        BY <2>c, <3>1
      <4> QED BY <2>b, <2>e, <3>1, <4>1, TakeKeepsRing DEF Taken
    <3>3. s \in used /\ queue_length > 0
      BY <2>b, <3>1 DEF Lifecycle
    <3> HIDE DEF s, used, next
    <3>4. /\ va_surfaces_queue' = [Taken EXCEPT ![queue_tail] = s]
          /\ queue_tail' = After(queue_tail, queue_length)
      BY <2>b, <3>1, <3>2, <3>3, PutBackIsGiving
    <3>5. Ring' = Append(Tail(Ring), Head(Ring))
      <4>1. GivenTo(Run(Taken, queue_length, next, queue_tail), s,
                    Run([Taken EXCEPT ![queue_tail] = s], queue_length, next,
                        After(queue_tail, queue_length)))
        BY <2>b, <3>2, <3>3, GiveIsAppend
      <4> QED BY <2>d, <3>1, <3>2, <3>4, <4>1 DEF GivenTo
    <3>6. FIFO!Rotate
      BY <2>a, <3>1, <3>2, <3>5 DEF FIFO!Rotate
    <3> QED BY <3>6 DEF FIFO!Next
  <2>5. ASSUME NEW s \in frames, ReleaseSurface(s) PROVE FIFO!Next
    <3>1. /\ context_id # Invalid /\ context_id' = context_id /\ queue_length' = queue_length
          /\ PutBack(va_surfaces_queue, s) /\ queue_head' = queue_head
          /\ frames' = frames \ {s} /\ queue_length > 0
      BY <2>5, <2>b DEF ReleaseSurface, Lifecycle, vaVars
    <3>2. /\ va_surfaces_queue' = [va_surfaces_queue EXCEPT ![queue_tail] = s]
          /\ queue_tail' = After(queue_tail, queue_length)
      BY <2>b, <2>c, <3>1, PutBackIsGiving
    <3>3. Ring' = Append(Ring, s)
      <4>1. /\ Placed(va_surfaces_queue, frames, queue_length)
            /\ OneRun(va_surfaces_queue, queue_length, queue_head, queue_tail)
        BY <2>c, <3>1
      <4>2. GivenTo(Ring, s,
                    Run([va_surfaces_queue EXCEPT ![queue_tail] = s], queue_length, queue_head,
                        After(queue_tail, queue_length)))
        BY <2>b, <4>1, GiveIsAppend DEF Ring
      <4> QED BY <2>d, <3>1, <3>2, <4>2 DEF GivenTo
    <3>4. FIFO!Give(s)
      BY <2>a, <3>1, <3>3 DEF FIFO!Give
    <3> QED BY <3>4 DEF FIFO!Next
  <2>6. CASE Finalize
    <3>1. FIFO!Dispose
      BY <2>6, <2>a DEF Finalize, FIFO!Dispose
    <3> QED BY <3>1 DEF FIFO!Next
  <2>7. CASE Close \/ UNCHANGED vars
    <3>1. UNCHANGED <<va_surfaces_queue, queue_length, queue_head, queue_tail, context_id, frames>>
      BY <2>7 DEF Close, vars, ringVars, vaVars
    <3> QED BY <2>a, <3>1 DEF Ring
  <2> QED
    BY <2>1, <2>2, <2>3, <2>4, <2>5, <2>6, <2>7 DEF Next, GetFormat
<1>3. Init => LengthInv
  BY DEF Init, LengthInv
<1>4. Spec => []LengthInv
  BY <1>3, TypeInvariant, LengthInvStep, PTL DEF Spec
<1>5. Spec => FIFO!Spec
  BY <1>1, <1>2, <1>4, TypeInvariant, RingInvariant, PTL DEF Spec, FIFO!Spec
<1> QED BY <1>5 DEF ImplementsFreeList
=============================================================================
