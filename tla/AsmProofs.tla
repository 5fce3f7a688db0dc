------------------------------ MODULE AsmProofs ------------------------------
(***************************************************************************)
(* Proofs about the ring of messages and the table of handlers: AsmQueue,  *)
(* for a ring of any length and any number of providers and consumers, and *)
(* AsmHandlers, for a table of any size, any number of threads per         *)
(* registration and any supply of parameter blocks.  They use no fairness. *)
(***************************************************************************)
EXTENDS AsmQueue, AsmHandlers, FiniteSetTheorems, TLAPS

-----------------------------------------------------------------------------
(* AsmQueue: the ring.                                                       *)

(* Distances around the ring, which replace the arithmetic modulo its length.*)

Dist(from, to) == IF to >= from THEN to - from ELSE to - from + ASM_UQ_CNT

After(i) == IF i + 1 = ASM_UQ_CNT THEN 0 ELSE i + 1

LEMMA NextSlotIs == \A i \in Slots : NextSlot(i) = After(i) /\ After(i) \in Slots
<1> SUFFICES ASSUME NEW i \in Slots PROVE NextSlot(i) = After(i) /\ After(i) \in Slots
  OBVIOUS
<1>1. CASE i + 1 = ASM_UQ_CNT
  BY <1>1, AsmAssumption DEF AsmAssumption, NextSlot, After, Slots
<1>2. CASE i + 1 < ASM_UQ_CNT
  BY <1>2, AsmAssumption DEF AsmAssumption, NextSlot, After, Slots
<1> QED BY <1>1, <1>2, AsmAssumption DEF AsmAssumption, Slots

LEMMA DistIs ==
    \A i, j \in Slots :
        /\ Dist(i, j) \in 0 .. ASM_UQ_CNT - 1
        /\ Dist(i, j) = 0 <=> i = j
        /\ Dist(After(i), j) = IF i = j THEN ASM_UQ_CNT - 1 ELSE Dist(i, j) - 1
        /\ Dist(i, After(j)) = IF i = After(j) THEN 0 ELSE Dist(i, j) + 1
        /\ i # j => Dist(j, i) = ASM_UQ_CNT - Dist(i, j)
  BY AsmAssumption DEF AsmAssumption, Dist, After, Slots

\* The ring is full when the tail has the whole ring but one slot behind it.
LEMMA FullIs ==
    \A i, j \in Slots : NextSlot(j) = i <=> Dist(i, j) = ASM_UQ_CNT - 1
  BY NextSlotIs, AsmAssumption DEF AsmAssumption, Dist, After, Slots

-----------------------------------------------------------------------------
(* The inductive invariant.                                                  *)

\* The slots from the head to before the tail hold the messages not yet taken.
RingInv ==
    /\ taken <= stored /\ stored - taken <= ASM_UQ_CNT - 1
    /\ Dist(g_asm_qhead, g_asm_qtail) = stored - taken
    /\ \A i \in Slots :
          Dist(g_asm_qhead, i) < stored - taken => g_asm_uq[i] = taken + 1 + Dist(g_asm_qhead, i)

Storing == \E p \in Providers : provider[p] = "storing"

\* A store is going on in one provider at a time, and never into a full ring.
StoreInv ==
    /\ \A p, q \in Providers : provider[p] = "storing" /\ provider[q] = "storing" => p = q
    /\ Storing => stored < MaxMessages /\ stored - taken < ASM_UQ_CNT - 1

\* The slot of a message being handled is as far ahead of the tail as there
\* are stores left before the tail comes round to it.
HandlerInv ==
    \A c \in Consumers : handling[c] # NoSlot =>
        /\ 1 <= message[c] /\ message[c] <= taken
        /\ stored + 1 <= message[c] + ASM_UQ_CNT =>
              Dist(g_asm_qtail, handling[c]) = message[c] + ASM_UQ_CNT - stored - 1
        /\ \/ g_asm_uq[handling[c]] = message[c]
           \/ stored + 1 > message[c] + ASM_UQ_CNT
           \/ stored + 1 = message[c] + ASM_UQ_CNT /\ Storing
        /\ (\A d \in Consumers : d = c) => message[c] = taken

Inv == TypeOK /\ RingInv /\ StoreInv /\ HandlerInv /\ OneHandlerPerMessage

LEMMA InvInit == Init => Inv
<1> SUFFICES ASSUME Init PROVE Inv
  OBVIOUS
<1>1. 0 \in Slots
  BY AsmAssumption DEF AsmAssumption, Slots
<1>2. TypeOK
  BY <1>1, AsmAssumption DEF AsmAssumption, Init, TypeOK
<1>3. RingInv
  BY <1>1, DistIs, AsmAssumption DEF AsmAssumption, Init, RingInv
<1> QED
  BY <1>2, <1>3 DEF Init, Inv, StoreInv, Storing, HandlerInv, OneHandlerPerMessage

LEMMA InvStep == Inv /\ [Next]_vars => Inv'
<1> SUFFICES ASSUME Inv, [Next]_vars PROVE Inv'
  OBVIOUS
<1>a. /\ TypeOK /\ RingInv /\ StoreInv /\ HandlerInv /\ OneHandlerPerMessage
      /\ g_asm_qhead \in Slots /\ g_asm_qtail \in Slots
      /\ stored \in Nat /\ taken \in Nat /\ \A c \in Consumers : message[c] \in Nat
      /\ ASM_UQ_CNT \in Nat /\ ASM_UQ_CNT > 1 /\ MaxMessages \in Nat
  BY AsmAssumption DEF AsmAssumption, Inv, TypeOK
<1>b. \A c \in Consumers : handling[c] # NoSlot => handling[c] \in Slots
  BY <1>a DEF TypeOK
<1>1. ASSUME NEW p \in Providers, Receive(p) \/ DropMessage(p) PROVE Inv'
  <2>1. /\ UNCHANGED <<g_asm_uq, g_asm_qhead, g_asm_qtail, handling, message, stored, taken>>
        /\ \A q \in Providers : provider'[q] = "storing" <=> provider[q] = "storing"
        /\ provider' \in [Providers -> {"ioctl", "holding", "storing"}]
    BY <1>1, <1>a DEF Receive, DropMessage, TypeOK
  <2>2. Storing' <=> Storing
    BY <2>1 DEF Storing
  <2> QED
    BY <1>a, <2>1, <2>2 DEF Inv, TypeOK, RingInv, StoreInv, HandlerInv, OneHandlerPerMessage
<1>2. ASSUME NEW p \in Providers, StartStore(p) PROVE Inv'
  <2>1. /\ UNCHANGED <<g_asm_qhead, g_asm_qtail, handling, message, stored, taken>>
        /\ g_asm_uq' = [g_asm_uq EXCEPT ![g_asm_qtail] = Torn]
        /\ provider' = [provider EXCEPT ![p] = "storing"] /\ stored < MaxMessages
        /\ ~Storing
    BY <1>2 DEF StartStore, MutexFree, Storing
  <2>2. /\ Storing' /\ provider' \in [Providers -> {"ioctl", "holding", "storing"}]
        /\ \A q \in Providers : provider'[q] = "storing" => q = p
    BY <1>a, <2>1 DEF Storing, TypeOK
  <2>3. stored - taken < ASM_UQ_CNT - 1
    BY <1>2, <1>a, FullIs DEF StartStore, Full, RingInv
  <2>4. TypeOK' /\ StoreInv'
    BY <1>a, <2>1, <2>2, <2>3 DEF TypeOK, StoreInv
  <2>5. RingInv'
    BY <1>a, <2>1, DistIs DEF RingInv, TypeOK
  <2>6. ASSUME NEW c \in Consumers, handling[c] # NoSlot
        PROVE  \/ g_asm_uq'[handling[c]] = message[c]
               \/ stored + 1 > message[c] + ASM_UQ_CNT
               \/ stored + 1 = message[c] + ASM_UQ_CNT
    <3>1. CASE handling[c] = g_asm_qtail
      <4>1. Dist(g_asm_qtail, handling[c]) = 0
        BY <1>a, <3>1, DistIs
      <4> QED BY <1>a, <2>6, <4>1 DEF HandlerInv
    <3>2. CASE handling[c] # g_asm_qtail
      BY <1>a, <1>b, <2>1, <2>6, <3>2 DEF HandlerInv, TypeOK
    <3> QED BY <3>1, <3>2
  <2>7. HandlerInv' /\ OneHandlerPerMessage'
    BY <1>a, <2>1, <2>2, <2>6 DEF HandlerInv, OneHandlerPerMessage
  <2> QED BY <2>4, <2>5, <2>7 DEF Inv
<1>3. ASSUME NEW p \in Providers, EndStore(p) PROVE Inv'
  <2>1. /\ UNCHANGED <<g_asm_qhead, handling, message, taken>>
        /\ g_asm_uq' = [g_asm_uq EXCEPT ![g_asm_qtail] = stored + 1]
        /\ g_asm_qtail' = After(g_asm_qtail) /\ stored' = stored + 1
        /\ provider' = [provider EXCEPT ![p] = "ioctl"] /\ Storing
        /\ provider[p] = "storing"
    BY <1>3, <1>a, NextSlotIs DEF EndStore, Storing
  <2>2. /\ ~Storing' /\ provider' \in [Providers -> {"ioctl", "holding", "storing"}]
        /\ stored < MaxMessages /\ stored - taken < ASM_UQ_CNT - 1
    BY <1>a, <2>1 DEF StoreInv, Storing, TypeOK
  <2>3. TypeOK' /\ StoreInv'
    BY <1>a, <2>1, <2>2, NextSlotIs DEF TypeOK, StoreInv, Storing
  <2>4. RingInv'
    <3>1. Dist(g_asm_qhead, g_asm_qtail') = Dist(g_asm_qhead, g_asm_qtail) + 1
      <4>1. Dist(g_asm_qhead, g_asm_qtail) < ASM_UQ_CNT - 1
        BY <1>a, <2>2 DEF RingInv
      <4>2. g_asm_qhead # After(g_asm_qtail)
        BY <1>a, <4>1, FullIs, NextSlotIs
      <4> QED BY <1>a, <2>1, <4>2, DistIs
    <3>2. ASSUME NEW i \in Slots, Dist(g_asm_qhead, i) < stored + 1 - taken
          PROVE  g_asm_uq'[i] = taken + 1 + Dist(g_asm_qhead, i)
      <4>1. CASE i = g_asm_qtail
        BY <1>a, <2>1, <4>1 DEF RingInv, TypeOK
      <4>2. CASE i # g_asm_qtail
        <5>1. Dist(g_asm_qhead, i) # Dist(g_asm_qhead, g_asm_qtail)
          BY <1>a, <4>2 DEF Dist, Slots
        <5> QED BY <1>a, <2>1, <3>2, <4>2, <5>1, DistIs DEF RingInv, TypeOK
      <4> QED BY <4>1, <4>2
    <3> QED BY <1>a, <2>1, <2>2, <3>1, <3>2 DEF RingInv
  <2>5. ASSUME NEW c \in Consumers, handling[c] # NoSlot
        PROVE  /\ stored + 2 <= message[c] + ASM_UQ_CNT =>
                     Dist(After(g_asm_qtail), handling[c]) = message[c] + ASM_UQ_CNT - stored - 2
               /\ g_asm_uq'[handling[c]] = message[c] \/ stored + 2 > message[c] + ASM_UQ_CNT
    <3>1. CASE stored + 2 <= message[c] + ASM_UQ_CNT
      <4>1. /\ Dist(g_asm_qtail, handling[c]) = message[c] + ASM_UQ_CNT - stored - 1
            /\ g_asm_uq[handling[c]] = message[c]
        BY <1>a, <2>5, <3>1 DEF HandlerInv
      <4>2. handling[c] # g_asm_qtail
        BY <1>a, <1>b, <3>1, <4>1, DistIs
      <4> QED BY <1>a, <1>b, <2>1, <2>5, <4>1, <4>2, DistIs DEF TypeOK
    <3>2. CASE stored + 2 > message[c] + ASM_UQ_CNT
      BY <1>a, <3>2
    <3> QED BY <1>a, <3>1, <3>2
  <2>6. HandlerInv' /\ OneHandlerPerMessage'
    BY <1>a, <2>1, <2>5 DEF HandlerInv, OneHandlerPerMessage
  <2> QED BY <2>3, <2>4, <2>6 DEF Inv
<1>4. ASSUME NEW c \in Consumers, Take(c) PROVE Inv'
  <2>1. /\ UNCHANGED <<g_asm_uq, g_asm_qtail, provider, stored>>
        /\ handling' = [handling EXCEPT ![c] = g_asm_qhead]
        /\ message' = [message EXCEPT ![c] = g_asm_uq[g_asm_qhead]]
        /\ taken' = g_asm_uq[g_asm_qhead] /\ g_asm_qhead' = After(g_asm_qhead)
        /\ g_asm_qhead # g_asm_qtail /\ ~Storing /\ handling[c] = NoSlot
    BY <1>4, <1>a, NextSlotIs DEF Take, MutexFree, Storing
  <2>2. stored - taken > 0 /\ g_asm_uq[g_asm_qhead] = taken + 1
    BY <1>a, <2>1, DistIs DEF RingInv
  <2>3. TypeOK'
    BY <1>a, <2>1, <2>2, NextSlotIs DEF TypeOK
  <2>4. StoreInv'
    BY <1>a, <2>1 DEF StoreInv, Storing
  <2>5. RingInv'
    <3>1. ASSUME NEW i \in Slots, Dist(After(g_asm_qhead), i) < stored - taken - 1
          PROVE  g_asm_uq[i] = taken + 2 + Dist(After(g_asm_qhead), i)
      <4>1. i # g_asm_qhead /\ Dist(After(g_asm_qhead), i) = Dist(g_asm_qhead, i) - 1
        BY <1>a, <3>1, DistIs DEF RingInv
      <4> QED BY <1>a, <3>1, <4>1, DistIs DEF RingInv
    <3>2. Dist(After(g_asm_qhead), g_asm_qtail) = Dist(g_asm_qhead, g_asm_qtail) - 1
      BY <1>a, <2>1, DistIs
    <3> QED BY <1>a, <2>1, <2>2, <3>1, <3>2 DEF RingInv
  <2>6. HandlerInv'
    <3>1. ASSUME NEW d \in Consumers, handling'[d] # NoSlot, d = c PROVE
            /\ 1 <= message'[d] /\ message'[d] = taken'
            /\ Dist(g_asm_qtail, handling'[d]) = message'[d] + ASM_UQ_CNT - stored - 1
            /\ g_asm_uq[handling'[d]] = message'[d]
      <4>1. handling'[d] = g_asm_qhead /\ message'[d] = taken + 1 /\ taken' = taken + 1
        BY <1>a, <2>1, <2>2, <3>1 DEF TypeOK
      <4>2. Dist(g_asm_qtail, g_asm_qhead) = ASM_UQ_CNT - (stored - taken)
        BY <1>a, <2>1, DistIs DEF RingInv
      <4> QED BY <1>a, <2>2, <4>1, <4>2
    <3>2. ASSUME NEW d \in Consumers, handling'[d] # NoSlot, d # c PROVE
            /\ handling'[d] = handling[d] /\ message'[d] = message[d]
            /\ taken' = taken + 1 /\ ~ (\A e \in Consumers : e = d)
      BY <1>a, <2>1, <2>2, <3>2 DEF TypeOK
    <3>3. Storing' <=> Storing
      BY <2>1 DEF Storing
    <3>4. taken' = taken + 1 /\ taken + 1 \in Nat
      BY <1>a, <2>1, <2>2
    <3>5. ASSUME NEW d \in Consumers, handling'[d] # NoSlot PROVE
            /\ 1 <= message'[d] /\ message'[d] <= taken'
            /\ stored' + 1 <= message'[d] + ASM_UQ_CNT =>
                  Dist(g_asm_qtail', handling'[d]) = message'[d] + ASM_UQ_CNT - stored' - 1
            /\ \/ g_asm_uq'[handling'[d]] = message'[d]
               \/ stored' + 1 > message'[d] + ASM_UQ_CNT
               \/ stored' + 1 = message'[d] + ASM_UQ_CNT /\ Storing'
            /\ (\A e \in Consumers : e = d) => message'[d] = taken'
      <4>1. CASE d = c
        BY <1>a, <2>1, <3>1, <3>4, <3>5, <4>1
      <4>2. CASE d # c
        BY <1>a, <2>1, <3>2, <3>3, <3>5, <4>2 DEF HandlerInv
      <4> QED BY <4>1, <4>2
    <3> QED BY <3>5 DEF HandlerInv
  <2>7. OneHandlerPerMessage'
    <3>1. \A d \in Consumers : d # c /\ handling'[d] # NoSlot =>
              message'[d] = message[d] /\ handling[d] # NoSlot /\ message[d] <= taken
      BY <1>a, <2>1 DEF HandlerInv, TypeOK
    <3>2. message'[c] = taken + 1
      BY <1>a, <2>1, <2>2 DEF TypeOK
    <3> QED BY <1>a, <3>1, <3>2 DEF OneHandlerPerMessage
  <2> QED BY <2>3, <2>4, <2>5, <2>6, <2>7 DEF Inv
<1>5. ASSUME NEW c \in Consumers, HandlerReturns(c) PROVE Inv'
  <2>1. /\ UNCHANGED <<g_asm_uq, g_asm_qhead, g_asm_qtail, provider, message, stored, taken>>
        /\ handling' = [handling EXCEPT ![c] = NoSlot]
        /\ \A d \in Consumers : handling'[d] # NoSlot => handling'[d] = handling[d]
    BY <1>5, <1>a DEF HandlerReturns, TypeOK
  <2>2. TypeOK' /\ RingInv' /\ StoreInv' /\ (Storing' <=> Storing)
    BY <1>a, <2>1 DEF TypeOK, RingInv, StoreInv, Storing
  <2>3. HandlerInv' /\ OneHandlerPerMessage'
    BY <1>a, <2>1, <2>2 DEF HandlerInv, OneHandlerPerMessage
  <2> QED BY <2>2, <2>3 DEF Inv
<1>6. CASE UNCHANGED vars
  BY <1>6, <1>a DEF vars, Inv, TypeOK, RingInv, StoreInv, Storing, HandlerInv, OneHandlerPerMessage
<1> QED
  BY <1>1, <1>2, <1>3, <1>4, <1>5, <1>6 DEF Next, ProviderStep, ConsumerStep, Poll

LEMMA Invariant == SafetySpec => []Inv
<1> QED BY InvInit, InvStep, PTL DEF SafetySpec

-----------------------------------------------------------------------------
(* What the invariant gives.                                                 *)

\* Every variable keeps its type; head and tail stay in the ring.
THEOREM TypeCorrect == SafetySpec => []TypeOK
<1>1. Inv => TypeOK
  BY DEF Inv
<1> QED BY <1>1, Invariant, PTL

\* Head and tail meet exactly when no message waits, for a ring of any length.
THEOREM HeadMeetsTailWhenEmpty == SafetySpec => []EmptyWhenHeadMeetsTail
<1>1. Inv => EmptyWhenHeadMeetsTail
  BY DistIs DEF Inv, TypeOK, RingInv, EmptyWhenHeadMeetsTail
<1> QED BY <1>1, Invariant, PTL

\* A handler's slot is not written to by a provider while there is one
\* consumer, and with more not before a whole lap of the ring.
THEOREM HandledSlotsAreStable == SafetySpec => []HandledSlotIsStable
<1>1. Inv => HandledSlotIsStable
  <2> SUFFICES ASSUME Inv, NEW c \in Consumers, handling[c] # NoSlot, g_asm_uq[handling[c]] # message[c]
               PROVE  Cardinality(Consumers) > 1 /\ stored + 1 >= message[c] + ASM_UQ_CNT
    BY DEF HandledSlotIsStable
  <2>1. /\ stored \in Nat /\ taken \in Nat /\ message[c] \in Nat
        /\ ASM_UQ_CNT \in Nat
        /\ stored + 1 > message[c] + ASM_UQ_CNT \/ (stored + 1 = message[c] + ASM_UQ_CNT /\ Storing)
    BY AsmAssumption DEF AsmAssumption, Inv, TypeOK, HandlerInv
  <2>2. message[c] # taken
    BY <2>1 DEF Inv, RingInv, StoreInv
  <2>3. PICK d \in Consumers : d # c
    BY <2>2 DEF Inv, HandlerInv
  <2>4. Cardinality(Consumers) > 1
    <3>1. IsFiniteSet({c, d}) /\ Cardinality({c, d}) = 2
      <4>1. IsFiniteSet({c}) /\ Cardinality({c}) = 1
        BY FS_Singleton
      <4>2. {c, d} = {c} \cup {d} /\ d \notin {c}
        BY <2>3
      <4> QED BY <4>1, <4>2, FS_AddElement
    <3>2. Cardinality({c, d}) <= Cardinality(Consumers)
      BY AsmAssumption, FS_Subset DEF AsmAssumption
    <3>3. Cardinality(Consumers) \in Nat
      BY AsmAssumption, FS_CardinalityType DEF AsmAssumption
    <3> QED BY <3>1, <3>2, <3>3
  <2> QED BY <2>1, <2>4
<1> QED BY <1>1, Invariant, PTL

\* No two handlers ever work on the same message.
THEOREM MessagesAreHandledOnce == SafetySpec => []OneHandlerPerMessage
<1>1. Inv => OneHandlerPerMessage
  BY DEF Inv
<1> QED BY <1>1, Invariant, PTL

\* A provider drops a message only when the ring is full of waiting ones.
THEOREM DropsAreForced == SafetySpec => DropsOnlyWhenFull
<1> DEFINE Step == \A p \in Providers :
                     provider[p] = "holding" /\ provider'[p] = "ioctl" => stored - taken = ASM_UQ_CNT - 1
<1>1. Inv /\ [Next]_vars => [Step]_vars
  <2> SUFFICES ASSUME Inv, [Next]_vars, NEW p \in Providers, provider[p] = "holding", provider'[p] = "ioctl"
               PROVE  stored - taken = ASM_UQ_CNT - 1
    OBVIOUS
  <2>1. PICK q \in Providers : ProviderStep(q)
    BY DEF Next, ConsumerStep, Poll, Take, HandlerReturns, vars
  <2>2. DropMessage(q)
    BY <2>1 DEF ProviderStep, Receive, StartStore, EndStore, Inv, TypeOK
  <2> QED BY <2>2, FullIs DEF DropMessage, Full, Inv, TypeOK, RingInv
<1> QED BY <1>1, Invariant, PTL DEF SafetySpec, DropsOnlyWhenFull

-----------------------------------------------------------------------------
(* The refinement.  The messages waiting in the ring are those numbered from *)
(* taken + 1 to stored, whatever slots they are in.                          *)

Waiting == [k \in 1 .. stored - taken |-> taken + k]

InRing == [k \in 1 .. Queued |-> g_asm_uq[(g_asm_qhead + k - 1) % ASM_UQ_CNT]]

LEMMA QueuedIs == \A i, j \in Slots : (j - i) % ASM_UQ_CNT = Dist(i, j)
<1> SUFFICES ASSUME NEW i \in Slots, NEW j \in Slots PROVE (j - i) % ASM_UQ_CNT = Dist(i, j)
  OBVIOUS
<1>1. CASE j >= i
  BY <1>1, AsmAssumption DEF AsmAssumption, Dist, Slots
<1>2. CASE j < i
  BY <1>2, AsmAssumption DEF AsmAssumption, Dist, Slots
<1> QED BY <1>1, <1>2 DEF Slots

\* The slot k places after slot i.
LEMMA SlotIs ==
    ASSUME NEW i \in Slots, NEW k \in 0 .. ASM_UQ_CNT - 1
    PROVE  /\ (i + k) % ASM_UQ_CNT \in Slots
           /\ Dist(i, (i + k) % ASM_UQ_CNT) = k
<1>1. CASE i + k < ASM_UQ_CNT
  <2>1. (i + k) % ASM_UQ_CNT = i + k
    BY <1>1, AsmAssumption DEF AsmAssumption, Slots
  <2> QED BY <1>1, <2>1, AsmAssumption DEF AsmAssumption, Dist, Slots
<1>2. CASE i + k >= ASM_UQ_CNT
  <2>1. (i + k) % ASM_UQ_CNT = i + k - ASM_UQ_CNT
    BY <1>2, AsmAssumption DEF AsmAssumption, Slots
  <2> QED BY <1>2, <2>1, AsmAssumption DEF AsmAssumption, Dist, Slots
<1> QED BY <1>1, <1>2, AsmAssumption DEF AsmAssumption, Slots

LEMMA InRingIsWaiting == Inv => InRing = Waiting
<1> SUFFICES ASSUME Inv PROVE InRing = Waiting
  OBVIOUS
<1>1. /\ g_asm_qhead \in Slots /\ g_asm_qtail \in Slots /\ RingInv
      /\ stored \in Nat /\ taken \in Nat /\ ASM_UQ_CNT \in Nat
  BY AsmAssumption DEF AsmAssumption, Inv, TypeOK
<1>2. Queued = stored - taken
  BY <1>1, QueuedIs DEF Queued, RingInv
<1>3. ASSUME NEW k \in 1 .. stored - taken
      PROVE  g_asm_uq[(g_asm_qhead + k - 1) % ASM_UQ_CNT] = taken + k
  <2>1. k - 1 \in 0 .. ASM_UQ_CNT - 1 /\ k - 1 < stored - taken /\ k - 1 \in Int
    BY <1>1 DEF RingInv
  <2> DEFINE i == (g_asm_qhead + (k - 1)) % ASM_UQ_CNT
  <2>2. i \in Slots /\ Dist(g_asm_qhead, i) = k - 1
    BY <1>1, <2>1, SlotIs
  <2>3. g_asm_uq[i] = taken + 1 + (k - 1)
    BY <1>1, <2>1, <2>2 DEF RingInv
  <2>4. i = (g_asm_qhead + k - 1) % ASM_UQ_CNT
    BY <1>1 DEF Slots
  <2> QED BY <1>1, <2>3, <2>4
<1> QED BY <1>2, <1>3 DEF InRing, Waiting

\* The ring promises what MessageFifo does: messages are handed out in the
\* order in which they were stored, each once, and at most one slot less than
\* the ring has can wait.  A finished store is Accept, a consumer's taking a
\* slot HandOut; every other step leaves the abstract queue as it is.
THEOREM RingIsFifo == SafetySpec => ImplementsMessageFifo
<1>p. (Inv => InRing = Waiting)'
  BY InRingIsWaiting, PTL
<1>1. Init => FIFO!Init
  <2> SUFFICES ASSUME Init PROVE FIFO!Init
    OBVIOUS
  <2>1. stored = 0 /\ taken = 0 /\ InRing = Waiting
    BY InvInit, InRingIsWaiting DEF Init
  <2>2. InRing = <<>>
    BY <2>1 DEF Waiting
  <2> QED BY <2>1, <2>2 DEF FIFO!Init, InRing
<1>2. Inv /\ Inv' /\ [Next]_vars => [FIFO!Next]_<<InRing, stored, taken>>
  <2> SUFFICES ASSUME Inv, Inv', [Next]_vars PROVE [FIFO!Next]_<<InRing, stored, taken>>
    OBVIOUS
  <2>a. /\ InRing = Waiting /\ InRing' = Waiting'
        /\ stored \in Nat /\ taken \in Nat /\ taken <= stored /\ ASM_UQ_CNT \in Nat
        /\ RingInv /\ StoreInv
    <3>1. InRing = Waiting
      BY InRingIsWaiting
    <3>2. InRing' = Waiting'
      BY <1>p
    <3> QED BY <3>1, <3>2, AsmAssumption DEF AsmAssumption, Inv, TypeOK, RingInv
  <2>1. ASSUME NEW p \in Providers, EndStore(p) PROVE FIFO!Accept
    <3>1. stored' = stored + 1 /\ taken' = taken /\ Storing
      BY <2>1 DEF EndStore, Storing
    <3>2. stored - taken < ASM_UQ_CNT - 1
      BY <2>a, <3>1 DEF StoreInv
    <3>3. Len(InRing) = stored - taken
      BY <2>a DEF Waiting
    <3>4. InRing' = Append(InRing, stored + 1)
      BY <2>a, <3>1 DEF Waiting
    <3> QED BY <3>1, <3>2, <3>3, <3>4 DEF FIFO!Accept, InRing
  <2>2. ASSUME NEW c \in Consumers, Take(c) PROVE FIFO!HandOut
    <3>1. stored' = stored /\ taken' = g_asm_uq[g_asm_qhead] /\ g_asm_qhead # g_asm_qtail
      BY <2>2 DEF Take
    <3>2. taken' = taken + 1 /\ stored - taken > 0
      BY <2>a, <3>1, DistIs DEF Inv, TypeOK, RingInv
    <3>3. Waiting \in Seq(Int) /\ Len(Waiting) = stored - taken /\ Waiting # <<>>
      BY <2>a, <3>2 DEF Waiting
    <3>4. Head(InRing) = taken + 1
      BY <2>a, <3>2, <3>3 DEF Waiting
    <3>5. InRing' = Tail(InRing)
      BY <2>a, <3>1, <3>2, <3>3 DEF Waiting
    <3> QED BY <2>a, <3>1, <3>2, <3>3, <3>4, <3>5 DEF FIFO!HandOut, InRing
  <2>3. ASSUME UNCHANGED <<stored, taken>> PROVE UNCHANGED <<InRing, stored, taken>>
    BY <2>a, <2>3 DEF Waiting
  <2>4. \/ \E p \in Providers : EndStore(p)
        \/ \E c \in Consumers : Take(c)
        \/ UNCHANGED <<stored, taken>>
    BY DEF Next, ProviderStep, ConsumerStep, Receive, DropMessage, StartStore, Poll,
           HandlerReturns, vars
  <2> QED BY <2>1, <2>2, <2>3, <2>4 DEF FIFO!Next
<1>3. SafetySpec => FIFO!Spec
  BY <1>1, <1>2, Invariant, PTL DEF SafetySpec, FIFO!Spec, InRing
<1> QED BY <1>3 DEF ImplementsMessageFifo

-----------------------------------------------------------------------------
(* AsmHandlers: the table and its threads.                                   *)

(* The inductive invariant.                                                  *)

\* A thread is back in its ioctl only while its handler is not removed, so that
\* no more than the message that ends that ioctl can come late.
LateInv ==
    \A p \in Params :
        /\ thread[p] = "none" => ~open[p]
        /\ thread[p] = "new" => open[p]
        /\ open[p] \/ thread[p] \in {"none", "new", "ioctl"} => late[p] = 0
        /\ late[p] <= 1

Creating(c) == call[c].step \in {"scan", "store"}

\* A block that is being created is its creator's alone: no other call has it,
\* and no entry holds it but one that a removal has still to clear.
CreatorInv ==
    \A c \in Callers : Creating(c) =>
        /\ call[c].param \in Params /\ open[call[c].param] /\ thread[call[c].param] # "none"
        /\ thread[call[c].param] = "new" <=> call[c].step = "scan"
        /\ \A d \in Callers : Creating(d) /\ call[d].param = call[c].param => d = c
        /\ \A i \in Table : g_hdl_tbl[i] = call[c].param => Clearing(i)

\* The entry a creator found free is free until it stores, unless it has met
\* another creator there.
WindowInv ==
    \A c \in Callers : call[c].step = "store" =>
        /\ ~Free(call[c].at) =>
              call[c].param \in met /\ (Clearing(call[c].at) \/ g_hdl_tbl[call[c].at] \in met)
        /\ \A d \in Callers : call[d].step = "store" /\ call[d].at = call[c].at /\ d # c =>
              call[c].param \in met

\* The entry that a removal has found goes on holding what it found, unless a
\* creator that met another one has stored there.
RemovalInv ==
    /\ call[App].step = "clear" => ~Free(call[App].at)
    /\ call[App].step = "close" =>
          /\ ~Free(call[App].at)
          /\ g_hdl_tbl[call[App].at] \notin met =>
                g_hdl_tbl[call[App].at] = call[App].param /\ id[call[App].param] = call[App].id

\* A call that goes on to a copy has one to create.
LeftInv == \A c \in Callers : call[c].step = "next" => call[c].left > 0

TableTypeOK ==
    /\ g_hdl_tbl \in [Table -> Params \cup {NoParam}]
    /\ open \in [Params -> BOOLEAN]
    /\ id \in [Params -> Ids]
    /\ thread \in [Params -> {"none", "new", "loop", "ioctl", "callback"}]
    /\ met \subseteq Params
    /\ late \in [Params -> Nat]

CallRecord == [step : {"idle", "next", "scan", "store", "close", "clear"},
               id : Ids, left : Nat, at : Table, param : Params \cup {NoParam}]

CallTypeOK == call \in [Callers -> CallRecord] /\ LeftInv

HandlersInv ==
    /\ TableTypeOK /\ CallTypeOK /\ LateInv
    /\ EntriesAreLive /\ ServingThreadsAreListed
    /\ CreatorInv /\ WindowInv /\ RemovalInv

LEMMA TypeParts == TableTypeOK /\ CallTypeOK => HandlersTypeOK
  BY DEF HandlersTypeOK, TableTypeOK, CallTypeOK, CallRecord

LEMMA IdleIs == /\ Idle \in CallRecord /\ 1 \in Table
                /\ Idle.step = "idle" /\ Idle.id = Avrx /\ Idle.left = 0 /\ Idle.at = 1
  BY SMT, HandlerAssumption DEF HandlerAssumption, Idle, Doing, CallRecord, Table, Ids

LEMMA DoingIs ==
    ASSUME NEW step \in {"idle", "next", "scan", "store", "close", "clear"}, NEW x \in Ids,
           NEW left \in Nat, NEW i \in Table, NEW p \in Params \cup {NoParam}
    PROVE  LET r == Doing(step, x, left, i, p) IN
           r \in CallRecord /\ r.step = step /\ r.id = x /\ r.left = left /\ r.at = i /\ r.param = p
  BY DEF Doing, CallRecord

LEMMA CallsAre ==
    CallTypeOK => \A c \in Callers : /\ call[c] \in CallRecord /\ call[c].at \in Table
                                    /\ call[c].id \in Ids /\ call[c].left \in Nat
  BY DEF CallTypeOK, CallRecord

LEMMA HandlersInvInit == HandlersInit => HandlersInv
<1> SUFFICES ASSUME HandlersInit PROVE HandlersInv
  OBVIOUS
<1>1. TableTypeOK
  BY DEF HandlersInit, TableTypeOK, Ids
<1>2. \A c \in Callers : call[c] = Idle /\ call[c].step = "idle"
  BY IdleIs DEF HandlersInit
<1>3. CallTypeOK
  BY <1>2, IdleIs DEF HandlersInit, CallTypeOK, LeftInv
<1>4. App \in Callers
  BY DEF Callers
<1>5. CreatorInv /\ WindowInv /\ RemovalInv
  BY <1>2, <1>4 DEF CreatorInv, WindowInv, RemovalInv, Creating
<1>6. EntriesAreLive /\ ServingThreadsAreListed /\ LateInv
  BY DEF HandlersInit, EntriesAreLive, ServingThreadsAreListed, LateInv, Free
<1> QED BY <1>1, <1>3, <1>5, <1>6 DEF HandlersInv

-----------------------------------------------------------------------------
(* The steps that only change what one caller is about to do.                *)

LEMMA CallerMoves ==
    ASSUME HandlersInv, NEW c \in Callers, NEW r \in CallRecord,
           call' = [call EXCEPT ![c] = r],
           UNCHANGED <<g_hdl_tbl, open, id, thread, met, late>>,
           call[c].step \notin {"store", "clear"},
           r.step \in {"idle", "next", "scan", "close"},
           r.step = "next" => r.left > 0,
           r.step = "scan" => call[c].step = "scan" /\ r.param = call[c].param,
           r.step = "close" => /\ c = App /\ ~Free(r.at)
                               /\ g_hdl_tbl[r.at] = r.param /\ id[r.param] = r.id
    PROVE  HandlersInv'
<1> USE DEF HandlersInv
<1>1. TableTypeOK'
  BY DEF TableTypeOK
<1>2. call'[c] = r /\ \A d \in Callers \ {c} : call'[d] = call[d]
  BY DEF CallTypeOK
<1>3. CallTypeOK'
  BY <1>2 DEF CallTypeOK, LeftInv
<1>4. LateInv'
  BY DEF LateInv
<1>5. App \in Callers
  BY DEF Callers
<1>6. \A i \in Table : Clearing(i)' <=> Clearing(i)
  BY <1>2, <1>5 DEF Clearing
<1>7. EntriesAreLive'
  BY <1>6 DEF EntriesAreLive, Free
<1>8. \A p \in Params : ToStore(p) => ToStore(p)'
  BY <1>2 DEF ToStore
<1>9. ServingThreadsAreListed'
  BY <1>6, <1>8 DEF ServingThreadsAreListed
<1>10. CreatorInv'
  BY <1>2, <1>6 DEF CreatorInv, Creating
<1>11. WindowInv'
  BY <1>2, <1>6, CallsAre DEF WindowInv, Free
<1>12. RemovalInv'
  BY <1>2, <1>5 DEF RemovalInv, Free
<1> QED BY <1>1, <1>3, <1>4, <1>7, <1>9, <1>10, <1>11, <1>12

-----------------------------------------------------------------------------
(* The steps of a creation.                                                  *)

LEMMA AllocateKeeps ==
    ASSUME HandlersInv, NEW c \in Callers, Allocate(c) PROVE HandlersInv'
<1> USE DEF HandlersInv
<1>1. PICK p \in Params :
        /\ thread[p] = "none"
        /\ thread' = [thread EXCEPT ![p] = "new"]
        /\ open' = [open EXCEPT ![p] = TRUE]
        /\ id' = [id EXCEPT ![p] = call[c].id]
        /\ call' = [call EXCEPT ![c].step = "scan", ![c].left = @ - 1, ![c].param = p]
  BY DEF Allocate
<1>2. call[c].step = "next" /\ UNCHANGED <<g_hdl_tbl, met, late>>
  BY DEF Allocate
<1>3. call[c] \in CallRecord /\ call[c].left > 0
  BY <1>2 DEF CallTypeOK, LeftInv
<1>4. /\ call'[c] \in CallRecord /\ call'[c].step = "scan" /\ call'[c].param = p
      /\ \A d \in Callers \ {c} : call'[d] = call[d]
  BY <1>1, <1>3 DEF CallTypeOK, CallRecord
<1>5. TableTypeOK'
  BY <1>1, <1>2, <1>3 DEF TableTypeOK, CallRecord
<1>6. CallTypeOK'
  BY <1>1, <1>4 DEF CallTypeOK, LeftInv
<1>7. ~open[p] /\ late[p] = 0
  BY <1>1 DEF LateInv
<1>8. LateInv'
  BY <1>1, <1>2, <1>7 DEF LateInv, TableTypeOK
<1>9. App \in Callers
  BY DEF Callers
<1>10. \A i \in Table : Clearing(i)' <=> Clearing(i)
  BY <1>2, <1>4, <1>9 DEF Clearing
<1>11. \A i \in Table : g_hdl_tbl[i] = p => Clearing(i)
  BY <1>1, HandlerAssumption DEF EntriesAreLive, Free, HandlerAssumption
<1>12. EntriesAreLive'
  BY <1>1, <1>2, <1>10, <1>11 DEF EntriesAreLive, Free, TableTypeOK
<1>13. ServingThreadsAreListed'
  <2> SUFFICES ASSUME NEW q \in Params, open'[q], thread'[q] # "new", q \notin met'
               PROVE  ToStore(q)' \/ \E i \in Table : g_hdl_tbl'[i] = q /\ ~Clearing(i)'
    BY DEF ServingThreadsAreListed
  <2>1. q # p /\ open[q] /\ thread[q] # "new" /\ q \notin met
    BY <1>1, <1>2 DEF TableTypeOK
  <2>2. ToStore(q) => ToStore(q)'
    BY <1>2, <1>4 DEF ToStore
  <2> QED BY <1>2, <1>10, <2>1, <2>2 DEF ServingThreadsAreListed
<1>14. \A d \in Callers : Creating(d) => call[d].param # p /\ d # c
  BY <1>1, <1>2 DEF CreatorInv, Creating
<1>15. CreatorInv'
  <2> SUFFICES ASSUME NEW d \in Callers, Creating(d)'
               PROVE  /\ call'[d].param \in Params /\ open'[call'[d].param] /\ thread'[call'[d].param] # "none"
                      /\ thread'[call'[d].param] = "new" <=> call'[d].step = "scan"
                      /\ \A e \in Callers : Creating(e)' /\ call'[e].param = call'[d].param => e = d
                      /\ \A i \in Table : g_hdl_tbl'[i] = call'[d].param => Clearing(i)'
    BY DEF CreatorInv
  <2>1. CASE d = c
    <3>1. call'[d].param = p /\ call'[d].step = "scan"
      BY <1>4, <2>1
    <3>2. open'[p] /\ thread'[p] = "new"
      BY <1>1 DEF TableTypeOK
    <3>3. \A e \in Callers : Creating(e)' /\ call'[e].param = p => e = d
      BY <1>4, <1>14, <2>1 DEF Creating
    <3>4. \A i \in Table : g_hdl_tbl'[i] = p => Clearing(i)'
      BY <1>2, <1>10, <1>11
    <3> QED BY <3>1, <3>2, <3>3, <3>4
  <2>2. CASE d # c
    <3>1. call'[d] = call[d] /\ Creating(d) /\ call[d].param # p
      BY <1>4, <1>14, <2>2 DEF Creating
    <3>2. /\ call[d].param \in Params /\ open[call[d].param] /\ thread[call[d].param] # "none"
          /\ thread[call[d].param] = "new" <=> call[d].step = "scan"
      BY <3>1 DEF CreatorInv
    <3>3. \A e \in Callers : Creating(e)' /\ call'[e].param = call'[d].param => e = d
      BY <1>4, <3>1 DEF CreatorInv, Creating
    <3>4. \A i \in Table : g_hdl_tbl'[i] = call'[d].param => Clearing(i)'
      BY <1>2, <1>10, <3>1 DEF CreatorInv
    <3> QED BY <1>1, <3>1, <3>2, <3>3, <3>4 DEF TableTypeOK
  <2> QED BY <2>1, <2>2
<1>16. WindowInv'
  BY <1>2, <1>4, <1>10, CallsAre DEF WindowInv, Free
<1>17. RemovalInv'
  <2>1. App # c => call'[App] = call[App]
    BY <1>4, <1>9
  <2>2. CASE call'[App].step = "close"
    <3>1. call[App].step = "close" /\ App # c
      BY <1>4, <2>1, <2>2
    <3>2. \A i \in Table : ~Clearing(i)
      BY <3>1 DEF Clearing
    <3>3. \A i \in Table : g_hdl_tbl[i] # p
      BY <1>11, <3>2
    <3>4. call[App].at \in Table
      BY <1>9 DEF CallTypeOK, CallRecord
    <3> QED BY <1>1, <1>2, <2>1, <3>1, <3>3, <3>4 DEF RemovalInv, Free, TableTypeOK
  <2>3. CASE call'[App].step # "close"
    BY <1>2, <1>4, <2>1, <2>3 DEF RemovalInv, Free
  <2> QED BY <2>2, <2>3
<1> QED BY <1>5, <1>6, <1>8, <1>12, <1>13, <1>15, <1>16, <1>17

LEMMA StartThreadKeeps ==
    ASSUME HandlersInv, NEW c \in Callers, StartThread(c) PROVE HandlersInv'
<1> USE DEF HandlersInv
<1> DEFINE p == call[c].param
           i == call[c].at
<1>1. /\ call[c].step = "scan" /\ Free(i) /\ i \in Table
      /\ thread' = [thread EXCEPT ![p] = "loop"]
      /\ call' = [call EXCEPT ![c].step = "store"]
      /\ met' = IF Beside(c) = {} THEN met ELSE met \cup {p} \cup {call[d].param : d \in Beside(c)}
      /\ UNCHANGED <<g_hdl_tbl, open, id, late>>
  BY CallsAre DEF StartThread
<1>2. /\ Creating(c) /\ p \in Params /\ open[p] /\ thread[p] = "new"
      /\ \A j \in Table : g_hdl_tbl[j] = p => Clearing(j)
      /\ \A d \in Callers : Creating(d) /\ call[d].param = p => d = c
  BY <1>1 DEF CreatorInv, Creating
<1>3. call[c] \in CallRecord
  BY CallsAre
<1>4. /\ call'[c] \in CallRecord /\ call'[c].step = "store" /\ call'[c].param = p /\ call'[c].at = i
      /\ \A d \in Callers \ {c} : call'[d] = call[d]
  BY SMT, <1>1, <1>3 DEF CallTypeOK, CallRecord
<1>5. \A d \in Callers : d # c /\ call[d].step = "store" /\ call[d].at = i =>
          /\ call[d].param \in met' /\ p \in met'
  BY <1>1 DEF Beside
<1>6. met \subseteq met' /\ met' \subseteq Params
  <2>1. \A d \in Beside(c) : call[d].param \in Params
    BY DEF Beside, CreatorInv, Creating
  <2> QED BY <1>1, <1>2, <2>1 DEF TableTypeOK
<1> HIDE DEF p, i
<1>7. TableTypeOK'
  BY <1>1, <1>2, <1>6 DEF TableTypeOK
<1>8. CallTypeOK'
  BY <1>1, <1>4 DEF CallTypeOK, LeftInv
<1>9. LateInv'
  BY <1>1, <1>2 DEF LateInv, TableTypeOK
<1>10. App \in Callers
  BY DEF Callers
<1>11. \A j \in Table : Clearing(j)' <=> Clearing(j)
  BY <1>1, <1>4, <1>10 DEF Clearing
<1>12. EntriesAreLive'
  BY <1>1, <1>2, <1>11 DEF EntriesAreLive, Free, TableTypeOK
<1>13. ServingThreadsAreListed'
  <2> SUFFICES ASSUME NEW q \in Params, open'[q], thread'[q] # "new", q \notin met'
               PROVE  ToStore(q)' \/ \E j \in Table : g_hdl_tbl'[j] = q /\ ~Clearing(j)'
    BY DEF ServingThreadsAreListed
  <2>1. CASE q = p
    BY <1>4, <2>1 DEF ToStore
  <2>2. CASE q # p
    <3>1. open[q] /\ thread[q] # "new" /\ q \notin met
      BY <1>1, <1>6, <2>2 DEF TableTypeOK
    <3>2. ToStore(q) => ToStore(q)'
      BY <1>1, <1>4 DEF ToStore
    <3> QED BY <1>1, <1>11, <3>1, <3>2 DEF ServingThreadsAreListed
  <2> QED BY <2>1, <2>2
<1>14. CreatorInv'
  <2> SUFFICES ASSUME NEW d \in Callers, Creating(d)'
               PROVE  /\ call'[d].param \in Params /\ open'[call'[d].param] /\ thread'[call'[d].param] # "none"
                      /\ thread'[call'[d].param] = "new" <=> call'[d].step = "scan"
                      /\ \A e \in Callers : Creating(e)' /\ call'[e].param = call'[d].param => e = d
                      /\ \A j \in Table : g_hdl_tbl'[j] = call'[d].param => Clearing(j)'
    BY DEF CreatorInv
  <2>1. call'[d].param = call[d].param /\ Creating(d)
    BY <1>1, <1>2, <1>4 DEF Creating, p
  <2>2. /\ call[d].param \in Params /\ open[call[d].param] /\ thread[call[d].param] # "none"
        /\ thread[call[d].param] = "new" <=> call[d].step = "scan"
        /\ \A j \in Table : g_hdl_tbl[j] = call[d].param => Clearing(j)
    BY <2>1 DEF CreatorInv
  <2>3. \A e \in Callers : Creating(e)' => Creating(e) /\ call'[e].param = call[e].param
    BY <1>1, <1>2, <1>4 DEF Creating, p
  <2>4. \A e \in Callers : Creating(e)' /\ call'[e].param = call'[d].param => e = d
    BY <2>1, <2>3 DEF CreatorInv
  <2>5. \A j \in Table : g_hdl_tbl'[j] = call'[d].param => Clearing(j)'
    BY <1>1, <1>11, <2>1, <2>2
  <2>6. open'[call'[d].param] /\ thread'[call'[d].param] # "none"
    BY <1>1, <2>1, <2>2 DEF TableTypeOK
  <2>7. thread'[call'[d].param] = "new" <=> call'[d].step = "scan"
    <3>1. CASE d = c
      BY <1>1, <1>2, <1>4, <3>1 DEF TableTypeOK
    <3>2. CASE d # c
      BY <1>1, <1>2, <1>4, <2>1, <2>2, <3>2 DEF TableTypeOK
    <3> QED BY <3>1, <3>2
  <2> QED BY <2>1, <2>2, <2>4, <2>5, <2>6, <2>7
<1>15. WindowInv'
  <2> SUFFICES ASSUME NEW d \in Callers, call'[d].step = "store"
               PROVE  /\ g_hdl_tbl'[call'[d].at] # NoParam =>
                           /\ call'[d].param \in met'
                           /\ Clearing(call[d].at)' \/ g_hdl_tbl'[call'[d].at] \in met'
                      /\ \A e \in Callers : call'[e].step = "store" /\ call'[e].at = call'[d].at /\ e # d =>
                           call'[d].param \in met'
    <3>1. \A e \in Callers : call'[e].at = call[e].at
      BY <1>1, <1>4 DEF i
    <3> QED BY <3>1 DEF WindowInv, Free
  <2>1. CASE d = c
    BY <1>1, <1>4, <1>5, <2>1 DEF Free
  <2>2. CASE d # c
    <3>1. call'[d] = call[d] /\ call[d].step = "store" /\ call[d].at \in Table
      BY <1>4, <2>2, CallsAre
    <3>2. ~Free(call[d].at) =>
            call[d].param \in met /\ (Clearing(call[d].at) \/ g_hdl_tbl[call[d].at] \in met)
      BY <3>1 DEF WindowInv
    <3>3. \A e \in Callers : call'[e].step = "store" /\ call'[e].at = call[d].at /\ e # d =>
            call[d].param \in met'
      <4> SUFFICES ASSUME NEW e \in Callers, call'[e].step = "store", call'[e].at = call[d].at, e # d
                   PROVE  call[d].param \in met'
        OBVIOUS
      <4>1. CASE e = c
        BY <1>4, <1>5, <2>2, <3>1, <4>1
      <4>2. CASE e # c
        BY <1>4, <1>6, <3>1, <4>2 DEF WindowInv
      <4> QED BY <4>1, <4>2
    <3>4. g_hdl_tbl[call[d].at] # NoParam =>
            call[d].param \in met' /\ (Clearing(call[d].at)' \/ g_hdl_tbl[call[d].at] \in met')
      BY <1>6, <1>11, <3>1, <3>2 DEF Free
    <3> QED BY <1>1, <3>1, <3>3, <3>4
  <2> QED BY <2>1, <2>2
<1>16. RemovalInv'
  BY <1>1, <1>4, <1>6, <1>10 DEF RemovalInv, Free
<1> QED BY <1>7, <1>8, <1>9, <1>12, <1>13, <1>14, <1>15, <1>16

\* What the next copy or the end of the call leaves of it.
LEMMA AdvanceIs ==
    ASSUME CallTypeOK, NEW c \in Callers, Advance(c)
    PROVE  /\ CallTypeOK' /\ call'[c].step \in {"idle", "next"}
           /\ \A d \in Callers \ {c} : call'[d] = call[d]
<1> DEFINE r == IF call[c].left = 0 THEN Idle ELSE Doing("next", call[c].id, call[c].left, 1, NoParam)
<1>1. call' = [call EXCEPT ![c] = r]
  BY SMT DEF Advance
<1>2. r \in CallRecord /\ r.step \in {"idle", "next"} /\ (r.step = "next" => r.left > 0)
  BY CallsAre, IdleIs, DoingIs
<1> HIDE DEF r
<1> QED BY <1>1, <1>2 DEF CallTypeOK, LeftInv

LEMMA CreateFailsKeeps ==
    ASSUME HandlersInv, NEW c \in Callers, CreateFails(c) PROVE HandlersInv'
<1> USE DEF HandlersInv
<1> DEFINE p == call[c].param
<1>1. /\ call[c].step = "scan"
      /\ open' = [open EXCEPT ![p] = FALSE]
      /\ thread' = [thread EXCEPT ![p] = "none"]
      /\ id' = [id EXCEPT ![p] = Avrx]
      /\ UNCHANGED <<g_hdl_tbl, met, late>>
  BY DEF CreateFails
<1>2. CallTypeOK' /\ call'[c].step \in {"idle", "next"} /\ \A d \in Callers \ {c} : call'[d] = call[d]
  BY AdvanceIs DEF CreateFails
<1>3. /\ Creating(c) /\ p \in Params /\ open[p] /\ thread[p] = "new"
      /\ \A j \in Table : g_hdl_tbl[j] = p => Clearing(j)
      /\ \A d \in Callers : Creating(d) /\ call[d].param = p => d = c
  BY <1>1 DEF CreatorInv, Creating
<1> HIDE DEF p
<1>4. TableTypeOK'
  BY <1>1, <1>3 DEF TableTypeOK, Ids
<1>5. LateInv'
  BY <1>1, <1>3 DEF LateInv, TableTypeOK
<1>6. App \in Callers
  BY DEF Callers
<1>7. \A j \in Table : Clearing(j)' <=> Clearing(j)
  BY <1>1, <1>2, <1>6 DEF Clearing
<1>8. EntriesAreLive'
  BY <1>1, <1>3, <1>7 DEF EntriesAreLive, Free, TableTypeOK
<1>9. ServingThreadsAreListed'
  <2> SUFFICES ASSUME NEW q \in Params, open'[q], thread'[q] # "new", q \notin met'
               PROVE  ToStore(q)' \/ \E j \in Table : g_hdl_tbl'[j] = q /\ ~Clearing(j)'
    BY DEF ServingThreadsAreListed
  <2>1. q # p /\ open[q] /\ thread[q] # "new" /\ q \notin met
    BY <1>1, <1>3 DEF TableTypeOK
  <2>2. ToStore(q) => ToStore(q)'
    BY <1>1, <1>2 DEF ToStore
  <2> QED BY <1>1, <1>7, <2>1, <2>2 DEF ServingThreadsAreListed
<1>10. \A d \in Callers : Creating(d)' => Creating(d) /\ d # c /\ call'[d] = call[d] /\ call[d].param # p
  BY <1>2, <1>3 DEF Creating
<1>11. CreatorInv'
  <2> SUFFICES ASSUME NEW d \in Callers, Creating(d)'
               PROVE  /\ call'[d].param \in Params /\ open'[call'[d].param] /\ thread'[call'[d].param] # "none"
                      /\ thread'[call'[d].param] = "new" <=> call'[d].step = "scan"
                      /\ \A e \in Callers : Creating(e)' /\ call'[e].param = call'[d].param => e = d
                      /\ \A j \in Table : g_hdl_tbl'[j] = call'[d].param => Clearing(j)'
    BY DEF CreatorInv
  <2>1. /\ call[d].param \in Params /\ open[call[d].param] /\ thread[call[d].param] # "none"
        /\ thread[call[d].param] = "new" <=> call[d].step = "scan"
        /\ \A j \in Table : g_hdl_tbl[j] = call[d].param => Clearing(j)
    BY <1>10 DEF CreatorInv
  <2>2. \A e \in Callers : Creating(e)' /\ call'[e].param = call'[d].param => e = d
    BY <1>10 DEF CreatorInv
  <2> QED BY <1>1, <1>3, <1>7, <1>10, <2>1, <2>2 DEF TableTypeOK
<1>12. WindowInv'
  BY <1>1, <1>2, <1>7, CallsAre DEF WindowInv, Free
<1>13. RemovalInv'
  <2>1. App # c => call'[App] = call[App]
    BY <1>2, <1>6
  <2>2. CASE call'[App].step = "close"
    <3>1. call[App].step = "close" /\ App # c
      BY <1>2, <2>1, <2>2
    <3>2. \A j \in Table : g_hdl_tbl[j] # p
      BY <1>3, <3>1 DEF Clearing
    <3> QED BY <1>1, <1>3, <1>6, <2>1, <3>1, <3>2, CallsAre DEF RemovalInv, Free, TableTypeOK
  <2>3. CASE call'[App].step # "close"
    BY <1>1, <1>2, <2>1, <2>3 DEF RemovalInv, Free
  <2> QED BY <2>2, <2>3
<1> QED BY <1>2, <1>4, <1>5, <1>8, <1>9, <1>11, <1>12, <1>13

LEMMA StoreKeeps ==
    ASSUME HandlersInv, NEW c \in Callers, Store(c) PROVE HandlersInv'
<1> USE DEF HandlersInv
<1> DEFINE p == call[c].param
           i == call[c].at
<1>1. /\ call[c].step = "store" /\ i \in Table
      /\ g_hdl_tbl' = [g_hdl_tbl EXCEPT ![i] = p]
      /\ UNCHANGED <<open, id, thread, met, late>>
  BY CallsAre DEF Store
<1>2. CallTypeOK' /\ call'[c].step \in {"idle", "next"} /\ \A d \in Callers \ {c} : call'[d] = call[d]
  BY AdvanceIs DEF Store
<1>3. /\ Creating(c) /\ p \in Params /\ open[p] /\ thread[p] \notin {"none", "new"}
      /\ \A j \in Table : g_hdl_tbl[j] = p => Clearing(j)
      /\ \A d \in Callers : Creating(d) /\ call[d].param = p => d = c
  BY <1>1 DEF CreatorInv, Creating
<1>4. ~Free(i) => p \in met /\ (Clearing(i) \/ g_hdl_tbl[i] \in met)
  BY <1>1 DEF WindowInv
<1>5. \A d \in Callers : call[d].step = "store" /\ call[d].at = i /\ d # c => p \in met /\ call[d].param \in met
  BY <1>1 DEF WindowInv
<1> HIDE DEF p, i
<1>6. g_hdl_tbl'[i] = p /\ \A j \in Table : j # i => g_hdl_tbl'[j] = g_hdl_tbl[j]
  BY <1>1 DEF TableTypeOK
<1>7. p # NoParam
  BY <1>3, HandlerAssumption DEF HandlerAssumption
<1>8. TableTypeOK'
  BY <1>1, <1>3 DEF TableTypeOK
<1>9. LateInv'
  BY <1>1 DEF LateInv
<1>10. App \in Callers
  BY DEF Callers
<1>11. \A j \in Table : Clearing(j)' <=> Clearing(j)
  BY <1>1, <1>2, <1>10 DEF Clearing
<1>12. EntriesAreLive'
  <2> SUFFICES ASSUME NEW k \in Table, ~Free(k)', ~Clearing(k)
               PROVE  /\ thread[g_hdl_tbl'[k]] \notin {"none", "new"} /\ open[g_hdl_tbl'[k]]
                      /\ \A j \in Table : ~Clearing(j) /\ g_hdl_tbl'[j] = g_hdl_tbl'[k] => j = k
    BY <1>1, <1>11 DEF EntriesAreLive
  <2>1. CASE k = i
    BY <1>3, <1>6, <2>1
  <2>2. CASE k # i
    BY <1>3, <1>6, <2>2 DEF EntriesAreLive, Free
  <2> QED BY <2>1, <2>2
<1>13. ServingThreadsAreListed'
  <2> SUFFICES ASSUME NEW q \in Params, open[q], thread[q] # "new", q \notin met
               PROVE  ToStore(q)' \/ \E j \in Table : g_hdl_tbl'[j] = q /\ ~Clearing(j)
    BY <1>1, <1>11 DEF ServingThreadsAreListed
  <2>1. CASE q = p
    <3>1. Free(i)
      BY <1>4, <2>1
    <3>2. ~Clearing(i)
      BY <3>1 DEF RemovalInv, Clearing
    <3> QED BY <1>1, <1>6, <2>1, <3>2
  <2>2. CASE q # p
    <3>1. CASE ToStore(q)
      BY <1>1, <1>2, <2>2, <3>1 DEF ToStore, p
    <3>2. ASSUME NEW j \in Table, g_hdl_tbl[j] = q, ~Clearing(j)
          PROVE  \E k \in Table : g_hdl_tbl'[k] = q /\ ~Clearing(k)
      <4>1. j # i
        BY <1>4, <3>2, HandlerAssumption DEF HandlerAssumption, Free
      <4> QED BY <1>6, <3>2, <4>1
    <3> QED BY <3>1, <3>2 DEF ServingThreadsAreListed
  <2> QED BY <2>1, <2>2
<1>14. \A d \in Callers : Creating(d)' => Creating(d) /\ d # c /\ call'[d] = call[d] /\ call[d].param # p
  BY <1>2, <1>3 DEF Creating
<1>15. CreatorInv'
  <2> SUFFICES ASSUME NEW d \in Callers, Creating(d)'
               PROVE  /\ call'[d].param \in Params /\ open'[call'[d].param] /\ thread'[call'[d].param] # "none"
                      /\ thread'[call'[d].param] = "new" <=> call'[d].step = "scan"
                      /\ \A e \in Callers : Creating(e)' /\ call'[e].param = call'[d].param => e = d
                      /\ \A j \in Table : g_hdl_tbl'[j] = call'[d].param => Clearing(j)'
    BY DEF CreatorInv
  <2>1. /\ call[d].param \in Params /\ open[call[d].param] /\ thread[call[d].param] # "none"
        /\ thread[call[d].param] = "new" <=> call[d].step = "scan"
        /\ \A j \in Table : g_hdl_tbl[j] = call[d].param => Clearing(j)
    BY <1>14 DEF CreatorInv
  <2>2. \A e \in Callers : Creating(e)' /\ call'[e].param = call'[d].param => e = d
    BY <1>14 DEF CreatorInv
  <2>3. \A j \in Table : g_hdl_tbl'[j] = call'[d].param => Clearing(j)'
    BY <1>6, <1>11, <1>14, <2>1
  <2> QED BY <1>1, <1>14, <2>1, <2>2, <2>3
<1>16. WindowInv'
  <2> SUFFICES ASSUME NEW d \in Callers, call'[d].step = "store"
               PROVE  /\ g_hdl_tbl'[call'[d].at] # NoParam =>
                           /\ call'[d].param \in met
                           /\ Clearing(call'[d].at) \/ g_hdl_tbl'[call'[d].at] \in met
                      /\ \A e \in Callers : call'[e].step = "store" /\ call'[e].at = call'[d].at /\ e # d =>
                           call'[d].param \in met
    <3>1. \A e \in Callers : call'[e].at \in Table
      BY <1>2 DEF CallTypeOK, CallRecord
    <3> QED BY <1>1, <1>11, <3>1 DEF WindowInv, Free
  <2>1. d # c /\ call'[d] = call[d] /\ call[d].step = "store" /\ call[d].at \in Table
    BY <1>2, CallsAre
  <2>2. \A e \in Callers : call'[e].step = "store" => e # c /\ call'[e] = call[e]
    BY <1>2
  <2>3. \A e \in Callers : call'[e].step = "store" /\ call'[e].at = call'[d].at /\ e # d =>
          call[d].param \in met
    BY <2>1, <2>2 DEF WindowInv
  <2>4. CASE call[d].at = i
    BY <1>5, <1>6, <2>1, <2>3, <2>4
  <2>5. CASE call[d].at # i
    BY <1>6, <2>1, <2>3, <2>5 DEF WindowInv, Free
  <2> QED BY <2>4, <2>5
<1>17. RemovalInv'
  <2>1. call'[App].step \in {"close", "clear"} => App # c /\ call'[App] = call[App]
    BY <1>2, <1>10
  <2>2. call[App].at \in Table
    BY <1>10, CallsAre
  <2>3. CASE call[App].at = i
    BY <1>1, <1>4, <1>6, <1>7, <2>1, <2>3 DEF RemovalInv, Free
  <2>4. CASE call[App].at # i
    BY <1>1, <1>6, <2>1, <2>2, <2>4 DEF RemovalInv, Free
  <2> QED BY <2>3, <2>4
<1> QED BY <1>2, <1>8, <1>9, <1>12, <1>13, <1>15, <1>16, <1>17

-----------------------------------------------------------------------------
(* The steps of a removal.                                                   *)

LEMMA CloseKeeps == HandlersInv /\ Close => HandlersInv'
<1> SUFFICES ASSUME HandlersInv, Close PROVE HandlersInv'
  OBVIOUS
<1> USE DEF HandlersInv
<1> DEFINE i == call[App].at
           p == g_hdl_tbl[i]
<1>1. /\ call[App].step = "close" /\ App \in Callers /\ i \in Table
      /\ call[App] \in CallRecord
      /\ UNCHANGED <<g_hdl_tbl, id, thread, met, late>>
  BY CallsAre DEF Close, Callers
<1>2. ~Free(i) /\ \A j \in Table : ~Clearing(j)
  BY <1>1 DEF RemovalInv, Clearing
<1>3. p \in Params /\ open[p] /\ thread[p] \notin {"none", "new"} /\ \A j \in Table : g_hdl_tbl[j] = p => j = i
  BY <1>1, <1>2 DEF EntriesAreLive, Free, TableTypeOK
<1>4. /\ open' = [open EXCEPT ![p] = FALSE]
      /\ call' = [call EXCEPT ![App] = Doing("clear", call[App].id, 0, i, NoParam)]
  BY <1>2, <1>3 DEF Close, Free
<1> HIDE DEF p
<1>5. /\ call'[App] \in CallRecord /\ call'[App].step = "clear" /\ call'[App].at = i
      /\ \A d \in Callers \ {App} : call'[d] = call[d]
  BY <1>1, <1>4, CallsAre, DoingIs DEF CallTypeOK
<1> HIDE DEF i
<1>6. TableTypeOK'
  BY <1>1, <1>4 DEF TableTypeOK
<1>7. CallTypeOK'
  BY <1>1, <1>4, <1>5 DEF CallTypeOK, LeftInv
<1>8. LateInv'
  BY <1>1, <1>3, <1>4 DEF LateInv, TableTypeOK
<1>9. \A j \in Table : Clearing(j)' <=> j = i
  BY <1>1, <1>5 DEF Clearing
<1>10. EntriesAreLive'
  <2>1. p = g_hdl_tbl[i]
    BY DEF p
  <2> QED BY <1>1, <1>2, <1>3, <1>4, <1>9, <2>1 DEF EntriesAreLive, Free, TableTypeOK
<1>11. ServingThreadsAreListed'
  <2> SUFFICES ASSUME NEW q \in Params, open'[q], thread[q] # "new", q \notin met
               PROVE  ToStore(q)' \/ \E j \in Table : g_hdl_tbl[j] = q /\ ~Clearing(j)'
    BY <1>1 DEF ServingThreadsAreListed
  <2>1. q # p /\ open[q]
    BY <1>3, <1>4 DEF TableTypeOK
  <2>2. ToStore(q) => ToStore(q)'
    BY <1>1, <1>5 DEF ToStore
  <2> QED BY <1>9, <2>1, <2>2 DEF ServingThreadsAreListed, p
<1>12. \A d \in Callers : Creating(d)' => Creating(d) /\ call'[d] = call[d] /\ call[d].param # p
  <2>1. p = g_hdl_tbl[i]
    BY DEF p
  <2> QED BY <1>1, <1>2, <1>5, <2>1 DEF Creating, CreatorInv
<1>13. CreatorInv'
  <2> SUFFICES ASSUME NEW d \in Callers, Creating(d)'
               PROVE  /\ call'[d].param \in Params /\ open'[call'[d].param] /\ thread'[call'[d].param] # "none"
                      /\ thread'[call'[d].param] = "new" <=> call'[d].step = "scan"
                      /\ \A e \in Callers : Creating(e)' /\ call'[e].param = call'[d].param => e = d
                      /\ \A j \in Table : g_hdl_tbl'[j] = call'[d].param => Clearing(j)'
    BY DEF CreatorInv
  <2>1. /\ call[d].param \in Params /\ open[call[d].param] /\ thread[call[d].param] # "none"
        /\ thread[call[d].param] = "new" <=> call[d].step = "scan"
        /\ \A j \in Table : g_hdl_tbl[j] # call[d].param
    BY <1>2, <1>12 DEF CreatorInv
  <2>2. \A e \in Callers : Creating(e)' /\ call'[e].param = call'[d].param => e = d
    BY <1>12 DEF CreatorInv
  <2> QED BY <1>1, <1>4, <1>12, <2>1, <2>2 DEF TableTypeOK
<1>14. WindowInv'
  <2>1. \A d \in Callers : call'[d].step = "store" => d # App /\ call'[d] = call[d] /\ call[d].at \in Table
    BY <1>5, CallsAre
  <2> QED BY <1>1, <1>2, <2>1 DEF WindowInv, Free
<1>15. RemovalInv'
  BY <1>1, <1>2, <1>5 DEF RemovalInv, Free
<1> QED BY <1>6, <1>7, <1>8, <1>10, <1>11, <1>13, <1>14, <1>15

LEMMA ClearKeeps == HandlersInv /\ Clear => HandlersInv'
<1> SUFFICES ASSUME HandlersInv, Clear PROVE HandlersInv'
  OBVIOUS
<1> USE DEF HandlersInv
<1> DEFINE i == call[App].at
<1>1. /\ call[App].step = "clear" /\ App \in Callers /\ i \in Table
      /\ g_hdl_tbl' = [g_hdl_tbl EXCEPT ![i] = NoParam]
      /\ call' = [call EXCEPT ![App] = Idle]
      /\ UNCHANGED <<open, id, thread, met, late>>
  BY CallsAre DEF Clear, Callers
<1>2. call'[App] = Idle /\ call'[App].step = "idle" /\ \A d \in Callers \ {App} : call'[d] = call[d]
  BY <1>1, IdleIs DEF CallTypeOK
<1>3. \A j \in Table : Clearing(j) <=> j = i
  BY <1>1 DEF Clearing
<1>4. \A j \in Table : ~Clearing(j)'
  BY <1>2 DEF Clearing
<1> HIDE DEF i
<1>5. g_hdl_tbl'[i] = NoParam /\ \A j \in Table : j # i => g_hdl_tbl'[j] = g_hdl_tbl[j]
  BY <1>1 DEF TableTypeOK
<1>6. TableTypeOK'
  BY <1>1 DEF TableTypeOK
<1>7. CallTypeOK'
  BY <1>1, <1>2, IdleIs DEF CallTypeOK, LeftInv
<1>8. LateInv'
  BY <1>1 DEF LateInv
<1>9. EntriesAreLive'
  BY <1>1, <1>3, <1>4, <1>5 DEF EntriesAreLive, Free
<1>10. ServingThreadsAreListed'
  <2> SUFFICES ASSUME NEW q \in Params, open[q], thread[q] # "new", q \notin met
               PROVE  ToStore(q)' \/ \E j \in Table : g_hdl_tbl'[j] = q
    BY <1>1, <1>4 DEF ServingThreadsAreListed
  <2>1. ToStore(q) => ToStore(q)'
    BY <1>1, <1>2 DEF ToStore
  <2> QED BY <1>3, <1>5, <2>1 DEF ServingThreadsAreListed
<1>11. \A d \in Callers : Creating(d)' => Creating(d) /\ call'[d] = call[d]
  BY <1>2 DEF Creating
<1>12. CreatorInv'
  <2> SUFFICES ASSUME NEW d \in Callers, Creating(d)'
               PROVE  /\ call'[d].param \in Params /\ open'[call'[d].param] /\ thread'[call'[d].param] # "none"
                      /\ thread'[call'[d].param] = "new" <=> call'[d].step = "scan"
                      /\ \A e \in Callers : Creating(e)' /\ call'[e].param = call'[d].param => e = d
                      /\ \A j \in Table : g_hdl_tbl'[j] # call'[d].param
    BY DEF CreatorInv
  <2>1. /\ call[d].param \in Params /\ open[call[d].param] /\ thread[call[d].param] # "none"
        /\ thread[call[d].param] = "new" <=> call[d].step = "scan"
        /\ \A j \in Table : g_hdl_tbl[j] = call[d].param => Clearing(j)
    BY <1>11 DEF CreatorInv
  <2>2. \A e \in Callers : Creating(e)' /\ call'[e].param = call'[d].param => e = d
    BY <1>11 DEF CreatorInv
  <2>3. \A j \in Table : g_hdl_tbl'[j] # call'[d].param
    BY <1>3, <1>5, <1>11, <2>1, HandlerAssumption DEF HandlerAssumption
  <2> QED BY <1>1, <1>11, <2>1, <2>2, <2>3
<1>13. WindowInv'
  <2>1. \A d \in Callers : call'[d].step = "store" => d # App /\ call'[d] = call[d] /\ call[d].at \in Table
    BY <1>2, CallsAre
  <2> QED BY <1>1, <1>3, <1>5, <2>1 DEF WindowInv, Free
<1>14. RemovalInv'
  BY <1>2 DEF RemovalInv
<1> QED BY <1>6, <1>7, <1>8, <1>9, <1>10, <1>12, <1>13, <1>14

-----------------------------------------------------------------------------
(* The steps of a handler's thread.                                          *)

LEMMA ThreadStepKeeps ==
    ASSUME HandlersInv, NEW p \in Params, ThreadStep(p) PROVE HandlersInv'
<1> USE DEF HandlersInv
<1>1. thread[p] \in {"loop", "ioctl", "callback"} /\ UNCHANGED <<g_hdl_tbl, open, call>>
  BY DEF ThreadStep, Enter, IoctlFails, MessageArrives, CallbackReturns, TestFd
<1>2. TableTypeOK'
  BY DEF ThreadStep, Enter, IoctlFails, MessageArrives, CallbackReturns, TestFd, TableTypeOK, Ids
<1>3. LateInv'
  BY DEF ThreadStep, Enter, IoctlFails, MessageArrives, CallbackReturns, TestFd, TableTypeOK, LateInv
<1>4. /\ \A q \in Params : (thread'[q] = "none" => (thread[q] = "none" \/ ~open[q]))
      /\ \A q \in Params : (thread'[q] = "new" <=> thread[q] = "new")
  BY DEF ThreadStep, Enter, IoctlFails, MessageArrives, CallbackReturns, TestFd, TableTypeOK
<1>5. \A q \in Params : open[q] => id'[q] = id[q] /\ (q \in met' <=> q \in met)
  BY DEF ThreadStep, Enter, IoctlFails, MessageArrives, CallbackReturns, TestFd, TableTypeOK
<1>6. CallTypeOK'
  BY <1>1 DEF CallTypeOK, LeftInv
<1>7. \A j \in Table : Clearing(j)' <=> Clearing(j)
  BY <1>1 DEF Clearing
<1>8. \A j \in Table : ~Free(j) => g_hdl_tbl[j] \in Params
  BY DEF TableTypeOK, Free
<1>9. EntriesAreLive'
  BY <1>1, <1>4, <1>7, <1>8 DEF EntriesAreLive, Free
<1>10. ServingThreadsAreListed'
  BY <1>1, <1>4, <1>5, <1>7 DEF ServingThreadsAreListed, ToStore
<1>11. CreatorInv'
  BY <1>1, <1>4, <1>7 DEF CreatorInv, Creating
<1>12. WindowInv'
  <2> SUFFICES ASSUME NEW c \in Callers, call[c].step = "store"
               PROVE  /\ ~Free(call[c].at) =>
                            call[c].param \in met' /\ (Clearing(call[c].at) \/ g_hdl_tbl[call[c].at] \in met')
                      /\ \A d \in Callers : call[d].step = "store" /\ call[d].at = call[c].at /\ d # c =>
                            call[c].param \in met'
    BY <1>1, <1>7, CallsAre DEF WindowInv, Free
  <2>1. call[c].param \in met => call[c].param \in met'
    BY <1>5 DEF CreatorInv, Creating
  <2>2. /\ ~Free(call[c].at) =>
            call[c].param \in met /\ (Clearing(call[c].at) \/ g_hdl_tbl[call[c].at] \in met)
        /\ \A d \in Callers : call[d].step = "store" /\ call[d].at = call[c].at /\ d # c =>
            call[c].param \in met
    BY DEF WindowInv
  <2>3. ~Free(call[c].at) /\ ~Clearing(call[c].at) /\ g_hdl_tbl[call[c].at] \in met =>
          g_hdl_tbl[call[c].at] \in met'
    BY <1>5, <1>8, CallsAre DEF EntriesAreLive
  <2> QED BY <2>1, <2>2, <2>3
<1>13. RemovalInv'
  <2> SUFFICES ASSUME call[App].step = "close", g_hdl_tbl[call[App].at] \notin met'
               PROVE  /\ g_hdl_tbl[call[App].at] = call[App].param
                      /\ id'[call[App].param] = call[App].id
    BY <1>1 DEF RemovalInv, Free
  <2>1. call[App].at \in Table /\ ~Free(call[App].at) /\ ~Clearing(call[App].at)
    BY CallsAre DEF Callers, RemovalInv, Clearing
  <2>2. open[g_hdl_tbl[call[App].at]] /\ g_hdl_tbl[call[App].at] \in Params
    BY <1>8, <2>1 DEF EntriesAreLive
  <2> QED BY <1>5, <2>2 DEF RemovalInv
<1> QED BY <1>2, <1>3, <1>6, <1>9, <1>10, <1>11, <1>12, <1>13

-----------------------------------------------------------------------------
(* Every step keeps the invariant.                                           *)

LEMMA HandlersInvStep == HandlersInv /\ [HandlersNext]_handlersVars => HandlersInv'
<1> SUFFICES ASSUME HandlersInv, [HandlersNext]_handlersVars PROVE HandlersInv'
  OBVIOUS
<1>1. App \in Callers /\ CallTypeOK
  BY DEF Callers, HandlersInv
<1>2. ASSUME NEW x \in AsmIds, BeginAdd(x) PROVE HandlersInv'
  <2> DEFINE r == Doing("next", x, Copies[x], 1, NoParam)
  <2>1. call[App].step = "idle" /\ call' = [call EXCEPT ![App] = r]
        /\ UNCHANGED <<g_hdl_tbl, open, id, thread, met, late>>
    BY <1>2, IdleIs DEF BeginAdd
  <2>2. r \in CallRecord /\ r.step = "next" /\ r.left > 0
    BY DoingIs, IdleIs, HandlerAssumption DEF HandlerAssumption, Ids
  <2> HIDE DEF r
  <2> QED BY <1>1, <2>1, <2>2, CallerMoves
<1>3. ASSUME AddFails PROVE HandlersInv'
  <2>1. call[App].step = "next" /\ call' = [call EXCEPT ![App] = Idle]
        /\ UNCHANGED <<g_hdl_tbl, open, id, thread, met, late>>
    BY <1>3 DEF AddFails
  <2> QED BY <1>1, <2>1, IdleIs, CallerMoves
<1>4. ASSUME NEW c \in Callers, AddAvrx(c) PROVE HandlersInv'
  <2> DEFINE r == Doing("next", Avrx, 1, 1, NoParam)
  <2>1. call[c].step = "idle" /\ call' = [call EXCEPT ![c] = r]
        /\ UNCHANGED <<g_hdl_tbl, open, id, thread, met, late>>
    BY <1>4, IdleIs DEF AddAvrx
  <2>2. r \in CallRecord /\ r.step = "next" /\ r.left > 0
    BY DoingIs, IdleIs, HandlerAssumption DEF HandlerAssumption, Ids
  <2> HIDE DEF r
  <2> QED BY <2>1, <2>2, CallerMoves
<1>5. ASSUME NEW x \in Ids, NEW i \in Table, Matches(i, x), call[App] = Idle,
             call' = [call EXCEPT ![App] = Doing("close", x, 0, i, g_hdl_tbl[i])],
             UNCHANGED <<g_hdl_tbl, open, id, thread, met, late>>
      PROVE  HandlersInv'
  <2> DEFINE r == Doing("close", x, 0, i, g_hdl_tbl[i])
  <2>1. g_hdl_tbl[i] \in Params /\ ~Free(i) /\ id[g_hdl_tbl[i]] = x
    BY <1>5 DEF Matches, Free, HandlersInv, TableTypeOK
  <2>2. call' = [call EXCEPT ![App] = r] /\ call[App].step = "idle"
    BY <1>5, IdleIs
  <2>3. r \in CallRecord /\ r.step = "close" /\ r.at = i /\ r.param = g_hdl_tbl[i] /\ r.id = x
    BY <2>1, DoingIs
  <2> HIDE DEF r
  <2>4. /\ ~Free(r.at) /\ g_hdl_tbl[r.at] = r.param /\ id[r.param] = r.id
        /\ UNCHANGED <<g_hdl_tbl, open, id, thread, met, late>>
    BY <1>5, <2>1, <2>3
  <2>5. call[App].step \notin {"store", "clear"} /\ r.step \in {"idle", "next", "scan", "close"}
        /\ r.step # "next" /\ r.step # "scan"
    BY <2>2, <2>3
  <2> QED BY ONLY HandlersInv, <1>1, <2>2, <2>3, <2>4, <2>5, CallerMoves
<1>6. ASSUME NEW x \in AsmIds, Del(x) PROVE HandlersInv'
  BY <1>5, <1>6 DEF Del, Ids
<1>7. ASSUME DelAvrx PROVE HandlersInv'
  <2>1. Avrx \in Ids
    BY DEF Ids
  <2> QED BY <1>5, <1>7, <2>1 DEF DelAvrx
<1>8. ASSUME NEW c \in Callers, AllocateFails(c) PROVE HandlersInv'
  <2> DEFINE r == IF call[c].left = 1 THEN Idle ELSE Doing("next", call[c].id, call[c].left - 1, 1, NoParam)
  <2>1. call[c].step = "next" /\ call' = [call EXCEPT ![c] = r]
        /\ UNCHANGED <<g_hdl_tbl, open, id, thread, met, late>>
    BY SMT, <1>8 DEF AllocateFails
  <2>2. call[c].left \in Nat \ {0} /\ call[c].id \in Ids
    BY <1>1, <2>1, CallsAre DEF CallTypeOK, LeftInv
  <2>3. r \in CallRecord /\ r.step \in {"idle", "next"} /\ (r.step = "next" => r.left > 0)
    <3>1. CASE call[c].left = 1
      BY <3>1, IdleIs
    <3>2. CASE call[c].left # 1
      <4>1. call[c].left - 1 \in Nat \ {0} /\ r = Doing("next", call[c].id, call[c].left - 1, 1, NoParam)
        BY <2>2, <3>2
      <4> HIDE DEF r
      <4> QED BY <2>2, <4>1, IdleIs, DoingIs
    <3> QED BY <3>1, <3>2
  <2> HIDE DEF r
  <2> QED BY <2>1, <2>3, CallerMoves
<1>9. ASSUME NEW c \in Callers, ScanGoesOn(c) PROVE HandlersInv'
  <2> DEFINE r == [call[c] EXCEPT !.at = @ + 1]
  <2>1. call[c].step = "scan" /\ call[c].at < MAX_HDL /\ call' = [call EXCEPT ![c] = r]
        /\ UNCHANGED <<g_hdl_tbl, open, id, thread, met, late>>
    BY SMT, <1>9 DEF ScanGoesOn
  <2>2. call[c] \in CallRecord /\ call[c].at + 1 \in Table
    BY <1>1, <2>1, CallsAre, HandlerAssumption DEF HandlerAssumption, Table
  <2>3. r = [step |-> call[c].step, id |-> call[c].id, left |-> call[c].left,
             at |-> call[c].at + 1, param |-> call[c].param]
    BY SMT, <2>2 DEF CallRecord
  <2> HIDE DEF r
  <2>4. r \in CallRecord /\ r.step = "scan" /\ r.param = call[c].param
    BY <2>1, <2>2, <2>3 DEF CallRecord
  <2> QED BY <2>1, <2>4, CallerMoves
<1>10. CASE UNCHANGED handlersVars
  BY <1>10 DEF handlersVars, HandlersInv, TableTypeOK, CallTypeOK, LeftInv, LateInv, EntriesAreLive,
     ServingThreadsAreListed, CreatorInv, WindowInv, RemovalInv, Free, Clearing, ToStore, Creating
<1>11. ASSUME NEW c \in Callers, CreateStep(c) PROVE HandlersInv'
  BY <1>8, <1>9, <1>11, AllocateKeeps, StartThreadKeeps, CreateFailsKeeps, StoreKeeps DEF CreateStep
<1>12. ASSUME Call PROVE HandlersInv'
  BY <1>2, <1>3, <1>4, <1>6, <1>7, <1>11, <1>12, CloseKeeps, ClearKeeps DEF Call
<1> QED BY <1>10, <1>12, ThreadStepKeeps DEF HandlersNext

LEMMA HandlersInvariant == HandlersSafetySpec => []HandlersInv
<1> QED BY HandlersInvInit, HandlersInvStep, PTL DEF HandlersSafetySpec

-----------------------------------------------------------------------------
(* What the invariant gives.                                                 *)

\* Every variable keeps its type.
THEOREM HandlersTypeCorrect == HandlersSafetySpec => []HandlersTypeOK
<1>1. HandlersInv => HandlersTypeOK
  BY TypeParts DEF HandlersInv
<1> QED BY <1>1, HandlersInvariant, PTL

\* No entry of the table points to a freed block or to another entry's block,
\* but the one entry a removal is about to clear.
THEOREM TableIsLive == HandlersSafetySpec => []EntriesAreLive
<1>1. HandlersInv => EntriesAreLive
  BY DEF HandlersInv
<1> QED BY <1>1, HandlersInvariant, PTL

\* Every thread that serves its handler can be removed through the table, however
\* the creations and removals of any number of callers overlap, unless its
\* creation and another one both found the same entry free.
THEOREM ServingThreadsCanBeRemoved == HandlersSafetySpec => []ServingThreadsAreListed
<1>1. HandlersInv => ServingThreadsAreListed
  BY DEF HandlersInv
<1> QED BY <1>1, HandlersInvariant, PTL

\* A removed handler is called back at most once.
THEOREM AtMostOneLateCallback == HandlersSafetySpec => []OneLateCallback
<1>1. HandlersInv => OneLateCallback
  BY DEF HandlersInv, LateInv, OneLateCallback
<1> QED BY <1>1, HandlersInvariant, PTL

\* A removal closes the handler its caller looked up, although the entry is read
\* again after the look and other threads store into the table meanwhile, unless
\* what it closes was stored by a creation that met another one.
THEOREM RemovalsHitTheirOwn == HandlersSafetySpec => RemovalHitsItsOwn
<1> DEFINE Step == \A p \in Params \ met :
                      open[p] /\ ~open'[p] /\ thread[p] # "new" => p = call[App].param /\ id[p] = call[App].id
<1>1. HandlersInv /\ [HandlersNext]_handlersVars => [Step]_handlersVars
  <2> SUFFICES ASSUME HandlersInv, HandlersNext, NEW p \in Params, p \notin met,
                      open[p], ~open'[p], thread[p] # "new"
               PROVE  p = call[App].param /\ id[p] = call[App].id
    BY DEF handlersVars
  <2>1. TableTypeOK
    BY DEF HandlersInv
  <2>2. ASSUME NEW c \in Callers, CreateFails(c) PROVE FALSE
    <3>1. call[c].param \in Params /\ thread[call[c].param] = "new" /\ open' = [open EXCEPT ![call[c].param] = FALSE]
      BY <2>2 DEF CreateFails, HandlersInv, CreatorInv, Creating
    <3> QED BY <2>1, <3>1 DEF TableTypeOK
  <2>3. ASSUME NEW c \in Callers, Allocate(c) PROVE FALSE
    BY <2>1, <2>3 DEF Allocate, TableTypeOK
  <2>4. ASSUME UNCHANGED open PROVE FALSE
    BY <2>4
  <2>5. CASE Close
    <3>1. g_hdl_tbl[call[App].at] = p /\ call[App].step = "close"
      BY <2>1, <2>4, <2>5 DEF Close, TableTypeOK
    <3> QED BY <3>1 DEF HandlersInv, RemovalInv
  <2>6. Close \/ UNCHANGED open \/ \E c \in Callers : CreateFails(c) \/ Allocate(c)
    BY DEF HandlersNext, Call, CreateStep, ThreadStep, BeginAdd, Del, AddFails, DelAvrx, Clear, AddAvrx,
           AllocateFails, ScanGoesOn, StartThread, Store, Enter, IoctlFails, MessageArrives,
           CallbackReturns, TestFd
  <2> QED BY <2>2, <2>3, <2>4, <2>5, <2>6
<1>2. HandlersSafetySpec => [][Step]_handlersVars
  BY <1>1, HandlersInvariant, PTL DEF HandlersSafetySpec
<1> QED BY <1>2 DEF RemovalHitsItsOwn

=============================================================================
