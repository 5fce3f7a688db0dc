------------------------------ MODULE AsmQueue ------------------------------
(***************************************************************************)
(* The queue of ASM messages of src/src/libfcav/ulib.c: the ring g_asm_uq  *)
(* with its head, tail and mutex, the wait_io threads that fill it through *)
(* asm_hdl_provider() and the asm_hdl_consumer() threads that empty it.    *)
(* Every call of add_asm_handler() starts one more consumer.               *)
(*                                                                         *)
(* A consumer takes a slot under the mutex but the handler reads it after  *)
(* the unlock, so that the store of a message is two steps here: between   *)
(* them its slot holds a mixture of two messages.  Messages are numbered   *)
(* in the order they are stored.                                           *)
(*                                                                         *)
(* Definitions introduced by "Mutant" are faulty variants of the one that  *)
(* follows them; no definition of the specification uses them.             *)
(***************************************************************************)
EXTENDS Integers, Sequences, FiniteSets

CONSTANTS
    ASM_UQ_CNT,   \* slots of the ring, 128 in the code
    Providers,    \* wait_io threads registered for ASM messages
    Consumers,    \* consumer threads
    MaxMessages   \* bound on the messages stored

ASSUME AsmAssumption ==
    /\ ASM_UQ_CNT \in Nat /\ ASM_UQ_CNT > 1
    /\ MaxMessages \in Nat
    /\ IsFiniteSet(Consumers)

Torn   == -1   \* content of a slot while memcpy() fills it
NoSlot == -1

VARIABLES
    g_asm_uq,      \* [slot -> message in it, 0 before the first, or Torn]
    g_asm_qhead,
    g_asm_qtail,
    provider,      \* [provider -> "ioctl", "holding" a message or "storing" it]
    handling,      \* [consumer -> slot its handler reads, or NoSlot]
    message,       \* [consumer -> message it took last]
    stored,        \* messages stored so far
    taken          \* messages taken so far

vars == <<g_asm_uq, g_asm_qhead, g_asm_qtail, provider, handling, message, stored, taken>>

Slots == 0 .. ASM_UQ_CNT - 1

TypeOK ==
    /\ g_asm_uq \in [Slots -> {Torn} \cup 0 .. MaxMessages]
    /\ g_asm_qhead \in Slots
    /\ g_asm_qtail \in Slots
    /\ provider \in [Providers -> {"ioctl", "holding", "storing"}]
    /\ handling \in [Consumers -> Slots \cup {NoSlot}]
    /\ message \in [Consumers -> 0 .. MaxMessages]
    /\ stored \in 0 .. MaxMessages
    /\ taken \in 0 .. MaxMessages

Init ==
    /\ g_asm_uq = [i \in Slots |-> 0]
    /\ g_asm_qhead = 0
    /\ g_asm_qtail = 0
    /\ provider = [p \in Providers |-> "ioctl"]
    /\ handling = [c \in Consumers |-> NoSlot]
    /\ message = [c \in Consumers |-> 0]
    /\ stored = 0
    /\ taken = 0

\* g_asm_mutex is free; the critical sections that are one step here take and
\* release it in that step.
MutexFree == \A p \in Providers : provider[p] # "storing"

\* Mutant: the last slot is never used.
NextSlotOneShort(i) == (i + 1) % (ASM_UQ_CNT - 1)

NextSlot(i) == (i + 1) % ASM_UQ_CNT

-----------------------------------------------------------------------------
(* asm_hdl_provider(), on a wait_io thread.                                  *)

\* DIOC_ASM_WAITIO returns a message.  One longer than a slot's buffer is
\* ignored and changes nothing.
Receive(p) ==
    /\ provider[p] = "ioctl"
    /\ provider' = [provider EXCEPT ![p] = "holding"]
    /\ UNCHANGED <<g_asm_uq, g_asm_qhead, g_asm_qtail, handling, message, stored, taken>>

\* Mutant: the ring has no limit.
NeverFull == FALSE

Full == NextSlot(g_asm_qtail) = g_asm_qhead

\* A message that finds the ring full is dropped.
DropMessage(p) ==
    /\ provider[p] = "holding"
    /\ MutexFree
    /\ Full
    /\ provider' = [provider EXCEPT ![p] = "ioctl"]
    /\ UNCHANGED <<g_asm_uq, g_asm_qhead, g_asm_qtail, handling, message, stored, taken>>

StartStore(p) ==
    /\ provider[p] = "holding"
    /\ MutexFree
    /\ ~Full
    /\ stored < MaxMessages
    /\ g_asm_uq' = [g_asm_uq EXCEPT ![g_asm_qtail] = Torn]
    /\ provider' = [provider EXCEPT ![p] = "storing"]
    /\ UNCHANGED <<g_asm_qhead, g_asm_qtail, handling, message, stored, taken>>

\* The slot is filled and the tail moves past it; the mutex is released.
EndStore(p) ==
    /\ provider[p] = "storing"
    /\ g_asm_uq' = [g_asm_uq EXCEPT ![g_asm_qtail] = stored + 1]
    /\ g_asm_qtail' = NextSlot(g_asm_qtail)
    /\ stored' = stored + 1
    /\ provider' = [provider EXCEPT ![p] = "ioctl"]
    /\ UNCHANGED <<g_asm_qhead, handling, message, taken>>

-----------------------------------------------------------------------------
(* asm_hdl_consumer().                                                       *)

\* Mutant: the head moves only when the handler returns.
TakeWithoutAdvance(c) ==
    /\ handling[c] = NoSlot
    /\ MutexFree
    /\ g_asm_qhead # g_asm_qtail
    /\ handling' = [handling EXCEPT ![c] = g_asm_qhead]
    /\ message' = [message EXCEPT ![c] = g_asm_uq[g_asm_qhead]]
    /\ taken' = g_asm_uq[g_asm_qhead]
    /\ UNCHANGED <<g_asm_uq, g_asm_qhead, g_asm_qtail, provider, stored>>

\* When head and tail meet the consumer sleeps for 50 us and tries again.
Poll(c) ==
    /\ handling[c] = NoSlot
    /\ MutexFree
    /\ g_asm_qhead = g_asm_qtail
    /\ UNCHANGED vars

\* The head moves past the slot under the mutex, and the handler starts on it.
Take(c) ==
    /\ handling[c] = NoSlot
    /\ MutexFree
    /\ g_asm_qhead # g_asm_qtail
    /\ handling' = [handling EXCEPT ![c] = g_asm_qhead]
    /\ message' = [message EXCEPT ![c] = g_asm_uq[g_asm_qhead]]
    /\ taken' = g_asm_uq[g_asm_qhead]
    /\ g_asm_qhead' = NextSlot(g_asm_qhead)
    /\ UNCHANGED <<g_asm_uq, g_asm_qtail, provider, stored>>

HandlerReturns(c) ==
    /\ handling[c] # NoSlot
    /\ handling' = [handling EXCEPT ![c] = NoSlot]
    /\ UNCHANGED <<g_asm_uq, g_asm_qhead, g_asm_qtail, provider, message, stored, taken>>

-----------------------------------------------------------------------------

ProviderStep(p) == Receive(p) \/ DropMessage(p) \/ StartStore(p) \/ EndStore(p)

ConsumerStep(c) == Poll(c) \/ Take(c) \/ HandlerReturns(c)

Next ==
    \/ \E p \in Providers : ProviderStep(p)
    \/ \E c \in Consumers : ConsumerStep(c)

SafetySpec == Init /\ [][Next]_vars

\* A store is finished, a handler returns, and a consumer that polls gets the
\* mutex if it is free over and over; nothing makes the driver deliver.
Spec ==
    /\ SafetySpec
    /\ \A p \in Providers : WF_vars(EndStore(p))
    /\ \A c \in Consumers : SF_vars(Take(c)) /\ WF_vars(HandlerReturns(c))

-----------------------------------------------------------------------------
(* Properties.                                                               *)

\* The comment "head == tail means empty": it must never mean full as well.
EmptyWhenHeadMeetsTail == g_asm_qhead = g_asm_qtail <=> stored = taken

\* A handler reads the slot it was given without a lock (lines 532-535).  With
\* one consumer no provider writes to that slot meanwhile, because the ring
\* keeps one slot spare; with more, only after a whole lap of the ring.
HandledSlotIsStable ==
    \A c \in Consumers :
        handling[c] # NoSlot /\ g_asm_uq[handling[c]] # message[c] =>
            Cardinality(Consumers) > 1 /\ stored + 1 >= message[c] + ASM_UQ_CNT

\* Two handlers never work on one message.
OneHandlerPerMessage ==
    \A c, d \in Consumers :
        c # d /\ handling[c] # NoSlot /\ handling[d] # NoSlot => message[c] # message[d]

\* A provider drops its message only when all slots but the spare one hold a
\* message no consumer has taken.
DropsOnlyWhenFull ==
    [][\A p \in Providers :
          provider[p] = "holding" /\ provider'[p] = "ioctl" => stored - taken = ASM_UQ_CNT - 1]_vars

\* Every message stored is taken in the end.
EveryMessageIsTaken == \A m \in 1 .. MaxMessages : stored >= m ~> taken >= m

\* The ring is a bounded FIFO of messages (module MessageFifo).
Queued == (g_asm_qtail - g_asm_qhead) % ASM_UQ_CNT

FIFO == INSTANCE MessageFifo WITH
    Capacity <- ASM_UQ_CNT - 1,
    queue    <- [k \in 1 .. Queued |-> g_asm_uq[(g_asm_qhead + k - 1) % ASM_UQ_CNT]],
    number   <- stored

ImplementsMessageFifo == FIFO!Spec
=============================================================================
