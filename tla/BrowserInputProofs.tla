------------------------- MODULE BrowserInputProofs -------------------------
(***************************************************************************)
(* Proofs about BrowserInput, for a ring of any length of two or more, a   *)
(* mailbox of any length, any number of consumers and of messages, and     *)
(* reads of any size.                                                      *)
(* They use no fairness.                                                   *)
(***************************************************************************)
EXTENDS BrowserInput, Integers, TLAPS

-----------------------------------------------------------------------------
(* Distances around the ring, which replace the arithmetic modulo its length.*)

Slots == 0 .. N - 1

Dist(from, to) == IF to >= from THEN to - from ELSE to + N - from

\* The index after the last one is 0.
LEMMA AfterIs ==
    \A i \in Slots : After(i) = (IF i + 1 = N THEN 0 ELSE i + 1) /\ After(i) \in Slots
<1> SUFFICES ASSUME NEW i \in Slots
             PROVE  After(i) = (IF i + 1 = N THEN 0 ELSE i + 1) /\ After(i) \in Slots
  OBVIOUS
<1>1. CASE i + 1 = N
  BY <1>1, PortAssumption DEF PortAssumption, After, Slots
<1>2. CASE i + 1 < N
  BY <1>2, PortAssumption DEF PortAssumption, After, Slots
<1> QED BY <1>1, <1>2, PortAssumption DEF PortAssumption, Slots

\* A distance is zero only between equal indices.  Pushing the head on takes one
\* off it, or makes the empty ring look full; storing at the tail adds one, or
\* makes the full ring look empty.
LEMMA DistIs ==
    \A i, j \in Slots :
        /\ Dist(i, j) \in 0 .. N - 1
        /\ Dist(i, j) = 0 <=> i = j
        /\ Dist(After(i), j) = IF i = j THEN N - 1 ELSE Dist(i, j) - 1
        /\ Dist(i, After(j)) = IF i = After(j) THEN 0 ELSE Dist(i, j) + 1
  BY AfterIs, PortAssumption DEF PortAssumption, Dist, Slots

-----------------------------------------------------------------------------
(* The inductive invariant: types, who is storing, and for each kind of port *)
(* what it holds.                                                            *)

\* Where the threads of either port can be, and what they have left to do there.
CommPlaces ==
    /\ \A c \in Consumers : /\ writer[c].at \in {"idle", "store", "tail", "test", "push"}
                            /\ writer[c].at # "idle" => writer[c].i >= 1
    /\ reader.at \in {"idle", "head", "empty", "take", "next", "reset"}
    /\ reader.at \notin {"idle", "reset"} => reader.left >= 1

IicPlaces ==
    /\ \A c \in Consumers :
          /\ writer[c].at \in {"idle", "words", "post"}
          /\ writer[c].at # "idle" => /\ writer[c].of \in 1 .. Len(sent)
                                     /\ writer[c].i <= sent[writer[c].of].len
    /\ reader.at \in {"idle", "wait", "usr", "copy"}
    /\ arrived = Len(sent) /\ posted <= arrived
    /\ reader.at = "idle" => reader = ReaderIdle

Places == (port = "comm" => CommPlaces) /\ (port = "iic" => IicPlaces)

PortTypes == TypeOK /\ Places

\* Unless the port is spoilt, one consumer at most is storing.
SoloInv ==
    /\ \A c \in Consumers : writer[c].at = "idle" => writer[c] = WriterIdle
    /\ crossed # "spoilt" => \A c, d \in Busy : c = d

\* That one.
Writer == IF Busy = {} THEN WriterIdle ELSE writer[CHOOSE c \in Busy : TRUE]

\* The byte that slot i holds once the ring is filled: the one before the tail is
\* the latest that arrived, or the tail's own slot while the tail is not stored yet.
Byte(i) ==
    IF Writer.at = "tail" THEN arrived - Dist(i, ring.tail)
    ELSE arrived + 1 - (IF i = ring.tail THEN N ELSE Dist(i, ring.tail))

\* It does, and has been stored at all.
Good(i) == ring.buf[i] = Byte(i) /\ ring.buf[i] > 0

\* In the first turn, before the tail comes back to 0, only the slots before it
\* are stored.  The head stays behind the tail, so that no reader goes further,
\* and the ring never is full.
FirstTurn ==
    /\ \A i \in Slots : i < ring.tail \/ (i = ring.tail /\ Writer.at = "tail") => Good(i)
    /\ ring.head <= ring.tail
    /\ reader.at \in {"empty", "take", "next"} => reader.head = ring.head
    /\ reader.at \in {"take", "next"} => ring.head < ring.tail
    /\ Writer.at = "test" => ring.head < ring.tail
    /\ Writer.at # "push"

\* The bytes of the ring, however the threads met, unless it was spoilt: this is
\* what makes every byte that is read a recent one.
ByteInv ==
    port = "comm" /\ crossed # "spoilt" =>
        /\ FirstTurn \/ \A i \in Slots : Good(i)
        /\ reader.at = "reset" => Writer.at = "idle" /\ ring.head = 0
        /\ Writer.at = "tail" => Writer.tail = ring.tail

\* The bytes that were not read.
Count == Dist(ring.head, ring.tail)

Least(x, y) == IF x <= y THEN x ELSE y

\* Their number at each place of the two threads, as long as these have not met:
\* what arrived since the last one read, but no more than the ring can hold.
CountInv ==
    port = "comm" /\ crossed = "no" =>
        /\ got.of <= arrived
        /\ Writer.at = "idle" \/ reader.at = "idle"
        /\ reader.at \in {"empty", "take", "next"} => reader.head = ring.head
        /\ reader.at \in {"take", "next"} => Count > 0
        /\ reader.at = "next" => got.of = arrived + 1 - Count
        /\ Writer.at \in {"idle", "store"} /\ reader.at \notin {"next", "reset"} =>
              Count = Least(arrived - got.of, N - 1)
        /\ Writer.at = "tail" =>
              arrived > got.of /\ Count = Least(arrived - 1 - got.of, N - 1)
        /\ Writer.at = "test" => \/ Count = 0 /\ arrived - got.of >= N
                                 \/ Count > 0 /\ Count = arrived - got.of
        /\ Writer.at = "push" =>
              Count = 0 /\ arrived - got.of >= N /\ Writer.head = ring.head

RingTypes == ring.buf \in [Slots -> Nat] /\ ring.head \in Slots /\ ring.tail \in Slots

\* The types, field by field.
LEMMA Fields ==
    ASSUME TypeOK
    PROVE  /\ RingTypes
           /\ ring = [buf |-> ring.buf, head |-> ring.head, tail |-> ring.tail]
           /\ reader.left \in Nat /\ reader.head \in Slots /\ reader.of \in Nat
           /\ arrived \in Nat /\ got.of \in Nat
           /\ N \in Nat /\ N > 1
  BY PortAssumption DEF TypeOK, RingTypes, Slots, PortAssumption

\* The types of the records, as sets: a record is changed field by field within
\* them, with TypeOK left folded.
RingSet == [buf : [Slots -> Nat], head : Slots, tail : Slots]
WriterSet == [at : {"idle", "store", "tail", "test", "push", "words", "post"},
              i : Nat, head : Slots, tail : Slots, of : Nat]
ReaderSet == [at : {"idle", "head", "empty", "take", "next", "reset", "wait", "usr", "copy"},
              left : Nat, head : Slots, of : Nat, usr : Nat, words : Seq(Nat)]
GotSet == [clean : BOOLEAN, of : Nat, usr : Nat, words : Seq(Nat), before : Nat, max : Nat]

LEMMA Sets ==
    TypeOK => /\ ring \in RingSet /\ writer \in [Consumers -> WriterSet]
              /\ reader \in ReaderSet /\ got \in GotSet
  BY DEF TypeOK, RingSet, WriterSet, ReaderSet, GotSet, Slots

LEMMA IdleIs == WriterIdle \in WriterSet /\ WriterIdle.at = "idle" /\ WriterIdle.i = 0
  BY PortAssumption DEF PortAssumption, WriterIdle, WriterSet, Slots

\* A consumer's record, field by field.
LEMMA RecordIs ==
    ASSUME TypeOK, NEW c \in Consumers
    PROVE  /\ writer[c] = [at |-> writer[c].at, i |-> writer[c].i, head |-> writer[c].head,
                           tail |-> writer[c].tail, of |-> writer[c].of]
           /\ writer[c] \in WriterSet
           /\ writer[c].i \in Nat /\ writer[c].head \in Slots /\ writer[c].tail \in Slots
           /\ writer[c].of \in Nat
<1>1. writer[c] \in WriterSet
  BY Sets
<1> QED BY <1>1 DEF WriterSet

\* The consumer that makes a step is the one that stores, before and after it.
LEMMA SoloMoves ==
    ASSUME TypeOK, SoloInv, NEW c \in Consumers, NEW w, Moves(c, w),
           w.at = "idle" => w = WriterIdle,
           crossed' # "spoilt" => Busy \subseteq {c}
    PROVE  /\ SoloInv'
           /\ crossed' # "spoilt" => Writer = writer[c] /\ Writer' = w /\ w = writer'[c]
<1>1. /\ writer'[c] = w
      /\ \A d \in Consumers \ {c} : writer'[d] = writer[d]
  BY Sets DEF Moves
<1>2. \A d \in Consumers : writer'[d].at = "idle" => writer'[d] = WriterIdle
  BY <1>1 DEF SoloInv
<1>3. ASSUME crossed' # "spoilt"
      PROVE  /\ \A d \in Busy' : d = c
             /\ Writer = writer[c] /\ Writer' = w
  <2>1. \A d \in Busy : d = c
    BY <1>3
  <2>2. \A d \in Busy' : d = c
    BY <1>1, <2>1 DEF Busy
  <2>3. Writer = writer[c]
    <3>1. CASE Busy = {}
      BY <3>1 DEF Writer, Busy, SoloInv
    <3>2. CASE Busy # {}
      <4>1. (CHOOSE d \in Busy : TRUE) \in Busy
        BY <3>2
      <4> QED BY <2>1, <3>2, <4>1 DEF Writer
    <3> QED BY <3>1, <3>2
  <2>4. Writer' = w
    <3>1. CASE Busy' = {}
      BY <1>1, <1>2, <3>1 DEF Writer, Busy
    <3>2. CASE Busy' # {}
      <4>1. (CHOOSE d \in Busy' : TRUE) \in Busy'
        BY <3>2
      <4>2. Writer' = writer'[CHOOSE d \in Busy' : TRUE]
        BY <3>2 DEF Writer
      <4> QED BY <1>1, <2>2, <4>1, <4>2
    <3> QED BY <3>1, <3>2
  <2> QED BY <2>2, <2>3, <2>4
<1> QED BY <1>1, <1>2, <1>3 DEF SoloInv

\* A step of the reader leaves them as they are.
LEMMA SoloSame ==
    ASSUME SoloInv, writer' = writer, crossed' # "spoilt" => crossed # "spoilt"
    PROVE  SoloInv' /\ Busy' = Busy /\ Writer' = Writer
<1>1. Busy' = Busy
  BY DEF Busy
<1>2. Writer' = Writer
  BY <1>1 DEF Writer
<1> QED BY <1>1, <1>2 DEF SoloInv

LEMMA WriterIsBusy ==
    ASSUME PortTypes, SoloInv
    PROVE  /\ Writer.at = "idle" <=> Busy = {}
           /\ Writer.at = "idle" => Writer.i = 0
           /\ Writer \in WriterSet
<1>1. CASE Busy = {}
  BY <1>1, IdleIs DEF Writer
<1>2. CASE Busy # {}
  <2>1. PICK c \in Busy : Writer = writer[c]
    BY <1>2 DEF Writer
  <2>2. c \in Consumers /\ writer[c].at # "idle"
    BY DEF Busy
  <2> QED BY <1>2, <2>1, <2>2, RecordIs DEF PortTypes
<1> QED BY <1>1, <1>2

\* A consumer's steps, as what they do to each field.
LEMMA WriterKeeps ==
    ASSUME NEW c \in Consumers, CommHandler(c)
    PROVE  port = "comm" /\ UNCHANGED <<port, running, mail, sent, posted, taken, reader, got>>
  BY DEF CommHandler, CommArrives, StoreByte, StoreTail, TestFull, LoadPushed, PushHead, WriterAt,
         commWriterKeeps, commKeeps

LEMMA StartIs ==
    ASSUME NEW j
    PROVE  [WriterIdle EXCEPT !.at = "store", !.i = j]
             = [at |-> "store", i |-> j, head |-> 0, tail |-> 0, of |-> 0]
<1>1. ASSUME NEW w, w = [WriterIdle EXCEPT !.at = "store", !.i = j]
      PROVE  w = [at |-> "store", i |-> j, head |-> 0, tail |-> 0, of |-> 0]
  BY <1>1 DEF WriterIdle
<1> QED BY <1>1

\* The next byte of a message, or none.
LEMMA NextByteIs ==
    ASSUME TypeOK, NEW c \in Consumers, NextByte(c), writer[c].i >= 1
    PROVE  \/ Moves(c, WriterIdle)
           \/ \E i \in Nat : /\ i >= 1
                             /\ Moves(c, [at |-> "store", i |-> i, head |-> 0, tail |-> 0, of |-> 0])
<1>0. writer[c].i \in Nat
  BY RecordIs
<1>1. CASE writer[c].i = 1
  BY <1>1 DEF NextByte
<1>2. CASE writer[c].i # 1
  <2> DEFINE i == writer[c].i - 1
  <2>1. i \in Nat /\ i >= 1
    BY <1>0, <1>2
  <2>2. Moves(c, [WriterIdle EXCEPT !.at = "store", !.i = i])
    BY <1>2 DEF NextByte
  <2> HIDE DEF i
  <2> QED BY <2>1, <2>2, StartIs
<1> QED BY <1>1, <1>2

\* What a step of recBrowCommMsg() makes of the consumer's record.
CommOK(w) ==
    /\ w \in WriterSet
    /\ w.at \in {"idle", "store", "tail", "test", "push"}
    /\ w.at # "idle" => w.i >= 1
    /\ w.at = "idle" => w = WriterIdle

LEMMA CommMoves ==
    ASSUME PortTypes, NEW c \in Consumers, CommHandler(c)
    PROVE  \E w : CommOK(w) /\ Moves(c, w)
<1>1. /\ port = "comm" /\ ring.head \in Slots /\ ring.tail \in Slots /\ 0 \in Slots
      /\ N \in Nat /\ N > 1 /\ TypeOK
  <2>1. 0 \in Slots
    BY PortAssumption DEF PortAssumption, Slots
  <2> QED BY <2>1, WriterKeeps, Fields DEF PortTypes, RingTypes
<1>2. \A at \in {"store", "tail", "test", "push"}, i \in Nat, head \in Slots, tail \in Slots,
         of \in Nat :
         i >= 1 => CommOK([at |-> at, i |-> i, head |-> head, tail |-> tail, of |-> of])
  BY DEF CommOK, WriterSet
<1>3. CommOK(WriterIdle)
  BY IdleIs DEF CommOK
<1>4. /\ writer[c].at # "idle" => writer[c].i >= 1
      /\ writer[c] = [at |-> writer[c].at, i |-> writer[c].i, head |-> writer[c].head,
                      tail |-> writer[c].tail, of |-> writer[c].of]
      /\ writer[c].i \in Nat /\ writer[c].head \in Slots /\ writer[c].tail \in Slots
      /\ writer[c].of \in Nat
  BY <1>1, RecordIs DEF PortTypes, Places, CommPlaces
<1>5. CASE CommArrives(c)
  <2>1. Moves(c, [at |-> "store", i |-> N, head |-> 0, tail |-> 0, of |-> 0])
    BY <1>5, StartIs DEF CommArrives
  <2> QED BY <1>1, <1>2, <2>1
<1>6. CASE StoreByte(c)
  <2>1. Moves(c, [at |-> "tail", i |-> writer[c].i, head |-> writer[c].head,
                  tail |-> ring.tail, of |-> writer[c].of])
    <3>1. ASSUME NEW w, w = [writer[c] EXCEPT !.at = "tail", !.tail = ring.tail]
          PROVE  w = [at |-> "tail", i |-> writer[c].i, head |-> writer[c].head,
                      tail |-> ring.tail, of |-> writer[c].of]
      BY <1>4, <3>1
    <3> QED BY <1>6, <3>1 DEF StoreByte
  <2>2. writer[c].i >= 1
    BY <1>4, <1>6 DEF StoreByte, WriterAt
  <2> QED BY <1>1, <1>2, <1>4, <2>1, <2>2
<1>7. CASE StoreTail(c)
  <2>1. Moves(c, [at |-> "test", i |-> writer[c].i, head |-> writer[c].head,
                  tail |-> writer[c].tail, of |-> writer[c].of])
    <3>1. ASSUME NEW w, w = [writer[c] EXCEPT !.at = "test"]
          PROVE  w = [at |-> "test", i |-> writer[c].i, head |-> writer[c].head,
                      tail |-> writer[c].tail, of |-> writer[c].of]
      BY <1>4, <3>1
    <3> QED BY <1>7, <3>1 DEF StoreTail
  <2>2. writer[c].i >= 1
    BY <1>4, <1>7 DEF StoreTail, WriterAt
  <2> QED BY <1>2, <1>4, <2>1, <2>2
<1>8. ASSUME NextByte(c), writer[c].i >= 1 PROVE \E w : CommOK(w) /\ Moves(c, w)
  BY <1>1, <1>2, <1>3, <1>8, NextByteIs
<1>9. ASSUME Moves(c, [writer[c] EXCEPT !.at = "push", !.head = ring.head]), writer[c].i >= 1
      PROVE  \E w : CommOK(w) /\ Moves(c, w)
  <2>1. ASSUME NEW w, w = [writer[c] EXCEPT !.at = "push", !.head = ring.head]
        PROVE  w = [at |-> "push", i |-> writer[c].i, head |-> ring.head,
                    tail |-> writer[c].tail, of |-> writer[c].of]
    BY <1>4, <2>1
  <2> QED BY <1>1, <1>2, <1>4, <1>9, <2>1
<1>10. CASE TestFull(c)
  <2>1. writer[c].i >= 1
    BY <1>4, <1>10 DEF TestFull, WriterAt
  <2> QED BY <1>8, <1>9, <1>10, <2>1 DEF TestFull
<1>11. CASE LoadPushed(c)
  <2>1. writer[c].at = "push" /\ writer[c].i >= 1
    BY <1>4, <1>11 DEF LoadPushed, WriterAt
  <2>2. Moves(c, [at |-> "push", i |-> writer[c].i, head |-> ring.head,
                  tail |-> writer[c].tail, of |-> writer[c].of])
    <3>1. ASSUME NEW w, w = [writer[c] EXCEPT !.head = ring.head]
          PROVE  w = [at |-> "push", i |-> writer[c].i, head |-> ring.head,
                      tail |-> writer[c].tail, of |-> writer[c].of]
      BY <1>4, <2>1, <3>1
    <3> QED BY <1>11, <3>1 DEF LoadPushed
  <2> QED BY <1>1, <1>2, <1>4, <2>1, <2>2
<1>12. CASE PushHead(c)
  <2>1. NextByte(c) /\ writer[c].i >= 1
    BY <1>4, <1>12 DEF PushHead, WriterAt
  <2> QED BY <1>8, <2>1
<1> QED BY <1>5, <1>6, <1>7, <1>10, <1>11, <1>12 DEF CommHandler

\* recBrowCommMsg() keeps the types, whoever runs it.
LEMMA WriterTypes ==
    ASSUME PortTypes, NEW c \in Consumers, CommHandler(c)
    PROVE  PortTypes'
<1>1. /\ RingTypes /\ N \in Nat /\ N > 1 /\ arrived \in Nat
      /\ ring \in RingSet /\ ring.head \in Slots /\ ring.tail \in Slots
      /\ crossed \in {"no", "read", "spoilt"} /\ writer[c].head \in Slots
      /\ writer[c].tail \in Slots /\ writer \in [Consumers -> WriterSet]
  <2>1. crossed \in {"no", "read", "spoilt"} /\ TypeOK
    BY DEF PortTypes, TypeOK
  <2> QED BY <2>1, Fields, Sets, RecordIs DEF RingTypes
<1>2. After(writer[c].tail) \in Slots /\ After(writer[c].head) \in Slots
  BY <1>1, AfterIs
<1>3. port = "comm" /\ UNCHANGED <<port, running, mail, sent, posted, taken, reader, got>>
  BY WriterKeeps
<1>4. PICK w : CommOK(w) /\ Moves(c, w)
  BY CommMoves
<1>5. /\ writer' \in [Consumers -> WriterSet]
      /\ writer'[c] = w /\ \A d \in Consumers \ {c} : writer'[d] = writer[d]
  BY <1>1, <1>4 DEF Moves, CommOK
<1>6. ring' \in RingSet /\ arrived' \in Nat /\ crossed' \in {"no", "read", "spoilt"}
  <2>1. CASE CommArrives(c)
    BY <1>1, <2>1 DEF CommArrives, Met
  <2>2. CASE StoreByte(c)
    <3>1. /\ arrived' = arrived + 1 /\ crossed' = crossed
          /\ ring' = [ring EXCEPT !.buf[ring.tail] = arrived']
      BY <2>2 DEF StoreByte
    <3>2. [ring.buf EXCEPT ![ring.tail] = arrived'] \in [Slots -> Nat]
      BY <1>1, <3>1 DEF RingTypes
    <3> QED BY <1>1, <3>1, <3>2 DEF RingSet
  <2>3. CASE StoreTail(c)
    BY <1>1, <1>2, <2>3 DEF StoreTail, RingSet
  <2>4. CASE TestFull(c) \/ LoadPushed(c)
    BY <1>1, <2>4 DEF TestFull, LoadPushed
  <2>5. CASE PushHead(c)
    BY <1>1, <1>2, <2>5 DEF PushHead, RingSet
  <2> QED BY <2>1, <2>2, <2>3, <2>4, <2>5 DEF CommHandler
<1>7. TypeOK'
  BY <1>3, <1>5, <1>6 DEF PortTypes, TypeOK, RingSet, WriterSet, Slots
<1>8. CommPlaces'
  BY <1>3, <1>4, <1>5 DEF PortTypes, Places, CommPlaces, CommOK
<1> QED BY <1>3, <1>7, <1>8 DEF PortTypes, Places

\* Unless it spoils the ring, it has the port for itself.
LEMMA WriterSolo ==
    ASSUME PortTypes, SoloInv, NEW c \in Consumers, CommHandler(c)
    PROVE  /\ SoloInv'
           /\ crossed' # "spoilt" =>
                 crossed # "spoilt" /\ Writer = writer[c] /\ Writer' = writer'[c]
<1>1. crossed' # "spoilt" => crossed # "spoilt" /\ Busy \subseteq {c}
  <2>1. CASE CommArrives(c)
    BY <2>1 DEF CommArrives, Met
  <2>2. CASE ~CommArrives(c)
    <3>1. crossed' = crossed /\ c \in Busy
      BY <2>2 DEF CommHandler, StoreByte, StoreTail, TestFull, LoadPushed, PushHead, WriterAt, Busy
    <3> QED BY <3>1 DEF SoloInv
  <2> QED BY <2>1, <2>2
<1>2. PICK w : CommOK(w) /\ Moves(c, w)
  BY CommMoves
<1> QED BY <1>1, <1>2, SoloMoves DEF PortTypes, CommOK

\* The steps of browSerialRead() and browSerialInit(), as what they do to each
\* field.
SerialStep ==
    \/ \E max \in 1 .. N : CallSerialRead(max)
    \/ LoadHead \/ TestEmpty \/ LoadAgain \/ TakeByte \/ NextHead \/ ResetHead \/ ResetTail

LEMMA SerialKeeps ==
    ASSUME SerialStep
    PROVE  port = "comm" /\ UNCHANGED <<port, mail, sent, posted, taken, writer, arrived>>
  BY DEF SerialStep, CallSerialRead, LoadHead, TestEmpty, LoadAgain, TakeByte, NextHead, ResetHead,
         ResetTail, ReaderAt, commReaderKeeps, commKeeps

\* They keep the types.
LEMMA SerialTypes == ASSUME PortTypes, SerialStep PROVE PortTypes'
<1>1. /\ RingTypes /\ 0 \in Slots /\ N \in Nat /\ arrived \in Nat
      /\ ring \in RingSet /\ reader \in ReaderSet /\ got \in GotSet
      /\ reader.head \in Slots /\ reader.left \in Nat
      /\ crossed \in {"no", "read", "spoilt"}
  <2>1. crossed \in {"no", "read", "spoilt"} /\ TypeOK
    BY DEF PortTypes, TypeOK
  <2>2. 0 \in Slots
    BY PortAssumption DEF PortAssumption, Slots
  <2> QED BY <2>1, <2>2, Fields, Sets
<1>2. /\ After(reader.head) \in Slots /\ ring.head \in Slots
      /\ ring.buf[reader.head] \in Nat
  BY <1>1, AfterIs DEF RingTypes
<1>3. /\ port = "comm" /\ UNCHANGED <<port, mail, sent, posted, taken, writer, arrived>>
      /\ running' \subseteq Consumers
  <2>1. running \subseteq Consumers
    BY DEF PortTypes, TypeOK
  <2>2. running' \subseteq Consumers
    BY <2>1 DEF SerialStep, CallSerialRead, LoadHead, TestEmpty, LoadAgain, TakeByte, NextHead,
         ResetHead, ResetTail
  <2> QED BY <2>2, SerialKeeps
<1> DEFINE ReaderOK(r) == /\ r \in ReaderSet
                          /\ r.at \in {"idle", "head", "empty", "take", "next", "reset"}
                          /\ r.at \notin {"idle", "reset"} => r.left >= 1
<1>4. /\ ring' \in RingSet /\ got' \in GotSet /\ crossed' \in {"no", "read", "spoilt"}
      /\ ReaderOK(reader')
  <2>0. reader.at \notin {"idle", "reset"} => reader.left >= 1
    BY <1>3 DEF PortTypes, Places, CommPlaces
  <2>1. ReaderOK(ReaderIdle)
    BY <1>1 DEF ReaderSet, ReaderIdle
  <2>2. ASSUME NEW max \in 1 .. N, CallSerialRead(max)
        PROVE  /\ ring' = ring /\ got' = got /\ crossed' \in {crossed, "spoilt", "read"}
               /\ ReaderOK(reader')
    <3>1. /\ ring' = ring /\ got' = got /\ crossed' \in {crossed, "spoilt", "read"}
          /\ reader' = [reader EXCEPT !.at = "head", !.left = max]
          /\ max \in Nat /\ max >= 1
      BY <1>1, <2>2 DEF CallSerialRead, Met
    <3> QED BY <1>1, <3>1 DEF ReaderSet
  <2>3. CASE LoadHead
    <3>1. /\ ring' = ring /\ got' = got /\ crossed' = crossed /\ reader.left >= 1
          /\ reader' = [reader EXCEPT !.at = "empty", !.head = ring.head]
      BY <2>0, <2>3 DEF LoadHead, ReaderAt
    <3> QED BY <1>1, <1>2, <3>1 DEF ReaderSet
  <2>4. CASE TestEmpty
    <3>1. /\ ring' = ring /\ got' = got /\ crossed' = crossed /\ reader.left >= 1
          /\ reader' = ReaderIdle \/ reader' = [reader EXCEPT !.at = "take"]
      BY <2>0, <2>4 DEF TestEmpty, ReaderAt
    <3>2. CASE reader' = [reader EXCEPT !.at = "take"]
      BY <1>1, <3>1, <3>2 DEF ReaderSet
    <3> QED BY <1>1, <2>1, <3>1, <3>2
  <2>10. CASE LoadAgain
    <3>1. /\ ring' = ring /\ got' = got /\ crossed' = crossed /\ reader.left >= 1
          /\ reader' = [reader EXCEPT !.head = ring.head]
          /\ reader.at \in {"take", "next"}
      BY <2>0, <2>10 DEF LoadAgain
    <3> QED BY <1>1, <1>2, <3>1 DEF ReaderSet
  <2>5. CASE TakeByte
    <3>1. /\ ring' = ring /\ crossed' = crossed /\ reader.left >= 1
          /\ got' = [got EXCEPT !.of = ring.buf[reader.head]]
          /\ reader' = [reader EXCEPT !.at = "next"]
      BY <2>0, <2>5 DEF TakeByte, ReaderAt
    <3>2. got' \in GotSet
      BY <1>1, <1>2, <3>1 DEF GotSet
    <3> QED BY <1>1, <3>1, <3>2 DEF ReaderSet
  <2>6. CASE NextHead
    <3>1. /\ got' = got /\ reader.left >= 1 /\ crossed' \in {crossed, "spoilt"}
          /\ ring' = [ring EXCEPT !.head = After(reader.head)]
          /\ \/ reader' = ReaderIdle
             \/ reader.left # 1 /\ reader' = [reader EXCEPT !.at = "head", !.left = @ - 1]
      BY <2>0, <2>6 DEF NextHead, ReaderAt
    <3>2. ring' \in RingSet
      BY <1>1, <1>2, <3>1 DEF RingSet
    <3>3. ASSUME reader.left # 1, reader' = [reader EXCEPT !.at = "head", !.left = @ - 1]
          PROVE  ReaderOK(reader')
      <4>1. reader.left - 1 \in Nat /\ reader.left - 1 >= 1
        BY <1>1, <3>1, <3>3
      <4> QED BY <1>1, <3>3, <4>1 DEF ReaderSet
    <3> QED BY <1>1, <2>1, <3>1, <3>2, <3>3
  <2>7. CASE ResetHead
    <3>1. /\ got' = got /\ crossed' \in {crossed, "spoilt", "read"}
          /\ ring' = [ring EXCEPT !.head = 0]
          /\ reader' = [reader EXCEPT !.at = "reset"]
      BY <2>7 DEF ResetHead, Met
    <3>2. ring' \in RingSet
      BY <1>1, <3>1 DEF RingSet
    <3> QED BY <1>1, <3>1, <3>2 DEF ReaderSet
  <2>8. CASE ResetTail
    <3>1. /\ got' = [got EXCEPT !.of = arrived] /\ crossed' = crossed
          /\ ring' = [ring EXCEPT !.tail = 0]
          /\ reader' = ReaderIdle
      BY <2>8 DEF ResetTail
    <3>2. ring' \in RingSet
      BY <1>1, <3>1 DEF RingSet
    <3>3. got' \in GotSet
      BY <1>1, <3>1 DEF GotSet
    <3> QED BY <1>1, <2>1, <3>1, <3>2, <3>3
  <2> HIDE DEF ReaderOK
  <2>9. ASSUME NEW max \in 1 .. N, CallSerialRead(max)
        PROVE  /\ ring' \in RingSet /\ got' \in GotSet
               /\ crossed' \in {"no", "read", "spoilt"} /\ ReaderOK(reader')
    BY <1>1, <2>2, <2>9
  <2> QED BY <2>3, <2>4, <2>5, <2>6, <2>7, <2>8, <2>9, <2>10 DEF SerialStep
<1>5. TypeOK'
  BY <1>3, <1>4 DEF PortTypes, TypeOK, RingSet, ReaderSet, GotSet, Slots
<1>6. CommPlaces'
  BY <1>3, <1>4 DEF PortTypes, Places, CommPlaces
<1> QED BY <1>3, <1>5, <1>6 DEF PortTypes, Places

\* Nor do they disturb who is storing.
LEMMA SerialSolo ==
    ASSUME SoloInv, SerialStep
    PROVE  /\ SoloInv' /\ Busy' = Busy /\ Writer' = Writer
           /\ crossed' # "spoilt" => crossed # "spoilt"
<1>1. crossed' # "spoilt" => crossed # "spoilt"
  BY DEF SerialStep, CallSerialRead, LoadHead, TestEmpty, LoadAgain, TakeByte, NextHead,
         ResetHead, ResetTail, Met
<1> QED BY <1>1, SerialKeeps, SoloSame

-----------------------------------------------------------------------------
(* The bytes of the ring.                                                    *)

\* A step that stores nothing leaves every good slot good.
LEMMA GoodSame ==
    ASSUME ring'.buf = ring.buf, ring'.tail = ring.tail, arrived' = arrived,
           Writer'.at = "tail" <=> Writer.at = "tail"
    PROVE  \A i \in Slots : Good(i)' <=> Good(i)
  BY DEF Good, Byte

\* What is known before a step, in plain terms.
LEMMA CommParts ==
    ASSUME PortTypes, port = "comm"
    PROVE  /\ ring.buf \in [Slots -> Nat] /\ ring.head \in Slots /\ ring.tail \in Slots
           /\ reader.head \in Slots
           /\ arrived \in Nat /\ got.of \in Nat /\ N \in Nat /\ N > 1
  BY Fields DEF PortTypes, RingTypes

\* The steps of the one consumer that is storing, in plain terms.
LEMMA WriterDoes ==
    ASSUME PortTypes, SoloInv, NEW c \in Consumers, CommHandler(c), crossed' # "spoilt"
    PROVE  /\ CommArrives(c) => /\ ring' = ring /\ arrived' = arrived
                                /\ Writer.at = "idle" /\ Writer'.at = "store"
                                /\ Met(reader.at, TRUE)
           /\ StoreByte(c) => /\ Writer.at = "store" /\ Writer'.at = "tail"
                              /\ Writer'.tail = ring.tail
                              /\ crossed' = crossed /\ arrived' = arrived + 1
                              /\ ring'.head = ring.head /\ ring'.tail = ring.tail
                              /\ ring'.buf = [ring.buf EXCEPT ![ring.tail] = arrived + 1]
           /\ StoreTail(c) => /\ Writer.at = "tail" /\ Writer'.at = "test"
                              /\ crossed' = crossed /\ arrived' = arrived
                              /\ ring'.head = ring.head /\ ring'.tail = After(Writer.tail)
                              /\ ring'.buf = ring.buf
           /\ TestFull(c) => /\ Writer.at = "test"
                             /\ crossed' = crossed /\ arrived' = arrived /\ ring' = ring
                             /\ IF ring.head = ring.tail
                                THEN Writer'.at = "push" /\ Writer'.head = ring.head
                                ELSE Writer'.at \in {"idle", "store"}
           /\ LoadPushed(c) => /\ Writer.at = "push" /\ Writer'.at = "push"
                               /\ Writer'.head = ring.head
                               /\ crossed' = crossed /\ arrived' = arrived /\ ring' = ring
           /\ PushHead(c) => /\ Writer.at = "push" /\ Writer'.at \in {"idle", "store"}
                             /\ crossed' = crossed /\ arrived' = arrived
                             /\ ring'.head = After(Writer.head) /\ ring'.tail = ring.tail
                             /\ ring'.buf = ring.buf
<1>1. /\ ring = [buf |-> ring.buf, head |-> ring.head, tail |-> ring.tail]
      /\ Writer = writer[c] /\ Writer' = writer'[c] /\ Writer \in WriterSet
      /\ Writer.at # "idle" => Writer.i >= 1
  <2>1. writer[c].at # "idle" => writer[c].i >= 1
    BY WriterKeeps DEF PortTypes, Places, CommPlaces
  <2> QED BY <2>1, WriterSolo, Fields, RecordIs DEF PortTypes
<1>2. ASSUME NEW w, Moves(c, w) PROVE Writer' = w
  BY <1>1, <1>2, Sets DEF Moves, PortTypes
<1>3. CommArrives(c) => /\ ring' = ring /\ arrived' = arrived
                        /\ Writer.at = "idle" /\ Writer'.at = "store"
                        /\ Met(reader.at, TRUE)
  <2> SUFFICES ASSUME CommArrives(c)
               PROVE  /\ ring' = ring /\ arrived' = arrived
                      /\ Writer.at = "idle" /\ Writer'.at = "store"
                      /\ Met(reader.at, TRUE)
    OBVIOUS
  <2>1. Writer' = [WriterIdle EXCEPT !.at = "store", !.i = N]
    BY <1>2 DEF CommArrives
  <2>2. Writer'.at = "store"
    BY <2>1 DEF WriterIdle
  <2> QED BY <1>1, <2>2 DEF CommArrives, WriterAt
<1>4. StoreByte(c) => /\ Writer.at = "store" /\ Writer'.at = "tail"
                      /\ Writer'.tail = ring.tail
                      /\ crossed' = crossed /\ arrived' = arrived + 1
                      /\ ring'.head = ring.head /\ ring'.tail = ring.tail
                      /\ ring'.buf = [ring.buf EXCEPT ![ring.tail] = arrived + 1]
  <2> SUFFICES ASSUME StoreByte(c)
               PROVE  /\ Writer.at = "store" /\ Writer'.at = "tail"
                      /\ Writer'.tail = ring.tail
                      /\ crossed' = crossed /\ arrived' = arrived + 1
                      /\ ring'.head = ring.head /\ ring'.tail = ring.tail
                      /\ ring'.buf = [ring.buf EXCEPT ![ring.tail] = arrived + 1]
    OBVIOUS
  <2>1. Writer' = [Writer EXCEPT !.at = "tail", !.tail = ring.tail]
    BY <1>1, <1>2 DEF StoreByte
  <2>2. Writer'.at = "tail" /\ Writer'.tail = ring.tail
    BY <1>1, <2>1 DEF WriterSet
  <2>3. arrived' = arrived + 1 /\ crossed' = crossed /\ Writer.at = "store"
    BY <1>1 DEF StoreByte, WriterAt
  <2>4. ring' = [ring EXCEPT !.buf[ring.tail] = arrived + 1]
    BY <2>3 DEF StoreByte
  <2> QED BY <1>1, <2>2, <2>3, <2>4
<1>5. StoreTail(c) => /\ Writer.at = "tail" /\ Writer'.at = "test"
                      /\ crossed' = crossed /\ arrived' = arrived
                      /\ ring'.head = ring.head /\ ring'.tail = After(Writer.tail)
                      /\ ring'.buf = ring.buf
  <2> SUFFICES ASSUME StoreTail(c)
               PROVE  /\ Writer.at = "tail" /\ Writer'.at = "test"
                      /\ crossed' = crossed /\ arrived' = arrived
                      /\ ring'.head = ring.head /\ ring'.tail = After(Writer.tail)
                      /\ ring'.buf = ring.buf
    OBVIOUS
  <2>1. Writer' = [Writer EXCEPT !.at = "test"]
    BY <1>1, <1>2 DEF StoreTail
  <2>2. Writer'.at = "test"
    BY <1>1, <2>1 DEF WriterSet
  <2>3. ring' = [ring EXCEPT !.tail = After(Writer.tail)]
    BY <1>1 DEF StoreTail
  <2> QED BY <1>1, <2>2, <2>3 DEF StoreTail, WriterAt
<1>6. ASSUME NextByte(c), Writer.at # "idle" PROVE Writer'.at \in {"idle", "store"}
  <2>1. \/ Moves(c, WriterIdle)
        \/ \E i \in Nat : Moves(c, [at |-> "store", i |-> i, head |-> 0, tail |-> 0, of |-> 0])
    BY <1>1, <1>6, NextByteIs DEF PortTypes
  <2>2. Writer' = WriterIdle
        \/ \E i \in Nat : Writer' = [at |-> "store", i |-> i, head |-> 0, tail |-> 0, of |-> 0]
    BY <1>2, <2>1
  <2> QED BY <2>2, IdleIs
<1>7. TestFull(c) => /\ Writer.at = "test"
                     /\ crossed' = crossed /\ arrived' = arrived /\ ring' = ring
                     /\ IF ring.head = ring.tail
                        THEN Writer'.at = "push" /\ Writer'.head = ring.head
                        ELSE Writer'.at \in {"idle", "store"}
  <2> SUFFICES ASSUME TestFull(c)
               PROVE  IF ring.head = ring.tail
                      THEN Writer'.at = "push" /\ Writer'.head = ring.head
                      ELSE Writer'.at \in {"idle", "store"}
    BY <1>1 DEF TestFull, WriterAt
  <2>1. Writer.at = "test"
    BY <1>1 DEF TestFull, WriterAt
  <2>2. CASE ring.head = ring.tail
    <3>1. Writer' = [Writer EXCEPT !.at = "push", !.head = ring.head]
      BY <1>1, <1>2, <2>2 DEF TestFull, Full
    <3>2. Writer'.at = "push" /\ Writer'.head = ring.head
      BY <1>1, <3>1 DEF WriterSet
    <3> QED BY <2>2, <3>2
  <2>3. CASE ring.head # ring.tail
    BY <1>6, <2>1, <2>3 DEF TestFull, Full
  <2> QED BY <2>2, <2>3
<1>8. LoadPushed(c) => /\ Writer.at = "push" /\ Writer'.at = "push"
                       /\ Writer'.head = ring.head
                       /\ crossed' = crossed /\ arrived' = arrived /\ ring' = ring
  <2> SUFFICES ASSUME LoadPushed(c)
               PROVE  /\ Writer.at = "push" /\ Writer'.at = "push"
                      /\ Writer'.head = ring.head
    BY DEF LoadPushed
  <2>1. Writer.at = "push" /\ Writer' = [Writer EXCEPT !.head = ring.head]
    BY <1>1, <1>2 DEF LoadPushed, WriterAt
  <2> QED BY <1>1, <2>1 DEF WriterSet
<1>9. PushHead(c) => /\ Writer.at = "push" /\ Writer'.at \in {"idle", "store"}
                     /\ crossed' = crossed /\ arrived' = arrived
                     /\ ring'.head = After(Writer.head) /\ ring'.tail = ring.tail
                     /\ ring'.buf = ring.buf
  <2> SUFFICES ASSUME PushHead(c)
               PROVE  /\ Writer.at = "push" /\ Writer'.at \in {"idle", "store"}
                      /\ crossed' = crossed /\ arrived' = arrived
                      /\ ring'.head = After(Writer.head) /\ ring'.tail = ring.tail
                      /\ ring'.buf = ring.buf
    OBVIOUS
  <2>1. Writer.at = "push" /\ crossed' = crossed /\ arrived' = arrived
    BY <1>1 DEF PushHead, WriterAt
  <2>2. Writer'.at \in {"idle", "store"}
    BY <1>6, <2>1 DEF PushHead
  <2>3. ring' = [ring EXCEPT !.head = After(Writer.head)]
    BY <1>1 DEF PushHead
  <2> QED BY <1>1, <2>1, <2>2, <2>3
<1> QED BY <1>3, <1>4, <1>5, <1>7, <1>8, <1>9

\* A byte is stored in the slot of the oldest, which is the one that Byte expects
\* there from now on.
LEMMA WriterBytes ==
    ASSUME PortTypes, SoloInv, ByteInv, NEW c \in Consumers, CommHandler(c)
    PROVE  ByteInv'
<1>1. port = "comm" /\ port' = "comm" /\ reader' = reader
  BY WriterKeeps
<1>2. /\ ring.buf \in [Slots -> Nat] /\ ring.head \in Slots /\ ring.tail \in Slots
      /\ arrived \in Nat /\ N \in Nat /\ N > 1
  BY <1>1, CommParts
<1>3. crossed' # "spoilt" => crossed # "spoilt"
  BY WriterSolo
<1> SUFFICES ASSUME crossed' # "spoilt"
             PROVE  /\ FirstTurn' \/ \A i \in Slots : Good(i)'
                    /\ reader'.at = "reset" => Writer'.at = "idle" /\ ring'.head = 0
                    /\ Writer'.at = "tail" => Writer'.tail = ring'.tail
  BY DEF ByteInv
<1>4. /\ FirstTurn \/ \A i \in Slots : Good(i)
      /\ reader.at = "reset" => Writer.at = "idle" /\ ring.head = 0
      /\ Writer.at = "tail" => Writer.tail = ring.tail
  BY <1>1, <1>3 DEF ByteInv
<1>5. CASE CommArrives(c)
  <2>1. /\ ring' = ring /\ arrived' = arrived /\ Writer.at = "idle" /\ Writer'.at = "store"
        /\ reader.at # "reset"
    BY <1>1, <1>5, WriterDoes DEF Met
  <2> QED BY <1>1, <1>4, <2>1, GoodSame DEF FirstTurn
<1>6. CASE StoreByte(c)
  <2>1. /\ Writer.at = "store" /\ Writer'.at = "tail" /\ arrived' = arrived + 1
        /\ ring'.head = ring.head /\ ring'.tail = ring.tail
        /\ ring'.buf = [ring.buf EXCEPT ![ring.tail] = arrived + 1]
        /\ Writer'.tail = ring.tail
    BY <1>1, <1>6, WriterDoes
  <2>2. /\ Good(ring.tail)'
        /\ \A i \in Slots : i # ring.tail /\ Good(i) => Good(i)'
    BY <1>2, <2>1, DistIs DEF Good, Byte
  <2> QED BY <1>1, <1>2, <1>4, <2>1, <2>2 DEF FirstTurn
<1>7. CASE StoreTail(c)
  <2>1. /\ Writer.at = "tail" /\ Writer'.at = "test" /\ arrived' = arrived
        /\ ring'.head = ring.head /\ ring'.tail = After(ring.tail)
        /\ ring'.buf = ring.buf
    BY <1>1, <1>4, <1>7, WriterDoes
  <2>2. ASSUME NEW i \in Slots PROVE Good(i)' <=> Good(i)
    <3>1. After(ring.tail) \in Slots /\ Dist(i, ring.tail) \in 0 .. N - 1
      BY <1>2, AfterIs, DistIs
    <3>2. CASE i = After(ring.tail)
      <4>1. Dist(i, ring.tail) = N - 1
        BY <1>2, <3>2, DistIs
      <4> QED BY <1>2, <2>1, <3>1, <3>2, <4>1 DEF Good, Byte
    <3>3. CASE i # After(ring.tail)
      <4>1. Dist(i, After(ring.tail)) = Dist(i, ring.tail) + 1
        BY <1>2, <3>3, DistIs
      <4> QED BY <1>2, <2>1, <3>1, <3>3, <4>1 DEF Good, Byte
    <3> QED BY <3>2, <3>3
  <2>3. CASE \A i \in Slots : Good(i)
    BY <1>1, <1>4, <2>1, <2>2, <2>3
  <2>4. CASE FirstTurn
    <3>1. CASE ring.tail + 1 = N
      <4>1. \A i \in Slots : i < ring.tail \/ i = ring.tail
        BY <1>2, <3>1 DEF Slots
      <4> QED BY <1>1, <1>4, <2>1, <2>2, <2>4, <4>1 DEF FirstTurn
    <3>2. CASE ring.tail + 1 # N
      <4>1. ring'.tail = ring.tail + 1
        BY <1>2, <2>1, <3>2, AfterIs
      <4>2. reader.head \in Slots
        BY <1>1, CommParts
      <4> QED BY <1>1, <1>2, <1>4, <2>1, <2>2, <2>4, <4>1, <4>2 DEF FirstTurn, Slots
    <3> QED BY <3>1, <3>2
  <2> QED BY <1>4, <2>3, <2>4
<1>8. CASE TestFull(c)
  <2>1. /\ Writer.at = "test" /\ arrived' = arrived /\ ring' = ring
        /\ IF ring.head = ring.tail THEN Writer'.at = "push" ELSE Writer'.at \in {"idle", "store"}
    BY <1>1, <1>8, WriterDoes
  <2>2. FirstTurn => ring.head # ring.tail
    BY <1>2, <2>1 DEF FirstTurn, Slots
  <2>3. \A i \in Slots : Good(i)' <=> Good(i)
    BY <2>1, GoodSame
  <2> QED BY <1>1, <1>4, <2>1, <2>2, <2>3 DEF FirstTurn
<1>10. CASE LoadPushed(c)
  <2>1. /\ Writer.at = "push" /\ Writer'.at = "push" /\ arrived' = arrived /\ ring' = ring
    BY <1>10, WriterDoes
  <2>2. ~FirstTurn
    BY <2>1 DEF FirstTurn
  <2> QED BY <1>1, <1>4, <2>1, <2>2, GoodSame
<1>9. CASE PushHead(c)
  <2>1. /\ Writer.at = "push" /\ Writer'.at \in {"idle", "store"} /\ arrived' = arrived
        /\ ring'.tail = ring.tail /\ ring'.buf = ring.buf
    BY <1>1, <1>9, WriterDoes
  <2>2. ~FirstTurn
    BY <2>1 DEF FirstTurn
  <2> QED BY <1>1, <1>4, <2>1, <2>2, GoodSame
<1> QED BY <1>5, <1>6, <1>7, <1>8, <1>9, <1>10 DEF CommHandler

\* The reader's steps, in plain terms.
LEMMA SerialDoes ==
    ASSUME PortTypes, SoloInv, port = "comm", SerialStep, crossed' # "spoilt"
    PROVE  /\ \A max \in 1 .. N : CallSerialRead(max) =>
                           /\ reader.at = "idle" /\ reader'.at = "head" /\ ring' = ring
                           /\ got' = got /\ Met("head", Busy # {})
           /\ LoadHead => /\ reader.at = "head" /\ reader'.at = "empty" /\ ring' = ring
                          /\ got' = got /\ crossed' = crossed /\ reader'.head = ring.head
           /\ TestEmpty => /\ reader.at = "empty" /\ ring' = ring
                           /\ got' = got /\ crossed' = crossed
                           /\ IF reader.head = ring.tail THEN reader'.at = "idle"
                              ELSE reader'.at = "take" /\ reader'.head = reader.head
           /\ LoadAgain => /\ reader.at \in {"take", "next"} /\ reader'.at = reader.at
                           /\ ring' = ring /\ got' = got /\ crossed' = crossed
                           /\ reader'.head = ring.head
           /\ TakeByte => /\ reader.at = "take" /\ reader'.at = "next" /\ ring' = ring
                          /\ reader'.head = reader.head /\ crossed' = crossed
                          /\ got'.of = ring.buf[reader.head]
           /\ NextHead => /\ reader.at = "next" /\ reader'.at \in {"idle", "head"}
                          /\ got' = got
                          /\ ring'.head = After(reader.head) /\ ring'.tail = ring.tail
                          /\ ring'.buf = ring.buf
                          /\ crossed' = IF Writer.at = "test" /\ After(reader.head) = ring.tail
                                        THEN "spoilt" ELSE crossed
           /\ ResetHead => /\ reader.at = "idle" /\ reader'.at = "reset" /\ got' = got
                           /\ ring'.head = 0 /\ ring'.tail = ring.tail
                           /\ ring'.buf = ring.buf
                           /\ Met("reset", Busy # {})
           /\ ResetTail => /\ reader.at = "reset" /\ reader'.at = "idle"
                           /\ crossed' = crossed /\ got'.of = arrived
                           /\ ring'.head = ring.head /\ ring'.tail = 0
                           /\ ring'.buf = ring.buf
<1>1. /\ ring = [buf |-> ring.buf, head |-> ring.head, tail |-> ring.tail]
      /\ reader \in ReaderSet /\ got \in GotSet /\ ReaderIdle.at = "idle"
  BY Fields, Sets DEF PortTypes, ReaderIdle
<1>2. ASSUME NEW max \in 1 .. N, CallSerialRead(max)
      PROVE  /\ reader.at = "idle" /\ reader'.at = "head" /\ ring' = ring
             /\ got' = got /\ Met("head", Busy # {})
  BY <1>1, <1>2 DEF CallSerialRead, ReaderAt, ReaderSet
<1>3. LoadHead => /\ reader.at = "head" /\ reader'.at = "empty" /\ ring' = ring
                  /\ got' = got /\ crossed' = crossed /\ reader'.head = ring.head
  BY <1>1 DEF LoadHead, ReaderAt, ReaderSet
<1>4. TestEmpty => /\ reader.at = "empty" /\ ring' = ring
                   /\ got' = got /\ crossed' = crossed
                   /\ IF reader.head = ring.tail THEN reader'.at = "idle"
                      ELSE reader'.at = "take" /\ reader'.head = reader.head
  BY <1>1 DEF TestEmpty, Empty, ReaderAt, ReaderSet
<1>9. LoadAgain => /\ reader.at \in {"take", "next"} /\ reader'.at = reader.at
                   /\ ring' = ring /\ got' = got /\ crossed' = crossed
                   /\ reader'.head = ring.head
  BY <1>1 DEF LoadAgain, ReaderSet
<1>5. TakeByte => /\ reader.at = "take" /\ reader'.at = "next" /\ ring' = ring
                  /\ reader'.head = reader.head /\ crossed' = crossed
                  /\ got'.of = ring.buf[reader.head]
  BY <1>1 DEF TakeByte, ReaderAt, ReaderSet, GotSet
<1>6. NextHead => /\ reader.at = "next" /\ reader'.at \in {"idle", "head"}
                  /\ got' = got
                  /\ ring'.head = After(reader.head) /\ ring'.tail = ring.tail
                  /\ ring'.buf = ring.buf
                  /\ crossed' = IF Writer.at = "test" /\ After(reader.head) = ring.tail
                                THEN "spoilt" ELSE crossed
  <2> SUFFICES ASSUME NextHead
               PROVE  /\ reader.at = "next" /\ reader'.at \in {"idle", "head"}
                      /\ got' = got
                      /\ ring'.head = After(reader.head) /\ ring'.tail = ring.tail
                      /\ ring'.buf = ring.buf
                      /\ crossed' = IF Writer.at = "test" /\ After(reader.head) = ring.tail
                                    THEN "spoilt" ELSE crossed
    OBVIOUS
  <2>1. ring' = [ring EXCEPT !.head = After(reader.head)] /\ got' = got /\ reader.at = "next"
    BY DEF NextHead, ReaderAt
  <2>2. /\ ring'.head = After(reader.head) /\ ring'.tail = ring.tail
        /\ ring'.buf = ring.buf
    BY <1>1, <2>1
  <2>3. reader'.at \in {"idle", "head"}
    BY <1>1 DEF NextHead, ReaderSet
  <2>4. crossed' = IF Writer.at = "test" /\ ring'.head = ring.tail THEN "spoilt" ELSE crossed
    <3>1. (\E c \in Busy : writer[c].at = "test") <=> Writer.at = "test"
      <4>1. crossed # "spoilt"
        BY SerialSolo
      <4>2. CASE Busy = {}
        BY <4>2, IdleIs DEF Writer, WriterIdle
      <4>3. CASE Busy # {}
        <5>1. PICK c \in Busy : Writer = writer[c]
          BY <4>3 DEF Writer
        <5> QED BY <4>1, <5>1 DEF SoloInv
      <4> QED BY <4>2, <4>3
    <3> QED BY <3>1 DEF NextHead
  <2> QED BY <2>1, <2>2, <2>3, <2>4
<1>7. ResetHead => /\ reader.at = "idle" /\ reader'.at = "reset" /\ got' = got
                   /\ ring'.head = 0 /\ ring'.tail = ring.tail
                   /\ ring'.buf = ring.buf
                   /\ Met("reset", Busy # {})
  BY <1>1 DEF ResetHead, ReaderAt, ReaderSet
<1>8. ResetTail => /\ reader.at = "reset" /\ reader'.at = "idle"
                   /\ crossed' = crossed /\ got'.of = arrived
                   /\ ring'.head = ring.head /\ ring'.tail = 0
                   /\ ring'.buf = ring.buf
  BY <1>1 DEF ResetTail, ReaderAt, ReaderSet, GotSet
<1> QED BY <1>2, <1>3, <1>4, <1>5, <1>6, <1>7, <1>8, <1>9

\* A reader moves the head, which slots are good does not depend on it; only an
\* initialisation moves the tail, and begins another first turn.
LEMMA SerialBytes == ASSUME PortTypes, SoloInv, ByteInv, SerialStep PROVE ByteInv'
<1>1. port = "comm" /\ port' = "comm" /\ Writer' = Writer /\ arrived' = arrived
  BY SerialKeeps, SerialSolo
<1>2. /\ ring.head \in Slots /\ ring.tail \in Slots /\ reader.head \in Slots
      /\ arrived \in Nat /\ N \in Nat /\ N > 1
  BY <1>1, CommParts
<1>3. crossed' # "spoilt" => crossed # "spoilt"
  BY SerialSolo
<1>0. Writer.at = "idle" <=> Busy = {}
  BY WriterIsBusy
<1> SUFFICES ASSUME crossed' # "spoilt"
             PROVE  /\ FirstTurn' \/ \A i \in Slots : Good(i)'
                    /\ reader'.at = "reset" => Writer'.at = "idle" /\ ring'.head = 0
                    /\ Writer'.at = "tail" => Writer'.tail = ring'.tail
  BY DEF ByteInv
<1>4. /\ FirstTurn \/ \A i \in Slots : Good(i)
      /\ reader.at = "reset" => Writer.at = "idle" /\ ring.head = 0
      /\ Writer.at = "tail" => Writer.tail = ring.tail
  BY <1>1, <1>3 DEF ByteInv
<1>5. CASE ~ResetTail
  <2>1. ring'.buf = ring.buf /\ ring'.tail = ring.tail
    BY <1>1, <1>5, SerialDoes DEF SerialStep
  <2>2. \A i \in Slots : Good(i)' <=> Good(i)
    BY <1>1, <2>1, GoodSame
  <2>3. reader'.at = "reset" => Writer'.at = "idle" /\ ring'.head = 0
    <3>1. CASE ResetHead
      BY <1>0, <1>1, <3>1, SerialDoes DEF Met
    <3>2. CASE ~ResetHead
      BY <1>1, <1>5, <3>2, SerialDoes DEF SerialStep
    <3> QED BY <3>1, <3>2
  <2>4. CASE \A i \in Slots : Good(i)
    BY <1>1, <1>4, <2>1, <2>2, <2>3, <2>4
  <2>5. CASE FirstTurn
    <3>1. ring'.head <= ring.tail /\ (Writer.at = "test" => ring'.head < ring.tail)
      <4>1. CASE NextHead
        <5>1. ring.head < ring.tail /\ ring'.head = After(reader.head) /\ reader.head = ring.head
          BY <1>1, <2>5, <4>1, SerialDoes DEF FirstTurn
        <5>2. ring'.head = reader.head + 1
          BY <1>2, <5>1, AfterIs DEF Slots
        <5>3. Writer.at = "test" => ring'.head # ring.tail
          BY <1>1, <4>1, <5>1, SerialDoes
        <5> QED BY <1>2, <5>1, <5>2, <5>3 DEF Slots
      <4>2. CASE ResetHead
        <5>1. ring'.head = 0 /\ Writer.at = "idle"
          BY <1>0, <1>1, <4>2, SerialDoes DEF Met
        <5> QED BY <1>2, <5>1 DEF Slots
      <4>3. CASE ~NextHead /\ ~ResetHead
        BY <1>1, <1>5, <2>5, <4>3, SerialDoes DEF SerialStep, FirstTurn
      <4> QED BY <4>1, <4>2, <4>3
    <3>2. /\ reader'.at \in {"empty", "take", "next"} => reader'.head = ring'.head
          /\ reader'.at \in {"take", "next"} => ring'.head < ring.tail
      <4>1. CASE LoadHead
        BY <1>1, <2>5, <4>1, SerialDoes DEF FirstTurn
      <4>2. CASE TestEmpty
        <5>1. ring.head <= ring.tail /\ reader.head = ring.head
          BY <1>1, <2>5, <4>2, SerialDoes DEF FirstTurn
        <5> QED BY <1>1, <1>2, <4>2, <5>1, SerialDoes DEF Slots
      <4>3. CASE TakeByte \/ LoadAgain
        BY <1>1, <2>5, <4>3, SerialDoes DEF FirstTurn
      <4>4. CASE ~LoadHead /\ ~TestEmpty /\ ~TakeByte /\ ~LoadAgain
        BY <1>1, <1>5, <4>4, SerialDoes DEF SerialStep
      <4> QED BY <4>1, <4>2, <4>3, <4>4
    <3> QED BY <1>1, <1>4, <2>1, <2>2, <2>3, <2>5, <3>1, <3>2 DEF FirstTurn
  <2> QED BY <1>4, <2>4, <2>5
<1>6. CASE ResetTail
  <2>1. /\ reader.at = "reset" /\ reader'.at = "idle" /\ Writer.at = "idle"
        /\ ring'.head = 0 /\ ring'.tail = 0
    BY <1>1, <1>4, <1>6, SerialDoes
  <2>2. \A i \in Slots : ~(i < 0)
    BY <1>2 DEF Slots
  <2> QED BY <1>1, <2>1, <2>2 DEF FirstTurn
<1> QED BY <1>5, <1>6

-----------------------------------------------------------------------------
(* How many bytes there are.                                                 *)

\* A byte more, or the oldest given up for it.
LEMMA WriterCounts ==
    ASSUME PortTypes, SoloInv, ByteInv, CountInv, NEW c \in Consumers, CommHandler(c)
    PROVE  CountInv'
<1>1. port = "comm" /\ port' = "comm" /\ reader' = reader /\ got' = got
  BY WriterKeeps
<1>2. /\ ring.head \in Slots /\ ring.tail \in Slots
      /\ arrived \in Nat /\ got.of \in Nat /\ N \in Nat /\ N > 1
      /\ Count \in 0 .. N - 1
  BY <1>1, CommParts, DistIs DEF Count
<1> SUFFICES ASSUME crossed' = "no"
             PROVE  CountInv'
  BY DEF CountInv
<1>3. crossed = "no" /\ reader.at = "idle"
  <2>1. CASE CommArrives(c)
    BY <1>1, <2>1, WriterDoes DEF Met
  <2>2. CASE ~CommArrives(c)
    <3>1. crossed = "no" /\ Writer.at # "idle"
      BY <1>1, <2>2, WriterDoes DEF CommHandler
    <3> QED BY <1>1, <3>1 DEF CountInv
  <2> QED BY <2>1, <2>2
<1>4. /\ got.of <= arrived
      /\ Writer.at \in {"idle", "store"} => Count = Least(arrived - got.of, N - 1)
      /\ Writer.at = "tail" =>
            arrived > got.of /\ Count = Least(arrived - 1 - got.of, N - 1)
      /\ Writer.at = "test" => \/ Count = 0 /\ arrived - got.of >= N
                               \/ Count > 0 /\ Count = arrived - got.of
      /\ Writer.at = "push" =>
            Count = 0 /\ arrived - got.of >= N /\ Writer.head = ring.head
  BY <1>1, <1>3 DEF CountInv
<1>5. CASE CommArrives(c)
  <2>1. ring' = ring /\ arrived' = arrived /\ Writer.at = "idle" /\ Writer'.at = "store"
    BY <1>1, <1>5, WriterDoes
  <2> QED BY <1>1, <1>3, <1>4, <2>1 DEF CountInv, Count
<1>6. CASE StoreByte(c)
  <2>1. /\ Writer.at = "store" /\ Writer'.at = "tail" /\ arrived' = arrived + 1
        /\ Count' = Count
    BY <1>1, <1>6, WriterDoes DEF Count
  <2>2. arrived' - 1 - got.of = arrived - got.of /\ arrived' > got.of /\ got.of <= arrived'
    BY <1>2, <1>4, <2>1
  <2> QED BY <1>1, <1>3, <1>4, <2>1, <2>2 DEF CountInv
<1>7. CASE StoreTail(c)
  <2>1. /\ Writer.at = "tail" /\ Writer'.at = "test" /\ arrived' = arrived
        /\ Count' = Dist(ring.head, After(ring.tail))
    <3>1. Writer.tail = ring.tail
      BY <1>1, <1>3, <1>7, WriterDoes DEF ByteInv
    <3> QED BY <1>1, <1>7, <3>1, WriterDoes DEF Count
  <2>2. CASE ring.head = After(ring.tail)
    <3>1. Count' = 0 /\ Count = N - 1
      BY <1>2, <2>1, <2>2, DistIs DEF Count
    <3>2. arrived - got.of >= N
      BY <1>2, <1>4, <2>1, <3>1 DEF Least
    <3> QED BY <1>1, <1>3, <1>4, <2>1, <3>1, <3>2 DEF CountInv
  <2>3. CASE ring.head # After(ring.tail)
    <3>1. Count' = Count + 1 /\ Count' <= N - 1
      BY <1>2, <2>1, <2>3, AfterIs, DistIs DEF Count
    <3>2. Count' = arrived - got.of /\ Count' > 0
      BY <1>2, <1>4, <2>1, <3>1 DEF Least
    <3> QED BY <1>1, <1>3, <1>4, <2>1, <3>2 DEF CountInv
  <2> QED BY <2>2, <2>3
<1>8. CASE TestFull(c)
  <2>1. /\ Writer.at = "test" /\ arrived' = arrived /\ ring' = ring /\ Count' = Count
        /\ IF ring.head = ring.tail
           THEN Writer'.at = "push" /\ Writer'.head = ring.head
           ELSE Writer'.at \in {"idle", "store"}
    BY <1>1, <1>8, WriterDoes DEF Count
  <2>2. Count = 0 <=> ring.head = ring.tail
    BY <1>2, DistIs DEF Count
  <2>3. Count # 0 => Count = Least(arrived - got.of, N - 1)
    BY <1>2, <1>4, <2>1 DEF Least
  <2>4. Count = 0 => arrived - got.of >= N
    BY <1>2, <1>4, <2>1
  <2> QED BY <1>1, <1>3, <1>4, <2>1, <2>2, <2>3, <2>4 DEF CountInv
<1>10. CASE LoadPushed(c)
  <2>1. /\ Writer.at = "push" /\ Writer'.at = "push" /\ Writer'.head = ring.head
        /\ arrived' = arrived /\ ring' = ring /\ Count' = Count
    BY <1>1, <1>10, WriterDoes DEF Count
  <2> QED BY <1>1, <1>3, <1>4, <2>1 DEF CountInv
<1>9. CASE PushHead(c)
  <2>1. /\ Writer.at = "push" /\ Writer'.at \in {"idle", "store"} /\ arrived' = arrived
        /\ Count' = Dist(After(ring.head), ring.tail)
    BY <1>1, <1>4, <1>9, WriterDoes DEF Count
  <2>2. ring.head = ring.tail
    BY <1>2, <1>4, <2>1, DistIs DEF Count
  <2>3. Count' = N - 1
    BY <1>2, <2>1, <2>2, DistIs
  <2>4. Count' = Least(arrived - got.of, N - 1)
    BY <1>2, <1>4, <2>1, <2>3 DEF Least
  <2> QED BY <1>1, <1>3, <1>4, <2>1, <2>4 DEF CountInv
<1> QED BY <1>5, <1>6, <1>7, <1>8, <1>9, <1>10 DEF CommHandler

\* The byte at the head is the oldest of those that are counted.
LEMMA HeadByte ==
    ASSUME PortTypes, ByteInv, port = "comm", crossed = "no", Writer.at = "idle",
           NEW i \in Slots, Dist(i, ring.tail) \in 1 .. Count
    PROVE  ring.buf[i] = arrived + 1 - Dist(i, ring.tail)
<1>1. /\ ring.head \in Slots /\ ring.tail \in Slots /\ N \in Nat /\ N > 1
      /\ arrived \in Nat
  BY CommParts
<1>2. i # ring.tail
  BY <1>1, DistIs
<1>3. Good(i)
  <2>1. CASE FirstTurn
    <3>1. i < ring.tail
      BY <1>1, <1>2, <2>1 DEF FirstTurn, Count, Dist, Slots
    <3> QED BY <2>1, <3>1 DEF FirstTurn
  <2> QED BY <2>1 DEF ByteInv
<1> QED BY <1>2, <1>3 DEF Good, Byte

\* A byte less, and it is the oldest that the ring holds.
LEMMA SerialCounts == ASSUME PortTypes, SoloInv, ByteInv, CountInv, SerialStep PROVE CountInv'
<1>1. port = "comm" /\ port' = "comm" /\ Writer' = Writer /\ arrived' = arrived
  BY SerialKeeps, SerialSolo
<1>0. Writer.at = "idle" <=> Busy = {}
  BY WriterIsBusy
<1>2. /\ ring.head \in Slots /\ ring.tail \in Slots /\ reader.head \in Slots
      /\ arrived \in Nat /\ got.of \in Nat /\ N \in Nat /\ N > 1
      /\ Count \in 0 .. N - 1 /\ (Count = 0 <=> ring.head = ring.tail)
  BY <1>1, CommParts, DistIs DEF Count
<1> SUFFICES ASSUME crossed' = "no" PROVE CountInv'
  BY DEF CountInv
<1>3. crossed = "no" /\ Writer.at = "idle"
  <2>1. CASE ResetHead
    BY <1>0, <1>1, <2>1, SerialDoes DEF Met
  <2>2. ASSUME NEW max \in 1 .. N, CallSerialRead(max) PROVE crossed = "no" /\ Writer.at = "idle"
    BY <1>0, <1>1, <2>2, SerialDoes DEF Met
  <2>3. CASE LoadHead \/ TestEmpty \/ LoadAgain \/ TakeByte \/ NextHead \/ ResetTail
    <3>1. crossed = "no" /\ reader.at # "idle"
      BY <1>1, <2>3, SerialDoes
    <3> QED BY <1>1, <3>1 DEF CountInv
  <2> QED BY <2>1, <2>2, <2>3 DEF SerialStep
<1>4. /\ got.of <= arrived
      /\ reader.at \in {"empty", "take", "next"} => reader.head = ring.head
      /\ reader.at \in {"take", "next"} => Count > 0
      /\ reader.at = "next" => got.of = arrived + 1 - Count
      /\ reader.at \notin {"next", "reset"} => Count = Least(arrived - got.of, N - 1)
  BY <1>1, <1>3 DEF CountInv
<1> SUFFICES /\ got'.of <= arrived
             /\ reader'.at \in {"empty", "take", "next"} => reader'.head = ring'.head
             /\ reader'.at \in {"take", "next"} => Count' > 0
             /\ reader'.at = "next" => got'.of = arrived + 1 - Count'
             /\ reader'.at \notin {"next", "reset"} => Count' = Least(arrived - got'.of, N - 1)
  BY <1>1, <1>3 DEF CountInv
<1>5. ASSUME NEW max \in 1 .. N, CallSerialRead(max)
      PROVE  /\ got' = got /\ ring' = ring /\ Count' = Count
             /\ reader.at = "idle" /\ reader'.at = "head"
  BY <1>1, <1>5, SerialDoes DEF Count
<1>6. CASE LoadHead
  <2>1. /\ got' = got /\ ring' = ring /\ Count' = Count
        /\ reader.at = "head" /\ reader'.at = "empty" /\ reader'.head = ring.head
    BY <1>1, <1>6, SerialDoes DEF Count
  <2> QED BY <1>4, <2>1
<1>7. CASE TestEmpty
  <2>1. /\ got' = got /\ ring' = ring /\ Count' = Count
        /\ reader.at = "empty"
        /\ IF reader.head = ring.tail THEN reader'.at = "idle"
           ELSE reader'.at = "take" /\ reader'.head = reader.head
    BY <1>1, <1>7, SerialDoes DEF Count
  <2> QED BY <1>2, <1>4, <2>1
<1>8. CASE TakeByte
  <2>1. /\ ring' = ring /\ Count' = Count /\ got'.of = ring.buf[reader.head]
        /\ reader.at = "take" /\ reader'.at = "next" /\ reader'.head = reader.head
    BY <1>1, <1>8, SerialDoes DEF Count
  <2>2. Count > 0 /\ reader.head = ring.head
    BY <1>4, <2>1
  <2>3. Dist(ring.head, ring.tail) \in 1 .. Count
    BY <1>2, <2>2 DEF Count
  <2>4. got'.of = arrived + 1 - Count
    BY <1>1, <1>2, <1>3, <2>1, <2>2, <2>3, HeadByte DEF Count
  <2> QED BY <1>2, <1>4, <2>1, <2>2, <2>4
<1>13. CASE LoadAgain
  <2>1. /\ got' = got /\ ring' = ring /\ Count' = Count
        /\ reader.at \in {"take", "next"} /\ reader'.at = reader.at /\ reader'.head = ring.head
    BY <1>1, <1>13, SerialDoes DEF Count
  <2> QED BY <1>4, <2>1
<1>9. CASE NextHead
  <2>1. /\ got' = got /\ reader.at = "next" /\ reader'.at \in {"idle", "head"}
        /\ Count' = Dist(After(ring.head), ring.tail)
    BY <1>1, <1>4, <1>9, SerialDoes DEF Count
  <2>2. Count' = Count - 1
    BY <1>2, <1>4, <2>1, DistIs DEF Count
  <2>3. Count' = Least(arrived - got.of, N - 1)
    BY <1>2, <1>4, <2>1, <2>2 DEF Least
  <2> QED BY <1>4, <2>1, <2>3
<1>10. CASE ResetHead
  <2>1. got' = got /\ reader'.at = "reset"
    BY <1>1, <1>10, SerialDoes
  <2> QED BY <1>4, <2>1
<1>11. CASE ResetTail
  <2>1. /\ reader.at = "reset" /\ reader'.at = "idle" /\ got'.of = arrived
        /\ ring'.head = 0 /\ ring'.tail = 0
    <3>1. ring.head = 0
      BY <1>1, <1>3, <1>11, SerialDoes DEF ByteInv
    <3> QED BY <1>1, <1>11, <3>1, SerialDoes
  <2>2. Count' = 0
    BY <2>1 DEF Count, Dist
  <2>3. Count' = Least(arrived - got'.of, N - 1)
    BY <1>2, <2>1, <2>2 DEF Least
  <2> QED BY <1>2, <2>1, <2>3
<1>12. ASSUME NEW max \in 1 .. N, CallSerialRead(max)
       PROVE  /\ got'.of <= arrived
              /\ reader'.at \notin {"empty", "take", "next", "reset"}
              /\ Count' = Least(arrived - got'.of, N - 1)
  BY <1>4, <1>5, <1>12
<1> QED BY <1>6, <1>7, <1>8, <1>9, <1>10, <1>11, <1>12, <1>13 DEF SerialStep

\* The remainder in Unread is a distance.
LEMMA CountIs ==
    \A i, j \in Slots : (j + N - i) % N = Dist(i, j)
<1> SUFFICES ASSUME NEW i \in Slots, NEW j \in Slots PROVE (j + N - i) % N = Dist(i, j)
  OBVIOUS
<1>1. CASE j >= i
  <2>1. j - i \in 0 .. N - 1 /\ j + N - i = (j - i) + N
    BY <1>1, PortAssumption DEF PortAssumption, Slots
  <2>2. ((j - i) + N) % N = j - i
    BY <2>1, PortAssumption DEF PortAssumption
  <2> QED BY <1>1, <2>1, <2>2 DEF Dist
<1>2. CASE j < i
  BY <1>2, PortAssumption DEF PortAssumption, Dist, Slots
<1> QED BY <1>1, <1>2 DEF Slots

\* The slot k places after slot i.
LEMMA SlotIs ==
    ASSUME NEW i \in Slots, NEW j \in Slots, NEW k \in Nat, k < Dist(i, j)
    PROVE  /\ (i + k) % N \in Slots
           /\ Dist((i + k) % N, j) = Dist(i, j) - k
<1>1. CASE i + k < N
  <2>1. (i + k) % N = i + k
    BY <1>1, PortAssumption DEF PortAssumption, Slots
  <2> QED BY <1>1, <2>1, PortAssumption DEF PortAssumption, Dist, Slots
<1>2. CASE i + k >= N
  <2>1. Dist(i, j) <= N - 1
    BY DistIs, PortAssumption DEF PortAssumption
  <2>2. i + k - N \in 0 .. N - 1
    BY <1>2, <2>1, PortAssumption DEF PortAssumption, Slots, Dist
  <2>3. (i + k) % N = i + k - N
    BY <1>2, <2>2, PortAssumption DEF PortAssumption, Slots
  <2> QED BY <1>2, <2>2, <2>3, PortAssumption DEF PortAssumption, Dist, Slots
<1> QED BY <1>1, <1>2, PortAssumption DEF PortAssumption, Slots

\* From how many bytes there are and which they are follows that the ring holds
\* the latest.
LEMMA HoldsLatest ==
    ASSUME PortTypes, SoloInv, ByteInv, CountInv
    PROVE  RingHoldsLatest
<1> SUFFICES ASSUME port = "comm", crossed = "no", Writer.at = "idle", reader.at = "idle"
             PROVE  RingHoldsLatest
  BY WriterIsBusy DEF RingHoldsLatest
<1> DEFINE lost == IF arrived - got.of >= N THEN arrived - N + 1 ELSE got.of
<1>1. /\ ring.head \in Slots /\ ring.tail \in Slots /\ N \in Nat /\ N > 1
      /\ arrived \in Nat /\ got.of \in Nat /\ Count \in 0 .. N - 1
  BY CommParts, DistIs DEF Count
<1>2. got.of <= arrived /\ Count = Least(arrived - got.of, N - 1)
  BY DEF CountInv
<1>3. lost = arrived - Count /\ arrived - lost = Count
  BY <1>1, <1>2 DEF Least
<1>4. (ring.tail + N - ring.head) % N = Count
  BY <1>1, CountIs DEF Count
<1>5. ASSUME NEW k \in 1 .. Count
      PROVE  ring.buf[(ring.head + k - 1) % N] = lost + k
  <2> DEFINE i == (ring.head + (k - 1)) % N
  <2>1. k - 1 \in Nat /\ k - 1 < Count /\ ring.head + k - 1 = ring.head + (k - 1)
    BY <1>1, <1>5 DEF Slots
  <2>2. i \in Slots /\ Dist(i, ring.tail) = Count - (k - 1)
    BY <1>1, <2>1, SlotIs DEF Count
  <2>3. Count - (k - 1) \in 1 .. Count
    BY <1>1, <1>5
  <2>4. ring.buf[i] = arrived + 1 - (Count - (k - 1))
    BY <2>2, <2>3, HeadByte
  <2> QED BY <1>1, <1>3, <2>1, <2>4
<1>6. Unread = [k \in 1 .. Count |-> lost + k]
  BY <1>4, <1>5 DEF Unread
<1> QED BY <1>3, <1>6 DEF RingHoldsLatest

-----------------------------------------------------------------------------
(* The mailbox.                                                              *)

\* The message being stored, or the latest one.
Last == sent[arrived]

MailSet == [usrDef : Nat, rxBuf : [1 .. Words -> Nat], dataLen : 0 .. Words, rxSem : Nat]

\* Unless two consumers stored at once, the mailbox holds the latest message, as
\* far as it is stored.
MailHolds ==
    /\ Writer.at = "idle" => posted = arrived
    /\ Writer.at # "idle" => Writer.of = arrived /\ arrived > 0
    /\ mail.usrDef = IF arrived > 0 /\ Last.usr /\ taken = 0 THEN arrived ELSE 0
    /\ Writer.at = "words" => \A w \in 1 .. Writer.i : mail.rxBuf[w] = arrived
    /\ arrived > 0 /\ Writer.at # "words" =>
          mail.dataLen = Last.len /\ \A w \in 1 .. Last.len : mail.rxBuf[w] = arrived

\* A read that no message met has all it read from that one.
MailReads ==
    /\ mail.rxSem > 0 => posted > 0
    /\ reader.at \in {"wait", "usr"} => reader.words = <<>>
    /\ reader.at \in {"usr", "copy"} /\ crossed = "no" =>
          Writer.at = "idle" /\ arrived > 0 /\ reader.of = arrived
    /\ reader.at = "copy" /\ crossed = "no" =>
          /\ Last.usr /\ taken = 0 /\ reader.usr = arrived
          /\ Len(reader.words) <= Last.len /\ Len(reader.words) <= reader.left
          /\ \A w \in 1 .. Len(reader.words) : reader.words[w] = arrived
    /\ got.clean => got.of \in 1 .. Len(sent)

MailInv == port = "iic" => (crossed # "spoilt" => MailHolds) /\ MailReads

\* What a step of recBrowIIcMsg() leaves alone.
LEMMA MailWriterKeeps ==
    ASSUME NEW c \in Consumers, MailHandler(c)
    PROVE  port = "iic" /\ UNCHANGED <<port, running, ring, reader, got>>
  BY DEF MailHandler, MailArrives, StoreWord, StoreLen, Post, WriterAt, iicWriterKeeps, iicKeeps

\* What is known before a step, in plain terms.
LEMMA MailParts ==
    ASSUME PortTypes, port = "iic"
    PROVE  /\ arrived = Len(sent) /\ sent \in Seq(Message) /\ arrived \in Nat
           /\ posted \in Nat /\ posted <= arrived /\ taken \in Nat /\ mail \in MailSet
           /\ writer \in [Consumers -> WriterSet] /\ reader \in ReaderSet /\ got \in GotSet
           /\ reader.at \in {"idle", "wait", "usr", "copy"}
           /\ crossed \in {"no", "read", "spoilt"}
           /\ arrived > 0 => Last \in Message
           /\ reader.at = "idle" => reader = ReaderIdle
           /\ 0 \in Slots /\ TypeOK
<1>1. /\ sent \in Seq(Message) /\ arrived \in Nat /\ posted \in Nat /\ taken \in Nat
      /\ mail \in MailSet /\ crossed \in {"no", "read", "spoilt"} /\ TypeOK
  BY DEF PortTypes, TypeOK, MailSet
<1>2. writer \in [Consumers -> WriterSet] /\ reader \in ReaderSet /\ got \in GotSet
  BY Sets DEF PortTypes
<1>3. /\ arrived = Len(sent) /\ posted <= arrived
      /\ reader.at \in {"idle", "wait", "usr", "copy"}
      /\ reader.at = "idle" => reader = ReaderIdle
  BY DEF PortTypes, Places, IicPlaces
<1>4. arrived > 0 => Last \in Message
  BY <1>1, <1>3 DEF Last
<1>5. 0 \in Slots
  BY PortAssumption DEF PortAssumption, Slots
<1> QED BY <1>1, <1>2, <1>3, <1>4, <1>5

\* A consumer's record in recBrowIIcMsg().
MailOK(w, len) ==
    /\ w \in WriterSet
    /\ w.at \in {"idle", "words", "post"}
    /\ w.at # "idle" => w.of \in 1 .. len
    /\ w.at = "idle" => w = WriterIdle

\* A message begins.
LEMMA ArrivesKeeps ==
    ASSUME PortTypes, SoloInv, MailInv, NEW c \in Consumers, NEW m \in Message, MailArrives(c, m)
    PROVE  PortTypes' /\ SoloInv' /\ MailInv'
<1> DEFINE new == [at |-> "words", i |-> 0, head |-> 0, tail |-> 0, of |-> arrived']
<1>1. port = "iic" /\ UNCHANGED <<port, running, ring, reader, got>>
  BY MailWriterKeeps DEF MailHandler
<1>2. /\ arrived' = arrived + 1 /\ sent' = Append(sent, m) /\ taken' = 0 /\ posted' = posted
      /\ mail' = [mail EXCEPT !.usrDef = IF m.usr THEN arrived' ELSE 0]
      /\ Moves(c, new)
      /\ crossed' = IF Busy # {} THEN "spoilt"
                    ELSE IF reader.at \in {"usr", "copy"} THEN "read" ELSE "no"
  <2>1. ASSUME NEW w, w = [WriterIdle EXCEPT !.at = "words", !.of = arrived'] PROVE w = new
    BY <2>1 DEF WriterIdle
  <2> HIDE DEF new
  <2> QED BY <2>1 DEF MailArrives
<1>3. mail'.usrDef = (IF m.usr THEN arrived' ELSE 0) /\ mail'.rxSem = mail.rxSem /\ mail' \in MailSet
  <2>1. mail \in MailSet /\ (IF m.usr THEN arrived' ELSE 0) \in Nat
    BY <1>1, <1>2, MailParts
  <2> QED BY <1>2, <2>1 DEF MailSet
<1>4. /\ sent' \in Seq(Message) /\ Len(sent') = arrived' /\ arrived' \in Nat /\ arrived' > 0
      /\ sent'[arrived'] = m /\ m.len \in 0 .. Words
      /\ \A k \in 1 .. Len(sent) : sent'[k] = sent[k]
  BY <1>1, <1>2, MailParts DEF Message
<1>5. /\ new \in WriterSet /\ writer' \in [Consumers -> WriterSet] /\ writer'[c] = new
      /\ \A d \in Consumers \ {c} : writer'[d] = writer[d]
      /\ new.at = "words" /\ new.i = 0 /\ new.of = arrived'
  BY <1>1, <1>2, <1>4, MailParts DEF WriterSet, Moves
<1> HIDE DEF new
<1>6. TypeOK'
  BY <1>1, <1>2, <1>3, <1>4, <1>5 DEF PortTypes, TypeOK, MailSet, WriterSet, Slots
<1>7. IicPlaces'
  <2>1. posted' <= arrived'
    BY <1>1, <1>2, MailParts
  <2>2. ASSUME NEW d \in Consumers
        PROVE  /\ writer'[d].at \in {"idle", "words", "post"}
               /\ writer'[d].at # "idle" => /\ writer'[d].of \in 1 .. Len(sent')
                                            /\ writer'[d].i <= sent'[writer'[d].of].len
    <3>1. CASE d = c
      BY <1>4, <1>5, <3>1
    <3>2. CASE d # c
      <4>1. /\ writer[d].at \in {"idle", "words", "post"}
            /\ writer[d].at # "idle" => /\ writer[d].of \in 1 .. Len(sent)
                                        /\ writer[d].i <= sent[writer[d].of].len
        BY <1>1 DEF PortTypes, Places, IicPlaces
      <4>2. writer'[d] = writer[d] /\ Len(sent') = Len(sent) + 1 /\ Len(sent) \in Nat
        BY <1>1, <1>2, <1>4, <1>5, <3>2, MailParts
      <4> QED BY <1>4, <4>1, <4>2
    <3> QED BY <3>1, <3>2
  <2> QED BY <1>1, <1>4, <2>1, <2>2, MailParts DEF IicPlaces
<1>8. /\ SoloInv'
      /\ crossed' # "spoilt" => Writer' = new
  <2>1. crossed' # "spoilt" => Busy \subseteq {c}
    BY <1>2
  <2> QED BY <1>1, <1>2, <1>5, <2>1, MailParts, SoloMoves
<1>9. crossed' # "spoilt" => MailHolds'
  BY <1>2, <1>3, <1>4, <1>5, <1>8 DEF MailHolds, Last
<1>10. MailReads'
  <2>1. /\ mail.rxSem > 0 => posted > 0
        /\ reader.at \in {"wait", "usr"} => reader.words = <<>>
        /\ got.clean => got.of \in 1 .. Len(sent)
    BY <1>1 DEF MailInv, MailReads
  <2>2. got'.clean => got'.of \in 1 .. Len(sent')
    BY <1>1, <1>2, <1>4, <2>1, MailParts
  <2>3. reader'.at \in {"usr", "copy"} => crossed' # "no"
    BY <1>1, <1>2
  <2> QED BY <1>1, <1>2, <1>3, <2>1, <2>2, <2>3 DEF MailReads
<1> QED BY <1>1, <1>6, <1>7, <1>8, <1>9, <1>10 DEF PortTypes, Places, MailInv

\* Its words, its length and its post.
LEMMA StoresKeep ==
    ASSUME PortTypes, SoloInv, MailInv, NEW c \in Consumers,
           StoreWord(c) \/ StoreLen(c) \/ Post(c)
    PROVE  PortTypes' /\ SoloInv' /\ MailInv'
<1> DEFINE k == writer[c].of
<1>1. /\ port = "iic" /\ UNCHANGED <<port, running, ring, reader, got>>
      /\ UNCHANGED <<arrived, sent, taken, crossed>>
      /\ writer[c].at \in {"words", "post"} /\ c \in Busy
  BY MailWriterKeeps DEF MailHandler, StoreWord, StoreLen, Post, WriterAt, Busy
<1>2. /\ k \in 1 .. Len(sent) /\ sent[k].len \in 0 .. Words /\ writer[c].i <= sent[k].len
      /\ writer[c].i \in Nat /\ writer[c] \in WriterSet /\ mail \in MailSet
      /\ arrived \in Nat /\ posted \in Nat /\ arrived = Len(sent) /\ k \in Nat
      /\ writer \in [Consumers -> WriterSet] /\ posted <= arrived
  <2>1. /\ k \in 1 .. Len(sent) /\ writer[c].i <= sent[k].len
    BY <1>1 DEF PortTypes, Places, IicPlaces
  <2>2. sent[k].len \in 0 .. Words
    <3>1. sent[k] \in Message
      BY <1>1, <2>1, MailParts
    <3> QED BY <3>1 DEF Message
  <2>3. /\ mail \in MailSet /\ arrived \in Nat /\ posted \in Nat /\ arrived = Len(sent)
        /\ writer \in [Consumers -> WriterSet] /\ posted <= arrived
    BY <1>1, MailParts
  <2>4. writer[c].i \in Nat /\ writer[c] \in WriterSet /\ k \in Nat
    BY RecordIs DEF PortTypes
  <2> QED BY <2>1, <2>2, <2>3, <2>4
<1>3. PICK w : /\ Moves(c, w) /\ w \in WriterSet /\ w.at \in {"idle", "words", "post"}
               /\ w.at # "idle" => w.of = k /\ w.i <= sent[k].len
               /\ w.at = "idle" => w = WriterIdle
               /\ mail' \in MailSet /\ posted' \in Nat /\ posted' <= arrived
               /\ mail'.rxSem > mail.rxSem => posted' > 0
               /\ posted' = posted \/ posted' = k
               /\ w.at = "idle" => posted' = k
               /\ mail'.usrDef = mail.usrDef
               /\ w.at = "words" =>
                     /\ writer[c].at = "words" /\ w.i = writer[c].i + 1 /\ w.i <= sent[k].len
                     /\ mail'.rxBuf = [mail.rxBuf EXCEPT ![w.i] = k]
               /\ w.at = "post" =>
                     /\ writer[c].at = "words" /\ writer[c].i = sent[k].len
                     /\ mail'.dataLen = sent[k].len /\ mail'.rxBuf = mail.rxBuf
               /\ w.at = "idle" =>
                     /\ writer[c].at = "post"
                     /\ mail'.dataLen = mail.dataLen /\ mail'.rxBuf = mail.rxBuf
  <2>1. CASE StoreWord(c)
    <3> DEFINE new == [writer[c] EXCEPT !.i = writer[c].i + 1]
    <3>1. /\ writer[c].at = "words" /\ writer[c].i < sent[k].len /\ posted' = posted
          /\ Moves(c, new)
          /\ mail' = [mail EXCEPT !.rxBuf[writer[c].i + 1] = k]
      BY <2>1 DEF StoreWord, WriterAt, Stored
    <3>2. writer[c].i + 1 \in 1 .. Words /\ writer[c].i + 1 <= sent[k].len
      BY <1>2, <3>1, PortAssumption DEF PortAssumption
    <3>3. new \in WriterSet /\ new.at = "words" /\ new.i = writer[c].i + 1 /\ new.of = k
      <4>1. writer[c] \in WriterSet /\ writer[c].i + 1 \in Nat /\ writer[c].of = k
        BY <1>2, <3>2
      <4> QED BY <3>1, <4>1 DEF WriterSet
    <3>4. /\ mail'.rxBuf = [mail.rxBuf EXCEPT ![writer[c].i + 1] = k]
          /\ mail.rxBuf \in [1 .. Words -> Nat]
          /\ mail'.rxSem = mail.rxSem /\ mail'.usrDef = mail.usrDef
      BY <1>2, <3>1 DEF MailSet
    <3>5. mail'.rxBuf \in [1 .. Words -> Nat]
      BY <1>2, <3>2, <3>4
    <3>6. mail' \in MailSet
      BY <1>2, <3>1, <3>4, <3>5 DEF MailSet
    <3>7. ~(mail.rxSem > mail.rxSem)
      BY <1>2 DEF MailSet
    <3> HIDE DEF new
    <3> QED BY <1>2, <3>1, <3>2, <3>3, <3>4, <3>6, <3>7
  <2>2. CASE StoreLen(c)
    <3> DEFINE new == [writer[c] EXCEPT !.at = "post"]
    <3>1. /\ writer[c].at = "words" /\ writer[c].i = sent[k].len /\ posted' = posted
          /\ mail' = [mail EXCEPT !.dataLen = sent[k].len]
          /\ Moves(c, new)
      BY <2>2 DEF StoreLen, WriterAt, Stored
    <3>2. new.at = "post" /\ new.i = writer[c].i /\ new.of = k /\ new \in WriterSet
      BY <1>2, <3>1 DEF WriterSet
    <3>3. /\ mail' \in MailSet /\ mail'.dataLen = sent[k].len /\ mail'.rxSem = mail.rxSem
          /\ mail'.usrDef = mail.usrDef /\ mail'.rxBuf = mail.rxBuf
      BY <1>2, <3>1 DEF MailSet
    <3>4. ~(mail.rxSem > mail.rxSem)
      BY <1>2 DEF MailSet
    <3> HIDE DEF new
    <3> QED BY <1>2, <3>1, <3>2, <3>3, <3>4
  <2>3. CASE Post(c)
    <3>1. /\ writer[c].at = "post" /\ posted' = k
          /\ mail' = [mail EXCEPT !.rxSem = mail.rxSem + 1]
          /\ Moves(c, WriterIdle)
      BY <2>3 DEF Post, WriterAt
    <3>2. /\ mail' \in MailSet /\ mail'.dataLen = mail.dataLen
          /\ mail'.usrDef = mail.usrDef /\ mail'.rxBuf = mail.rxBuf
      BY <1>2, <3>1 DEF MailSet
    <3>3. posted' > 0 /\ posted' <= arrived
      BY <1>2, <3>1
    <3> QED BY <1>2, <3>1, <3>2, <3>3, IdleIs
  <2> QED BY <2>1, <2>2, <2>3
<1>4. /\ writer' \in [Consumers -> WriterSet] /\ writer'[c] = w
      /\ \A d \in Consumers \ {c} : writer'[d] = writer[d]
  BY <1>2, <1>3 DEF Moves
<1>5. TypeOK'
  BY <1>1, <1>3, <1>4 DEF PortTypes, TypeOK, MailSet, WriterSet, Slots
<1>6. IicPlaces'
  <2>1. ASSUME NEW d \in Consumers
        PROVE  /\ writer'[d].at \in {"idle", "words", "post"}
               /\ writer'[d].at # "idle" => /\ writer'[d].of \in 1 .. Len(sent)
                                            /\ writer'[d].i <= sent[writer'[d].of].len
    <3>1. CASE d = c
      BY <1>2, <1>3, <1>4, <3>1
    <3>2. CASE d # c
      BY <1>1, <1>4, <3>2 DEF PortTypes, Places, IicPlaces
    <3> QED BY <3>1, <3>2
  <2> QED BY <1>1, <1>2, <1>3, <2>1, MailParts DEF IicPlaces
<1>7. SoloInv' /\ (crossed # "spoilt" => Writer = writer[c] /\ Writer' = w)
  <2>1. crossed' # "spoilt" => Busy \subseteq {c}
    BY <1>1 DEF SoloInv
  <2> QED BY <1>1, <1>3, <2>1, MailParts, SoloMoves
<1>8. ASSUME crossed # "spoilt" PROVE MailHolds'
  <2>1. /\ k = arrived /\ arrived > 0 /\ sent[k] = Last /\ Last' = Last
        /\ mail.usrDef = IF arrived > 0 /\ Last.usr /\ taken = 0 THEN arrived ELSE 0
        /\ writer[c].at = "words" => \A x \in 1 .. writer[c].i : mail.rxBuf[x] = arrived
        /\ writer[c].at = "post" => /\ mail.dataLen = Last.len
                                    /\ \A x \in 1 .. Last.len : mail.rxBuf[x] = arrived
    BY <1>1, <1>7, <1>8 DEF MailInv, MailHolds, Last
  <2>2. CASE w.at = "words"
    <3>1. /\ w.i = writer[c].i + 1 /\ w.i \in 1 .. Words
          /\ mail'.rxBuf = [mail.rxBuf EXCEPT ![w.i] = arrived]
          /\ mail.rxBuf \in [1 .. Words -> Nat]
      <4>1. w.i = writer[c].i + 1 /\ w.i <= sent[k].len
        BY <1>3, <2>2
      <4>2. w.i \in 1 .. Words
        BY <1>2, <4>1, PortAssumption DEF PortAssumption
      <4>3. mail'.rxBuf = [mail.rxBuf EXCEPT ![w.i] = arrived]
        BY <1>3, <2>1, <2>2
      <4> QED BY <1>2, <4>1, <4>2, <4>3 DEF MailSet
    <3>2. ASSUME NEW x \in 1 .. w.i PROVE mail'.rxBuf[x] = arrived
      <4>1. x \in 1 .. Words /\ (x = w.i \/ x \in 1 .. writer[c].i)
        BY <1>2, <3>1, PortAssumption DEF PortAssumption
      <4>2. CASE x = w.i
        BY <3>1, <4>2
      <4>3. CASE x # w.i
        <5>1. mail.rxBuf[x] = arrived
          BY <1>3, <2>1, <2>2, <4>1, <4>3
        <5> QED BY <3>1, <4>1, <4>3, <5>1
      <4> QED BY <4>2, <4>3
    <3> QED BY <1>1, <1>3, <1>7, <1>8, <2>1, <2>2, <3>2 DEF MailHolds
  <2>3. CASE w.at = "post"
    BY <1>1, <1>3, <1>7, <1>8, <2>1, <2>3 DEF MailHolds
  <2>4. CASE w.at = "idle"
    BY <1>1, <1>3, <1>7, <1>8, <2>1, <2>4 DEF MailHolds
  <2> QED BY <1>3, <2>2, <2>3, <2>4
<1>9. MailReads'
  <2>1. /\ mail.rxSem > 0 => posted > 0
        /\ reader.at \in {"wait", "usr"} => reader.words = <<>>
        /\ got.clean => got.of \in 1 .. Len(sent)
    BY <1>1 DEF MailInv, MailReads
  <2>2. crossed = "no" => reader.at \notin {"usr", "copy"}
    BY <1>1, <1>7 DEF MailInv, MailReads
  <2>3. mail'.rxSem > 0 => posted' > 0
    <3>1. mail.rxSem \in Nat /\ mail'.rxSem \in Nat
      BY <1>2, <1>3 DEF MailSet
    <3> QED BY <1>2, <1>3, <2>1, <3>1
  <2> QED BY <1>1, <2>1, <2>2, <2>3 DEF MailReads
<1> QED BY <1>1, <1>5, <1>6, <1>7, <1>8, <1>9 DEF PortTypes, Places, MailInv

\* A read begins, gives up, or is woken.
LEMMA WaitsKeep ==
    ASSUME PortTypes, SoloInv, MailInv, AnswerIsTheMessage,
           TimedOut \/ Down \/ \E max \in 1 .. Words : CallIicRead(max)
    PROVE  PortTypes' /\ SoloInv' /\ MailInv' /\ AnswerIsTheMessage'
<1>1. /\ port = "iic" /\ UNCHANGED <<port, running, ring, writer, arrived, sent, posted, taken, got>>
      /\ reader.at \in {"idle", "wait"}
  BY DEF TimedOut, Down, CallIicRead, ReaderAt, iicReaderKeeps, iicKeeps
<1>2. /\ arrived \in Nat /\ posted \in Nat /\ mail \in MailSet /\ reader \in ReaderSet
      /\ crossed \in {"no", "read", "spoilt"} /\ 0 \in Slots
      /\ reader.at = "idle" => reader = ReaderIdle
  BY <1>1, MailParts
<1>3. /\ crossed # "spoilt" /\ Writer.at = "idle" => posted = arrived
      /\ mail.rxSem > 0 => posted > 0
      /\ reader.at \in {"wait", "usr"} => reader.words = <<>>
      /\ got.clean => got.of \in 1 .. Len(sent)
      /\ Busy = {} <=> Writer.at = "idle"
  BY <1>1, WriterIsBusy DEF MailInv, MailHolds, MailReads
<1>4. /\ mail' \in MailSet /\ reader' \in ReaderSet /\ crossed' \in {"no", "read", "spoilt"}
      /\ mail'.rxSem > 0 => posted > 0
      /\ UNCHANGED <<mail.usrDef, mail.dataLen, mail.rxBuf>>
      /\ reader'.at \in {"idle", "wait", "usr"}
      /\ reader'.at = "idle" => reader' = ReaderIdle
      /\ reader'.at # "idle" => reader'.words = <<>>
      /\ reader'.at = "usr" /\ crossed' = "no" =>
            Writer.at = "idle" /\ arrived > 0 /\ reader'.of = arrived
      /\ crossed' # "spoilt" => crossed # "spoilt"
  <2>1. CASE TimedOut
    BY <1>2, <1>3, <2>1 DEF TimedOut, ReaderIdle, ReaderSet
  <2>2. CASE Down
    <3>1. /\ reader.at = "wait" /\ mail.rxSem > 0
          /\ mail' = [mail EXCEPT !.rxSem = mail.rxSem - 1]
          /\ reader' = [reader EXCEPT !.at = "usr", !.of = posted]
          /\ crossed' = IF crossed = "spoilt" THEN "spoilt" ELSE IF Busy # {} THEN "read" ELSE "no"
      BY <2>2 DEF Down, ReaderAt
    <3>2. mail.rxSem - 1 \in Nat
      BY <1>2, <3>1 DEF MailSet
    <3>3. /\ mail' \in MailSet /\ mail'.usrDef = mail.usrDef /\ mail'.dataLen = mail.dataLen
          /\ mail'.rxBuf = mail.rxBuf
      BY <1>2, <3>1, <3>2 DEF MailSet
    <3>4. /\ reader' \in ReaderSet /\ reader'.at = "usr" /\ reader'.of = posted
          /\ reader'.words = reader.words
      BY <1>2, <3>1 DEF ReaderSet
    <3>5. crossed' = "no" => Writer.at = "idle" /\ arrived > 0 /\ posted = arrived
      BY <1>2, <1>3, <3>1
    <3>6. /\ crossed' \in {"no", "read", "spoilt"} /\ (crossed' # "spoilt" => crossed # "spoilt")
          /\ reader.words = <<>> /\ posted > 0
      BY <1>3, <3>1
    <3> QED BY <3>3, <3>4, <3>5, <3>6
  <2>3. ASSUME NEW max \in 1 .. Words, CallIicRead(max)
        PROVE  /\ mail' = mail /\ crossed' = crossed /\ reader' \in ReaderSet
               /\ reader'.at = "wait" /\ reader'.words = <<>>
    <3>1. /\ mail' = mail /\ crossed' = crossed /\ reader.at = "idle"
          /\ reader' = [reader EXCEPT !.at = "wait", !.left = max]
      BY <2>3 DEF CallIicRead, ReaderAt
    <3>4. max \in Nat
      BY PortAssumption DEF PortAssumption
    <3>2. reader.words = <<>>
      BY <1>2, <3>1 DEF ReaderIdle
    <3>3. reader'.at = "wait" /\ reader'.words = reader.words /\ reader' \in ReaderSet
      BY <1>2, <3>1, <3>4 DEF ReaderSet
    <3> QED BY <3>1, <3>2, <3>3
  <2> QED BY <1>1, <1>2, <1>3, <2>1, <2>2, <2>3
<1>5. TypeOK'
  BY <1>1, <1>4 DEF PortTypes, TypeOK, MailSet, ReaderSet, Slots
<1>6. IicPlaces'
  BY <1>1, <1>4 DEF PortTypes, Places, IicPlaces
<1>9. SoloInv' /\ Writer' = Writer
  BY <1>1, <1>4, SoloSame
<1>7. MailInv'
  <2>1. crossed' # "spoilt" => MailHolds'
    BY <1>1, <1>4, <1>9 DEF MailInv, MailHolds, Last
  <2>2. MailReads'
    BY <1>1, <1>3, <1>4, <1>9 DEF MailReads, Last
  <2> QED BY <2>1, <2>2 DEF MailInv
<1>8. AnswerIsTheMessage'
  BY <1>1 DEF AnswerIsTheMessage
<1> QED BY <1>1, <1>5, <1>6, <1>7, <1>8, <1>9 DEF PortTypes, Places

\* What a read that no message met is answered with.
Expected(of, max, before, usr, words) ==
    LET n == IF sent[of].len < max THEN sent[of].len ELSE max
    IN  IF sent[of].usr /\ before = 0
        THEN usr = of /\ words = [w \in 1 .. n |-> of]
        ELSE usr = 0 /\ words = <<>>

LEMMA ExpectedIs ==
    AnswerIsTheMessage <=>
        (port = "iic" /\ got.clean => Expected(got.of, got.max, got.before, got.usr, got.words))
  BY DEF AnswerIsTheMessage, Expected

\* A read looks at the control word, copies, and ends.  One that no message met has
\* found the whole of the latest message; one that ends the first takes it.
LEMMA ReadsKeep ==
    ASSUME PortTypes, SoloInv, MailInv, AnswerIsTheMessage, LoadUsr \/ CopyWord \/ ClearUsr
    PROVE  PortTypes' /\ SoloInv' /\ MailInv' /\ AnswerIsTheMessage'
<1>1. /\ port = "iic" /\ UNCHANGED <<port, running, ring, writer, arrived, sent, posted, crossed>>
      /\ reader.at \in {"usr", "copy"}
  BY DEF LoadUsr, CopyWord, ClearUsr, ReaderAt, iicReaderKeeps, iicKeeps
<1>2. /\ arrived \in Nat /\ taken \in Nat /\ mail \in MailSet /\ reader \in ReaderSet
      /\ got \in GotSet /\ 0 \in Slots /\ arrived = Len(sent)
      /\ ReaderIdle \in ReaderSet /\ ReaderIdle.at = "idle"
  BY <1>1, MailParts DEF ReaderIdle, ReaderSet
<1>3. /\ mail.rxSem > 0 => posted > 0
      /\ reader.at = "usr" => reader.words = <<>>
      /\ got.clean => got.of \in 1 .. Len(sent)
  BY <1>1 DEF MailInv, MailReads
<1>0. SoloInv' /\ Writer' = Writer
  BY <1>1, SoloSame
<1>4. crossed = "no" =>
        /\ Writer.at = "idle" /\ arrived > 0 /\ reader.of = arrived
        /\ Last \in Message /\ reader.of \in 1 .. Len(sent)
        /\ mail.dataLen = Last.len /\ \A w \in 1 .. Last.len : mail.rxBuf[w] = arrived
  BY <1>1, <1>2, MailParts DEF MailInv, MailHolds, MailReads
<1>5. reader.at = "copy" /\ crossed = "no" =>
        /\ Last.usr /\ taken = 0 /\ reader.usr = arrived
        /\ Len(reader.words) <= Last.len /\ Len(reader.words) <= reader.left
        /\ \A w \in 1 .. Len(reader.words) : reader.words[w] = arrived
  BY <1>1 DEF MailInv, MailReads
<1>6. crossed # "spoilt" =>
      /\ Writer.at = "idle" => posted = arrived
      /\ Writer.at # "idle" => Writer.of = arrived /\ arrived > 0
      /\ mail.usrDef = IF arrived > 0 /\ Last.usr /\ taken = 0 THEN arrived ELSE 0
      /\ Writer.at = "words" => \A w \in 1 .. Writer.i : mail.rxBuf[w] = arrived
      /\ arrived > 0 /\ Writer.at # "words" =>
            mail.dataLen = Last.len /\ \A w \in 1 .. Last.len : mail.rxBuf[w] = arrived
  BY <1>1 DEF MailInv, MailHolds
<1>7. ASSUME NEW usr \in Nat, NEW words \in Seq(Nat), Answer(usr, words),
             mail' \in MailSet, UNCHANGED <<mail.rxSem, mail.dataLen, mail.rxBuf>>,
             mail'.usrDef = IF arrived > 0 /\ Last.usr /\ taken' = 0 THEN arrived ELSE 0,
             crossed = "no" => Expected(arrived, reader.left, taken, usr, words)
      PROVE  PortTypes' /\ SoloInv' /\ MailInv' /\ AnswerIsTheMessage'
  <2>1. /\ reader' = ReaderIdle /\ taken' = taken + 1 /\ taken' \in Nat
        /\ got' = [clean |-> crossed = "no", of |-> reader.of, usr |-> usr, words |-> words,
                   before |-> taken, max |-> reader.left]
    BY <1>2, <1>7 DEF Answer
  <2>2. /\ got' \in GotSet /\ (got'.clean <=> crossed = "no") /\ got'.of = reader.of
        /\ got'.usr = usr /\ got'.words = words /\ got'.before = taken /\ got'.max = reader.left
    BY <1>2, <1>7, <2>1 DEF GotSet, ReaderSet
  <2>3. TypeOK'
    BY <1>1, <1>2, <1>7, <2>1, <2>2 DEF PortTypes, TypeOK, MailSet, ReaderSet, GotSet, Slots
  <2>4. IicPlaces'
    BY <1>1, <1>2, <2>1 DEF PortTypes, Places, IicPlaces
  <2>5. MailInv'
    <3>1. crossed' # "spoilt" => MailHolds'
      BY <1>0, <1>1, <1>6, <1>7, <2>1 DEF MailHolds, Last
    <3>2. MailReads'
      BY <1>1, <1>2, <1>3, <1>4, <1>7, <2>1, <2>2 DEF MailReads
    <3> QED BY <3>1, <3>2 DEF MailInv
  <2>6. AnswerIsTheMessage'
    <3>1. crossed = "no" => Expected(reader.of, reader.left, taken, usr, words)
      BY <1>4, <1>7
    <3> QED BY <1>1, <2>2, <3>1 DEF AnswerIsTheMessage, Expected
  <2> QED BY <1>0, <1>1, <2>3, <2>4, <2>5, <2>6 DEF PortTypes, Places
\* It goes on: nothing it answers changes.
<1>8. ASSUME mail' = mail, taken' = taken, got' = got,
             reader' \in ReaderSet, reader'.at = "copy", reader'.of = reader.of,
             crossed = "no" =>
                /\ Last.usr /\ taken = 0 /\ reader'.usr = arrived
                /\ Len(reader'.words) <= Last.len /\ Len(reader'.words) <= reader'.left
                /\ \A w \in 1 .. Len(reader'.words) : reader'.words[w] = arrived
      PROVE  PortTypes' /\ SoloInv' /\ MailInv' /\ AnswerIsTheMessage'
  <2>1. TypeOK'
    BY <1>1, <1>8 DEF PortTypes, TypeOK, ReaderSet, Slots
  <2>2. IicPlaces'
    BY <1>1, <1>8 DEF PortTypes, Places, IicPlaces
  <2>3. MailInv'
    <3>1. crossed' # "spoilt" => MailHolds'
      BY <1>0, <1>1, <1>6, <1>8 DEF MailHolds, Last
    <3>2. MailReads'
      BY <1>0, <1>1, <1>3, <1>4, <1>8 DEF MailReads, Last
    <3> QED BY <3>1, <3>2 DEF MailInv
  <2>4. AnswerIsTheMessage'
    BY <1>1, <1>8 DEF AnswerIsTheMessage
  <2> QED BY <1>0, <1>1, <2>1, <2>2, <2>3, <2>4 DEF PortTypes, Places
<1>9. CASE LoadUsr
  <2>1. mail' = mail /\ reader.at = "usr" /\ reader.words = <<>>
    BY <1>3, <1>9 DEF LoadUsr, ReaderAt
  <2>2. CASE mail.usrDef = 0 /\ Answer(0, <<>>)
    <3>1. taken' # 0
      BY <1>2, <2>2 DEF Answer
    <3>2. crossed = "no" => Expected(arrived, reader.left, taken, 0, <<>>)
      BY <1>4, <1>6, <2>2 DEF Expected, Last
    <3>3. mail'.usrDef = IF arrived > 0 /\ Last.usr /\ taken' = 0 THEN arrived ELSE 0
      BY <2>1, <2>2, <3>1
    <3>4. /\ mail' \in MailSet /\ UNCHANGED <<mail.rxSem, mail.dataLen, mail.rxBuf>>
          /\ 0 \in Nat /\ <<>> \in Seq(Nat)
      BY <1>2, <2>1
    <3> QED BY <1>7, <2>2, <3>2, <3>3, <3>4
  <2>3. CASE /\ mail.usrDef # 0 /\ taken' = taken /\ got' = got
             /\ reader' = [reader EXCEPT !.at = "copy", !.usr = mail.usrDef]
    <3>1. /\ reader' \in ReaderSet /\ reader'.at = "copy" /\ reader'.of = reader.of
          /\ reader'.usr = mail.usrDef /\ reader'.words = <<>> /\ reader'.left = reader.left
          /\ reader.left \in Nat
      BY <1>2, <2>1, <2>3 DEF ReaderSet, MailSet
    <3>2. crossed = "no" => Last.usr /\ taken = 0 /\ mail.usrDef = arrived
      BY <1>6, <2>3
    <3>3. Len(<<>>) = 0 /\ (crossed = "no" => Last.len \in Nat)
      BY <1>4, PortAssumption DEF Message, PortAssumption
    <3> QED BY <1>8, <2>1, <2>3, <3>1, <3>2, <3>3
  <2> QED BY <1>9, <2>2, <2>3 DEF LoadUsr
<1>10. CASE CopyWord
  <2> DEFINE k == Len(reader.words)
             new == Append(reader.words, mail.rxBuf[k + 1])
  <2>1. /\ reader.at = "copy" /\ mail' = mail /\ taken' = taken /\ got' = got
        /\ reader' = [reader EXCEPT !.words = new]
        /\ k < mail.dataLen /\ k < reader.left
    BY <1>10 DEF CopyWord, WordLeft, ReaderAt
  <2>2. /\ reader.words \in Seq(Nat) /\ k \in Nat /\ reader.left \in Nat
        /\ mail.dataLen \in 0 .. Words /\ k + 1 \in 1 .. Words /\ mail.rxBuf[k + 1] \in Nat
    <3>1. /\ reader.words \in Seq(Nat) /\ reader.left \in Nat
          /\ mail.dataLen \in 0 .. Words /\ mail.rxBuf \in [1 .. Words -> Nat]
      BY <1>2 DEF ReaderSet, MailSet
    <3>2. k \in Nat
      BY <3>1
    <3>3. k + 1 \in 1 .. Words
      BY <2>1, <3>1, <3>2, PortAssumption DEF PortAssumption
    <3> QED BY <3>1, <3>2, <3>3
  <2>3. /\ new \in Seq(Nat) /\ Len(new) = k + 1
        /\ \A w \in 1 .. k + 1 : new[w] = IF w = k + 1 THEN mail.rxBuf[k + 1] ELSE reader.words[w]
    BY <2>2
  <2> HIDE DEF new
  <2>4. /\ reader' \in ReaderSet /\ reader'.at = "copy" /\ reader'.of = reader.of
        /\ reader'.usr = reader.usr /\ reader'.words = new /\ reader'.left = reader.left
    BY <1>2, <2>1, <2>3 DEF ReaderSet
  <2>5. ASSUME crossed = "no"
        PROVE  /\ Last.usr /\ taken = 0 /\ reader.usr = arrived
               /\ Len(new) <= Last.len /\ Len(new) <= reader.left
               /\ \A w \in 1 .. Len(new) : new[w] = arrived
    <3>1. mail.dataLen = Last.len /\ \A w \in 1 .. Last.len : mail.rxBuf[w] = arrived
      BY <1>4, <2>5
    <3>2. /\ Last.usr /\ taken = 0 /\ reader.usr = arrived
          /\ \A w \in 1 .. k : reader.words[w] = arrived
      BY <1>5, <2>1, <2>5
    <3>3. k + 1 <= Last.len /\ k + 1 <= reader.left /\ k + 1 \in 1 .. Last.len
      BY <2>1, <2>2, <3>1, PortAssumption DEF PortAssumption
    <3>4. ASSUME NEW w \in 1 .. k + 1 PROVE new[w] = arrived
      <4>1. CASE w = k + 1
        <5>1. mail.rxBuf[k + 1] = arrived
          BY <3>1, <3>3
        <5>2. new[w] = mail.rxBuf[k + 1]
          BY <2>3, <4>1
        <5> QED BY <5>1, <5>2
      <4>2. CASE w # k + 1
        <5>1. w \in 1 .. k
          BY <2>2, <4>2
        <5>2. new[w] = reader.words[w]
          BY <2>3, <4>2
        <5>3. reader.words[w] = arrived
          BY <3>2, <5>1
        <5> QED BY <5>2, <5>3
      <4> QED BY <4>1, <4>2
    <3> QED BY <2>3, <3>2, <3>3, <3>4
  <2> QED BY <1>8, <2>1, <2>4, <2>5
<1>11. CASE ClearUsr
  <2>1. /\ reader.at = "copy" /\ ~WordLeft /\ Answer(reader.usr, reader.words)
        /\ mail' = [mail EXCEPT !.usrDef = 0]
    BY <1>11 DEF ClearUsr, Cleared, ReaderAt
  <2>2. /\ mail' \in MailSet /\ mail'.usrDef = 0
        /\ UNCHANGED <<mail.rxSem, mail.dataLen, mail.rxBuf>>
    BY <1>2, <2>1 DEF MailSet
  <2>3. taken' # 0
    BY <1>2, <2>1 DEF Answer
  <2>4. /\ reader.usr \in Nat /\ reader.words \in Seq(Nat) /\ reader.left \in Nat
        /\ Len(reader.words) \in Nat
    BY <1>2 DEF ReaderSet
  <2>5. ASSUME crossed = "no" PROVE Expected(arrived, reader.left, taken, reader.usr, reader.words)
    <3> DEFINE n == IF Last.len < reader.left THEN Last.len ELSE reader.left
    <3>1. /\ Last.usr /\ taken = 0 /\ reader.usr = arrived
          /\ Len(reader.words) <= Last.len /\ Len(reader.words) <= reader.left
          /\ \A w \in 1 .. Len(reader.words) : reader.words[w] = arrived
      BY <1>5, <2>1, <2>5
    <3>2. mail.dataLen = Last.len /\ Last.len \in Nat
      BY <1>4, <2>5, PortAssumption DEF Message, PortAssumption
    <3>3. Len(reader.words) = n
      BY <2>1, <2>4, <3>1, <3>2 DEF WordLeft
    <3>4. reader.words = [w \in 1 .. n |-> arrived]
      <4>1. DOMAIN reader.words = 1 .. n /\ reader.words = [w \in DOMAIN reader.words |-> reader.words[w]]
        BY <2>4, <3>3
      <4>2. \A w \in 1 .. n : reader.words[w] = arrived
        BY <3>1, <3>3
      <4> HIDE DEF n
      <4> QED BY <4>1, <4>2
    <3> QED BY <3>1, <3>4 DEF Expected, Last
  <2> QED BY <1>7, <2>1, <2>2, <2>3, <2>4, <2>5
<1> QED BY <1>9, <1>10, <1>11

-----------------------------------------------------------------------------
(* The invariant and the theorems.                                           *)

\* The inductive invariant.  AnswerIsTheMessage is a part of it.
Inv == PortTypes /\ SoloInv /\ ByteInv /\ CountInv /\ MailInv /\ AnswerIsTheMessage

LEMMA InvInit == Init => Inv
<1> SUFFICES ASSUME Init PROVE Inv
  OBVIOUS
<1>1. /\ writer = [c \in Consumers |-> WriterIdle] /\ reader = ReaderIdle /\ got = NoAnswer
      /\ arrived = 0 /\ sent = <<>> /\ posted = 0 /\ taken = 0 /\ crossed = "no"
      /\ port \in {"comm", "iic"} /\ running \subseteq Consumers
      /\ ring = [buf |-> [b \in Slots |-> 0], head |-> 0, tail |-> 0]
      /\ mail = [usrDef |-> 0, rxBuf |-> [w \in 1 .. Words |-> 0], dataLen |-> 0, rxSem |-> 0]
  BY DEF Init, Slots
<1>2. 0 \in Slots /\ 0 \in 0 .. Words /\ N \in Nat /\ N > 1
  BY PortAssumption DEF PortAssumption, Slots
<1>3. TypeOK
  <2>1. ring \in RingSet /\ mail \in MailSet
    BY <1>1, <1>2 DEF RingSet, MailSet
  <2>2. writer \in [Consumers -> WriterSet] /\ reader \in ReaderSet /\ got \in GotSet
    BY <1>1, <1>2, IdleIs DEF ReaderSet, GotSet, ReaderIdle, NoAnswer
  <2>3. sent \in Seq(Message)
    BY <1>1
  <2> QED BY <1>1, <2>1, <2>2, <2>3 DEF TypeOK, RingSet, MailSet, WriterSet, ReaderSet, GotSet, Slots
<1>4. Places
  BY <1>1, IdleIs DEF Places, CommPlaces, IicPlaces, ReaderIdle
<1>8. SoloInv /\ Writer = WriterIdle
  BY <1>1, IdleIs DEF SoloInv, Busy, Writer
<1>5. ByteInv
  BY <1>1, <1>2, <1>8, IdleIs DEF ByteInv, FirstTurn, ReaderIdle, Slots
<1>6. CountInv
  <2>1. Count = 0 /\ got.of = 0 /\ Least(arrived - got.of, N - 1) = 0
    BY <1>1, <1>2 DEF Count, Dist, Least, NoAnswer
  <2> QED BY <1>1, <1>8, <2>1, IdleIs DEF CountInv, ReaderIdle
<1>7. MailInv /\ AnswerIsTheMessage
  BY <1>1, <1>8, IdleIs DEF MailInv, MailHolds, MailReads, AnswerIsTheMessage, ReaderIdle, NoAnswer
<1> QED BY <1>3, <1>4, <1>5, <1>6, <1>7, <1>8 DEF Inv, PortTypes

\* The steps, by port and by thread.
CommStep == \E c \in Consumers : CommHandler(c)

MailStores == \E c \in Consumers : MailHandler(c)

MailStep ==
    \/ MailStores
    \/ TimedOut \/ Down \/ \E max \in 1 .. Words : CallIicRead(max)
    \/ LoadUsr \/ CopyWord \/ ClearUsr

LEMMA NextIs == Next => CommStep \/ SerialStep \/ MailStep
  BY DEF Next, CommStep, SerialStep, MailStep, MailStores

\* What the steps of one kind of port leave to the other.
LEMMA SerialLeavesMail ==
    ASSUME port' = "comm" PROVE MailInv' /\ AnswerIsTheMessage'
  BY DEF MailInv, AnswerIsTheMessage

LEMMA MailLeavesSerial ==
    ASSUME port' = "iic" PROVE ByteInv' /\ CountInv'
  BY DEF ByteInv, CountInv

LEMMA InvStep == Inv /\ [Next]_vars => Inv'
<1> SUFFICES ASSUME Inv, [Next]_vars PROVE Inv'
  OBVIOUS
<1>1. CASE CommStep
  <2>1. PICK c \in Consumers : CommHandler(c)
    BY <1>1 DEF CommStep
  <2>2. MailInv' /\ AnswerIsTheMessage'
    BY <2>1, WriterKeeps, SerialLeavesMail
  <2>3. PortTypes' /\ SoloInv'
    BY <2>1, WriterTypes, WriterSolo DEF Inv
  <2>4. ByteInv' /\ CountInv'
    BY <2>1, WriterBytes, WriterCounts DEF Inv
  <2> QED BY <2>2, <2>3, <2>4 DEF Inv
<1>2. CASE SerialStep
  <2>1. port' = "comm"
    BY <1>2, SerialKeeps
  <2>2. MailInv' /\ AnswerIsTheMessage'
    BY <2>1, SerialLeavesMail
  <2> QED BY <1>2, <2>2, SerialTypes, SerialSolo, SerialBytes, SerialCounts DEF Inv
<1>3. CASE MailStores
  <2>0. PICK c \in Consumers : MailHandler(c)
    BY <1>3 DEF MailStores
  <2>1. port = "iic" /\ UNCHANGED <<port, running, ring, reader, got>>
    BY <2>0, MailWriterKeeps
  <2>2. ByteInv' /\ CountInv'
    BY <2>1, MailLeavesSerial
  <2>3. PortTypes' /\ SoloInv' /\ MailInv'
    <3>1. ASSUME NEW m \in Message, MailArrives(c, m) PROVE PortTypes' /\ SoloInv' /\ MailInv'
      BY <3>1, ArrivesKeeps DEF Inv
    <3>2. CASE StoreWord(c) \/ StoreLen(c) \/ Post(c)
      BY <3>2, StoresKeep DEF Inv
    <3> QED BY <2>0, <3>1, <3>2 DEF MailHandler
  <2>4. \A k \in 1 .. Len(sent) : sent'[k] = sent[k]
    <3>1. CASE UNCHANGED sent
      BY <3>1
    <3>2. ASSUME NEW m \in Message, MailArrives(c, m)
          PROVE  \A k \in 1 .. Len(sent) : sent'[k] = sent[k]
      BY <2>1, <3>2, MailParts DEF MailArrives, Inv
    <3> QED BY <2>0, <3>1, <3>2 DEF MailHandler, StoreWord, StoreLen, Post
  <2>5. AnswerIsTheMessage'
    <3>1. got.clean => got.of \in 1 .. Len(sent)
      BY <2>1 DEF Inv, MailInv, MailReads
    <3> QED BY <2>1, <2>4, <3>1 DEF Inv, AnswerIsTheMessage
  <2> QED BY <2>2, <2>3, <2>5 DEF Inv
<1>4. CASE TimedOut \/ Down \/ \E max \in 1 .. Words : CallIicRead(max)
  <2>1. port' = "iic"
    BY <1>4 DEF TimedOut, Down, CallIicRead, ReaderAt, iicReaderKeeps, iicKeeps
  <2> QED BY <1>4, <2>1, MailLeavesSerial, WaitsKeep DEF Inv
<1>5. CASE LoadUsr \/ CopyWord \/ ClearUsr
  <2>1. port' = "iic"
    BY <1>5 DEF LoadUsr, CopyWord, ClearUsr, ReaderAt, iicReaderKeeps, iicKeeps
  <2> QED BY <1>5, <2>1, MailLeavesSerial, ReadsKeep DEF Inv
<1>6. CASE UNCHANGED vars
  <2>1. UNCHANGED <<port, running, ring, mail, writer, reader, arrived, sent, posted, taken, got, crossed>>
    BY <1>6 DEF vars
  <2>2. PortTypes'
    <3>1. TypeOK'
      BY <2>1 DEF Inv, PortTypes, TypeOK
    <3>2. Places'
      BY <2>1 DEF Inv, PortTypes, Places, CommPlaces, IicPlaces
    <3> QED BY <3>1, <3>2 DEF PortTypes
  <2>7. SoloInv' /\ Writer' = Writer
    BY <2>1, SoloSame DEF Inv
  <2>3. ByteInv'
    <3>1. FirstTurn' <=> FirstTurn
      BY <2>1, <2>7 DEF FirstTurn, Good, Byte
    <3>2. (\A i \in Slots : Good(i))' <=> \A i \in Slots : Good(i)
      BY <2>1, <2>7 DEF Good, Byte
    <3> QED BY <2>1, <2>7, <3>1, <3>2 DEF Inv, ByteInv
  <2>4. CountInv'
    BY <2>1, <2>7 DEF Inv, CountInv, Count
  <2>5. MailInv'
    BY <2>1, <2>7 DEF Inv, MailInv, MailHolds, MailReads, Last
  <2>6. AnswerIsTheMessage'
    BY <2>1 DEF Inv, AnswerIsTheMessage
  <2> QED BY <2>2, <2>3, <2>4, <2>5, <2>6, <2>7 DEF Inv
<1> QED BY <1>1, <1>2, <1>3, <1>4, <1>5, <1>6, NextIs DEF MailStep

LEMMA Invariant == Spec => []Inv
  BY InvInit, InvStep, PTL DEF Spec

\* Ring, mailbox and threads keep their types: no index leaves the ring, however
\* the threads meet, for any length of it.
THEOREM TypeCorrect == Spec => []TypeOK
<1>1. Inv => TypeOK
  BY DEF Inv, PortTypes
<1> QED BY <1>1, Invariant, PTL

\* browSerialRead() finds the bytes that arrived since the last one it gave, or
\* the latest N - 1 of them, oldest first, as long as no read or initialisation met a
\* message and no two consumers stored at once.
THEOREM RingKeepsLatest == Spec => []RingHoldsLatest
<1>1. Inv => RingHoldsLatest
  BY HoldsLatest DEF Inv
<1> QED BY <1>1, Invariant, PTL

\* browIIcRead() answers with the whole of the message that woke it, or with
\* nothing when it had no control word or was taken before, as long as no other
\* message came during the read and no other consumer stored over that one.
THEOREM AnswersAreWhole == Spec => []AnswerIsTheMessage
<1>1. Inv => AnswerIsTheMessage
  BY DEF Inv
<1> QED BY <1>1, Invariant, PTL

\* browSerialRead() never gives a byte that was not stored, or one of an earlier
\* turn of the ring, but for the three interleavings that spoil the ring: two consumers
\* that store at once, an initialisation during a message, a reader that empties
\* the ring between a consumer's store of the tail and its test.
THEOREM BytesAreRecent == Spec => ByteIsRecent
<1> DEFINE Step == reader.at = "take" /\ reader'.at = "next" /\ crossed # "spoilt" =>
                      got'.of > 0 /\ got'.of + N > arrived
<1>1. Inv /\ [Next]_vars => [Step]_vars
  <2> SUFFICES ASSUME Inv, Next, reader.at = "take", reader'.at = "next", crossed # "spoilt"
               PROVE  got'.of > 0 /\ got'.of + N > arrived
    OBVIOUS
  <2>1. port = "comm"
    BY DEF Inv, PortTypes, TypeOK, Places, IicPlaces
  <2>2. SerialStep
    <3>1. ~MailStep
      BY <2>1 DEF MailStep, MailStores, MailHandler, MailArrives, StoreWord, StoreLen, Post,
                  TimedOut, Down, CallIicRead, LoadUsr, CopyWord, ClearUsr, WriterAt, ReaderAt
    <3>2. ~CommStep
      BY WriterKeeps DEF CommStep
    <3> QED BY <3>1, <3>2, NextIs
  <2>3. TakeByte /\ crossed' # "spoilt"
    <3>1. TakeByte
      BY <2>1, <2>2, Sets DEF SerialStep, CallSerialRead, LoadHead, TestEmpty, LoadAgain, NextHead,
         ResetHead, ResetTail, ReaderAt, ReaderIdle, ReaderSet, Inv, PortTypes
    <3> QED BY <3>1 DEF TakeByte
  <2>4. /\ got'.of = ring.buf[reader.head] /\ reader.head \in Slots /\ ring.tail \in Slots
        /\ arrived \in Nat /\ N \in Nat /\ N > 1 /\ ring.head \in Slots
    BY <2>1, <2>2, <2>3, SerialDoes, CommParts DEF Inv
  <2>5. Good(reader.head)
    BY <2>1, <2>4 DEF Inv, ByteInv, FirstTurn
  <2>6. Dist(reader.head, ring.tail) \in 0 .. N - 1
    BY <2>4, DistIs
  <2> QED BY <2>4, <2>5, <2>6, DistIs DEF Good, Byte
<1> QED BY <1>1, Invariant, PTL DEF Spec, ByteIsRecent
=============================================================================
