---------------------------- MODULE BrowserInput ----------------------------
(***************************************************************************)
(* What a remote browser's ports send to the application                   *)
(* (src/libfcav/ulib.c).  A message is handled on an asm_hdl_consumer      *)
(* thread, of which every registration of a handler starts one more, all   *)
(* on one queue of messages: two of them can handle messages of the same   *)
(* port at once.  They store in memory that the application's thread       *)
(* reads, with no lock between any of them: a ring of bytes for a serial   *)
(* port (recBrowCommMsg, browSerialInit, browSerialRead), a mailbox of one *)
(* message with a semaphore for an IIC port (recBrowIIcMsg, browIIcRead).  *)
(* The two kinds of port share nothing: a behaviour is that of one port,   *)
(* of either kind.  Each store to what the threads share is a step.        *)
(*                                                                         *)
(* Definitions introduced by "Mutant" are faulty variants of the one below *)
(* them, kept to show that the properties notice.                          *)
(***************************************************************************)
EXTENDS Naturals, Sequences

CONSTANTS N,            \* bytes of the ring: 512 in the code
          Words,        \* words of the mailbox: 64 in the code
          Consumers,    \* threads that may come to handle messages
          MaxMessages   \* bound: messages that arrive

ASSUME PortAssumption ==
    /\ N \in Nat /\ N > 1
    /\ Words \in Nat \ {0}
    /\ MaxMessages \in Nat

VARIABLES port,     \* "comm" or "iic"
          running,  \* the consumers that were started
          ring,     \* the serial port's bytes and their two indices
          mail,     \* the IIC port's message and its semaphore
          writer,   \* each consumer: where it is, what it has left to store, or
                    \* stored, the indices it loaded, the message it stores
          reader,   \* the application's thread: where it is, what it may
                    \* still read and has loaded, the message it was woken for
          arrived,  \* history: bytes stored in the ring, messages begun
          sent,     \* history: the messages for the mailbox
          posted,   \* history: the one posted last
          taken,    \* history: reads that ended since the last of them began
          got,      \* history: last byte read from the ring, last answer of
                    \* the mailbox
          crossed   \* history: whether a read met a message being stored (of
                    \* the mailbox: the last read), or something worse did

vars == <<port, running, ring, mail, writer, reader, arrived, sent, posted, taken, got, crossed>>

Message == [usr : BOOLEAN, len : 0 .. Words]
WriterIdle == [at |-> "idle", i |-> 0, head |-> 0, tail |-> 0, of |-> 0]
ReaderIdle == [at |-> "idle", left |-> 0, head |-> 0, of |-> 0, usr |-> 0, words |-> <<>>]
NoAnswer == [clean |-> FALSE, of |-> 0, usr |-> 0, words |-> <<>>, before |-> 0, max |-> 0]

TypeOK ==
    /\ port \in {"comm", "iic"} /\ running \subseteq Consumers
    /\ ring \in [buf : [0 .. N - 1 -> Nat], head : 0 .. N - 1, tail : 0 .. N - 1]
    /\ mail \in [usrDef : Nat, rxBuf : [1 .. Words -> Nat], dataLen : 0 .. Words, rxSem : Nat]
    /\ writer \in [Consumers -> [at : {"idle", "store", "tail", "test", "push", "words", "post"},
                                 i : Nat, head : 0 .. N - 1, tail : 0 .. N - 1, of : Nat]]
    /\ reader \in [at : {"idle", "head", "empty", "take", "next", "reset",
                         "wait", "usr", "copy"},
                   left : Nat, head : 0 .. N - 1, of : Nat, usr : Nat, words : Seq(Nat)]
    /\ arrived \in Nat /\ posted \in Nat /\ taken \in Nat
    /\ sent \in Seq(Message)
    /\ got \in [clean : BOOLEAN, of : Nat, usr : Nat, words : Seq(Nat), before : Nat, max : Nat]
    /\ crossed \in {"no", "read", "spoilt"}

\* The port was initialised, which has started a consumer; so has every other
\* handler that was registered.
Init ==
    /\ port \in {"comm", "iic"}
    /\ running \in SUBSET Consumers \ {{}}
    /\ ring = [buf |-> [b \in 0 .. N - 1 |-> 0], head |-> 0, tail |-> 0]
    /\ mail = [usrDef |-> 0, rxBuf |-> [w \in 1 .. Words |-> 0], dataLen |-> 0, rxSem |-> 0]
    /\ writer = [c \in Consumers |-> WriterIdle] /\ reader = ReaderIdle
    /\ arrived = 0 /\ sent = <<>> /\ posted = 0 /\ taken = 0
    /\ got = NoAnswer /\ crossed = "no"

WriterAt(p, c, at) == port = p /\ c \in running /\ writer[c].at = at
ReaderAt(p, at) == port = p /\ reader.at = at

\* The consumers that are storing a message, and a step of one of them.
Busy == {c \in Consumers : writer[c].at # "idle"}
Moves(c, w) == writer' = [writer EXCEPT ![c] = w]

commKeeps == <<port, mail, sent, posted, taken>>
commWriterKeeps == <<commKeeps, running, reader, got>>
commReaderKeeps == <<commKeeps, writer, arrived>>
iicKeeps == <<port, running, ring>>
iicWriterKeeps == <<iicKeeps, reader, got>>
iicReaderKeeps == <<iicKeeps, writer, arrived, sent, posted>>

\* The reader is, or begins to be, at work on the ring while a consumer is.
Met(reading, storing) ==
    crossed' = IF ~storing \/ reading = "idle" \/ crossed = "spoilt" THEN crossed
               ELSE IF reading = "reset" THEN "spoilt" ELSE "read"

After(b) == (b + 1) % N

-----------------------------------------------------------------------------
(* recBrowCommMsg(): a message is as many bytes as the ring has, whatever    *)
(* its length.  A byte is named by its turn among all that were copied; the  *)
(* last byte of a word is copied first.                                      *)

CommArrives(c) ==
    /\ WriterAt("comm", c, "idle")
    /\ arrived < N * MaxMessages
    /\ Moves(c, [WriterIdle EXCEPT !.at = "store", !.i = N])
    /\ IF Busy = {} THEN Met(reader.at, TRUE) ELSE crossed' = "spoilt"
    /\ UNCHANGED <<commWriterKeeps, ring, arrived>>

StoreByte(c) ==
    /\ WriterAt("comm", c, "store")
    /\ arrived' = arrived + 1
    /\ ring' = [ring EXCEPT !.buf[ring.tail] = arrived']
    /\ Moves(c, [writer[c] EXCEPT !.at = "tail", !.tail = ring.tail])
    /\ UNCHANGED <<commWriterKeeps, crossed>>

\* A tail that another consumer has stored since is lost.
StoreTail(c) ==
    /\ WriterAt("comm", c, "tail")
    /\ ring' = [ring EXCEPT !.tail = After(writer[c].tail)]
    /\ Moves(c, [writer[c] EXCEPT !.at = "test"])
    /\ UNCHANGED <<commWriterKeeps, arrived, crossed>>

\* Mutant: a full ring is left as it is, and looks empty.
MutantFull == FALSE

\* A ring that has become full would look empty: its oldest byte is given up.
Full == ring.tail = ring.head

NextByte(c) ==
    Moves(c, IF writer[c].i = 1 THEN WriterIdle
             ELSE [WriterIdle EXCEPT !.at = "store", !.i = writer[c].i - 1])

TestFull(c) ==
    /\ WriterAt("comm", c, "test")
    /\ \/ Full /\ Moves(c, [writer[c] EXCEPT !.at = "push", !.head = ring.head])
       \/ ~Full /\ NextByte(c)
    /\ UNCHANGED <<commWriterKeeps, ring, arrived, crossed>>

\* The build may load the head once more for the store.
LoadPushed(c) ==
    /\ WriterAt("comm", c, "push")
    /\ Moves(c, [writer[c] EXCEPT !.head = ring.head])
    /\ UNCHANGED <<commWriterKeeps, ring, arrived, crossed>>

PushHead(c) ==
    /\ WriterAt("comm", c, "push")
    /\ ring' = [ring EXCEPT !.head = After(writer[c].head)]
    /\ NextByte(c)
    /\ UNCHANGED <<commWriterKeeps, arrived, crossed>>

-----------------------------------------------------------------------------
(* browSerialRead(), and browSerialInit() of a port that has a ring already  *)

CallSerialRead(max) ==
    /\ ReaderAt("comm", "idle")
    /\ reader' = [reader EXCEPT !.at = "head", !.left = max]
    /\ Met("head", Busy # {})
    /\ UNCHANGED <<commReaderKeeps, running, ring, got>>

LoadHead ==
    /\ ReaderAt("comm", "head")
    /\ reader' = [reader EXCEPT !.at = "empty", !.head = ring.head]
    /\ UNCHANGED <<commReaderKeeps, running, ring, got, crossed>>

\* Mutant: only the room in the caller's buffer is tested.
MutantEmpty == FALSE
Empty == reader.head = ring.tail

TestEmpty ==
    /\ ReaderAt("comm", "empty")
    /\ reader' = IF Empty THEN ReaderIdle ELSE [reader EXCEPT !.at = "take"]
    /\ UNCHANGED <<commReaderKeeps, running, ring, got, crossed>>

\* The head is loaded again for the byte, and again for the store of the next
\* one, if the build does not keep it.
LoadAgain ==
    /\ port = "comm" /\ reader.at \in {"take", "next"}
    /\ reader' = [reader EXCEPT !.head = ring.head]
    /\ UNCHANGED <<commReaderKeeps, running, ring, got, crossed>>

TakeByte ==
    /\ ReaderAt("comm", "take")
    /\ got' = [got EXCEPT !.of = ring.buf[reader.head]]
    /\ reader' = [reader EXCEPT !.at = "next"]
    /\ UNCHANGED <<commReaderKeeps, running, ring, crossed>>

\* A reader that empties the ring just before a consumer looks whether it is
\* full makes it look full.
NextHead ==
    /\ ReaderAt("comm", "next")
    /\ ring' = [ring EXCEPT !.head = After(reader.head)]
    /\ reader' = IF reader.left = 1 THEN ReaderIdle
                 ELSE [reader EXCEPT !.at = "head", !.left = @ - 1]
    /\ crossed' = IF (\E c \in Busy : writer[c].at = "test") /\ ring'.head = ring.tail
                  THEN "spoilt" ELSE crossed
    /\ UNCHANGED <<commReaderKeeps, running, got>>

\* browSerialInit() empties the ring by its two indices, one after the other, and
\* registers the handler again: one more consumer, if the thread can be created.
ResetHead ==
    /\ ReaderAt("comm", "idle")
    /\ ring' = [ring EXCEPT !.head = 0]
    /\ reader' = [reader EXCEPT !.at = "reset"]
    /\ Met("reset", Busy # {})
    /\ UNCHANGED <<commReaderKeeps, running, got>>

ResetTail ==
    /\ ReaderAt("comm", "reset")
    /\ ring' = [ring EXCEPT !.tail = 0]
    /\ reader' = ReaderIdle
    /\ got' = [got EXCEPT !.of = arrived]
    /\ running' \in {running} \cup {running \cup {c} : c \in Consumers}
    /\ UNCHANGED <<commReaderKeeps, crossed>>

-----------------------------------------------------------------------------
(* recBrowIIcMsg(): the words of message k are k each, its control word is k *)
(* or zero.                                                                  *)

MailArrives(c, m) ==
    /\ WriterAt("iic", c, "idle")
    /\ arrived < MaxMessages
    /\ arrived' = arrived + 1
    /\ sent' = Append(sent, m)
    /\ mail' = [mail EXCEPT !.usrDef = IF m.usr THEN arrived' ELSE 0]
    /\ Moves(c, [WriterIdle EXCEPT !.at = "words", !.of = arrived'])
    /\ crossed' = IF Busy # {} THEN "spoilt"
                  ELSE IF reader.at \in {"usr", "copy"} THEN "read" ELSE "no"
    /\ taken' = 0
    /\ UNCHANGED <<iicWriterKeeps, posted>>

Stored(c) == sent[writer[c].of]

StoreWord(c) ==
    /\ WriterAt("iic", c, "words")
    /\ writer[c].i < Stored(c).len
    /\ Moves(c, [writer[c] EXCEPT !.i = @ + 1])
    /\ mail' = [mail EXCEPT !.rxBuf[writer[c].i + 1] = writer[c].of]
    /\ UNCHANGED <<iicWriterKeeps, arrived, sent, posted, taken, crossed>>

StoreLen(c) ==
    /\ WriterAt("iic", c, "words")
    /\ writer[c].i = Stored(c).len
    /\ mail' = [mail EXCEPT !.dataLen = writer[c].i]
    /\ Moves(c, [writer[c] EXCEPT !.at = "post"])
    /\ UNCHANGED <<iicWriterKeeps, arrived, sent, posted, taken, crossed>>

Post(c) ==
    /\ WriterAt("iic", c, "post")
    /\ mail' = [mail EXCEPT !.rxSem = @ + 1]
    /\ posted' = writer[c].of
    /\ Moves(c, WriterIdle)
    /\ UNCHANGED <<iicWriterKeeps, arrived, sent, taken, crossed>>

-----------------------------------------------------------------------------
(* browIIcRead(), for at most so many words                                  *)

CallIicRead(max) ==
    /\ ReaderAt("iic", "idle")
    /\ reader' = [reader EXCEPT !.at = "wait", !.left = max]
    /\ UNCHANGED <<iicReaderKeeps, mail, taken, got, crossed>>

\* sem_timedwait() gives up, which the caller cannot tell from ...
TimedOut ==
    /\ ReaderAt("iic", "wait")
    /\ mail.rxSem = 0
    /\ reader' = ReaderIdle
    /\ UNCHANGED <<iicReaderKeeps, mail, taken, got, crossed>>

Down ==
    /\ ReaderAt("iic", "wait")
    /\ mail.rxSem > 0
    /\ mail' = [mail EXCEPT !.rxSem = @ - 1]
    /\ reader' = [reader EXCEPT !.at = "usr", !.of = posted]
    /\ crossed' = IF crossed = "spoilt" THEN "spoilt" ELSE IF Busy # {} THEN "read" ELSE "no"
    /\ UNCHANGED <<iicReaderKeeps, taken, got>>

Answer(usr, words) ==
    /\ reader' = ReaderIdle
    /\ got' = [clean |-> crossed = "no", of |-> reader.of, usr |-> usr, words |-> words,
               before |-> taken, max |-> reader.left]
    /\ taken' = taken + 1

\* ... a message without a control word.
LoadUsr ==
    /\ ReaderAt("iic", "usr")
    /\ \/ mail.usrDef = 0 /\ Answer(0, <<>>)
       \/ /\ mail.usrDef # 0
          /\ reader' = [reader EXCEPT !.at = "copy", !.usr = mail.usrDef]
          /\ UNCHANGED <<taken, got>>
    /\ UNCHANGED <<iicReaderKeeps, mail, crossed>>

WordLeft ==
    /\ Len(reader.words) < mail.dataLen
    /\ Len(reader.words) < reader.left

CopyWord ==
    /\ ReaderAt("iic", "copy")
    /\ WordLeft
    /\ reader' = [reader EXCEPT !.words = Append(@, mail.rxBuf[Len(@) + 1])]
    /\ UNCHANGED <<iicReaderKeeps, mail, taken, got, crossed>>

\* Mutant: the message stays in the mailbox.
MutantCleared == mail.usrDef
Cleared == 0

ClearUsr ==
    /\ ReaderAt("iic", "copy")
    /\ ~WordLeft
    /\ mail' = [mail EXCEPT !.usrDef = Cleared]
    /\ Answer(reader.usr, reader.words)
    /\ UNCHANGED <<iicReaderKeeps, crossed>>

-----------------------------------------------------------------------------
CommHandler(c) ==
    CommArrives(c) \/ StoreByte(c) \/ StoreTail(c) \/ TestFull(c) \/ LoadPushed(c) \/ PushHead(c)

MailHandler(c) ==
    (\E m \in Message : MailArrives(c, m)) \/ StoreWord(c) \/ StoreLen(c) \/ Post(c)

Next ==
    \/ \E c \in Consumers : CommHandler(c) \/ MailHandler(c)
    \/ \E max \in 1 .. N : CallSerialRead(max)
    \/ LoadHead \/ TestEmpty \/ LoadAgain \/ TakeByte \/ NextHead \/ ResetHead \/ ResetTail
    \/ \E max \in 1 .. Words : CallIicRead(max)
    \/ TimedOut \/ Down \/ LoadUsr \/ CopyWord \/ ClearUsr

Spec == Init /\ [][Next]_vars

-----------------------------------------------------------------------------
(* What the ports promise                                                    *)

\* The bytes of the ring that were not read, oldest first.
Unread == [k \in 1 .. (ring.tail + N - ring.head) % N |->
              ring.buf[(ring.head + k - 1) % N]]

\* As long as no message was being stored when another one, a read or an
\* initialisation began, nor began during one of these, the ring holds the bytes
\* that arrived since the last one read, or the latest N - 1 of them: a reader
\* that is late loses the oldest, and nothing else.
RingHoldsLatest ==
    port = "comm" /\ crossed = "no" /\ Busy = {} /\ reader.at = "idle" =>
        LET lost == IF arrived - got.of >= N THEN arrived - N + 1 ELSE got.of
        IN  Unread = [k \in 1 .. arrived - lost |-> lost + k]

\* However reads meet the messages, a byte that is read is one of the latest N
\* that arrived, not one of an earlier turn of the ring, nor one never stored.
\* Three things bring those back: two consumers that store messages of the port
\* at once, an initialisation while a message is stored, and a reader that takes
\* the last byte between a consumer's store of the tail and its test, which then
\* gives up a byte of the empty ring.
ByteIsRecent ==
    [][reader.at = "take" /\ reader'.at = "next" /\ crossed # "spoilt" =>
          got'.of > 0 /\ got'.of + N > arrived]_vars

\* A read of the mailbox that no other message met, of a message that no other
\* consumer stored over, is answered with the whole of the message that woke it,
\* or with nothing when that message had no control word or a read has ended
\* since it began, which has taken it.
AnswerIsTheMessage ==
    port = "iic" /\ got.clean =>
        LET m == sent[got.of]
            n == IF m.len < got.max THEN m.len ELSE got.max
        IN  IF m.usr /\ got.before = 0
            THEN got.usr = got.of /\ got.words = [w \in 1 .. n |-> got.of]
            ELSE got.usr = 0 /\ got.words = <<>>

=============================================================================
