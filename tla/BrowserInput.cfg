\* A ring of one word, which every message fills once: three messages overrun it
\* twice.  A mailbox of two words; three messages, so that one comes while an
\* earlier one is unread, is being stored or is being read, and one after.  Two
\* consumers can meet; more of them meet two by two.
CONSTANTS
    N = 4
    Words = 2
    Consumers = {c1, c2}
    MaxMessages = 3
SYMMETRY MCSymmetry
CONSTRAINT MCBound
SPECIFICATION Spec
INVARIANTS
    RingHoldsLatest
    AnswerIsTheMessage
PROPERTY
    ByteIsRecent
