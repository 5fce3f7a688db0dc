\* Two registered handlers, hence two consumers on one ring of four slots,
\* filled by two wait_io threads and lapped twice.
CONSTANTS
    ASM_UQ_CNT = 4
    Providers = {p1, p2}
    Consumers = {c1, c2}
    MaxMessages = 10
SPECIFICATION Spec
INVARIANTS
    HandledSlotIsStable
    OneHandlerPerMessage
PROPERTIES
    EveryMessageIsTaken
    ImplementsMessageFifo
