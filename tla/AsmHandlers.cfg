\* A table of two entries and three blocks: a message with two threads and the
\* video, asked for by the application and by a receiver, while a removed thread
\* may still linger.
SPECIFICATION HandlersSpec
CONSTANTS
    MAX_HDL = 2
    Params = {p1, p2, p3}
    NoParam = none
    x = x
    Avrx = avrx
    AsmIds = {x}
    Copies <- MCCopies
    App = app
    Receivers = {r1}
INVARIANTS
    ServingThreadsAreListed
    OneLateCallback
PROPERTIES
    RemovalHitsItsOwn
    LateThreadsEnd
