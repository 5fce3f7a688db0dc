\* Two streams, whose changes of the count may overlap: every one of the hazards
\* needs at most two.
CONSTANTS
    Streams = {s1, s2}
    Sessions <- MCSessions
    SpuriousWakeups = TRUE
SPECIFICATION Spec
\* The process exits with its last stream, or crashes.
CHECK_DEADLOCK FALSE
SYMMETRY StreamSymmetry
INVARIANTS
    CountsStreamsInUse
    ExitsWithLastStream
    NoCallbackAfterClose
    PlayingStreamCanEnd
    WokenFindsItsCodec
