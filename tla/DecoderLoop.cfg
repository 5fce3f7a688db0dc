\* One source, opened once, with every error of the source and of the codec.
CONSTANTS
    Packets = 5
    Delays = {0, 3, 5}
    MaxOpens = 1
    MayFail = TRUE
SPECIFICATION Spec
\* A decoder that crashed or was closed does nothing more.
CHECK_DEADLOCK FALSE
INVARIANTS
    OldFrameOnlyAtAnEnd
PROPERTIES
    FramesInOrder
    GetFrameReturns
