\* Two pictures of one or two rows, so up to two receivers; two stops.  A process
\* that died, or a receiver that ended, stops.
CONSTANTS
    Sizes = {1, 2}
    MaxAdds = 2
    MaxStops = 2
SPECIFICATION Spec
INVARIANTS
    CopiesWhatIsMapped
    BufferIsOwn
    PicturesFit
PROPERTIES
    StopTakesEffect
CHECK_DEADLOCK FALSE
