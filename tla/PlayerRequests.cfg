\* Options that give the size of the window, as in the example program, and
\* options that leave it, or one side of it, to the video.
CONSTANTS
    Fields = {place, size}
    Extent = {size}
    Grid = 2
    CropRequests <- MCCropRequests
    OwnRects <- MCOwnRects
    MaxSizes = 2
SPECIFICATION Spec
INVARIANTS
    LastSizeIsApplied
    LastOnTopIsApplied
PROPERTIES
    CropIsRequested
