\* Two surfaces, two formats and one the renderer cannot import, two window
\* sizes; two contexts, so that a size can fail and then be set, or be set twice;
\* two images.  A finalised renderer stops.
CONSTANTS
    Surfaces = {s1, s2}
    Formats = {"NV12", "RGBA", "other"}
    Sizes = {1, 2}
    MaxContexts = 2
    MaxLoads = 2
    None = None
SYMMETRY Symmetry
SPECIFICATION Spec
INVARIANTS
    DrawsItsSurface
    NothingHeldBetweenFrames
    FirstSizeIsWhole
    ListIsReadStored
PROPERTIES
    DrawnWithItsProgram
CHECK_DEADLOCK FALSE
