\* Pools of 3 and 5 surfaces, with every failure of the driver and of the
\* allocator in three attempts to set one up.
CONSTANTS
    Sizes = {3, 5}
    MaxAttempts = 3
    AllocMayFail = TRUE

SPECIFICATION Spec

INVARIANTS
    OnePlaceEach
    HandsOutLiveIds
    LeaksOnlyOverwrittenSurfaces

PROPERTY ImplementsFreeList

\* A freed decoder does nothing more.
CHECK_DEADLOCK FALSE
