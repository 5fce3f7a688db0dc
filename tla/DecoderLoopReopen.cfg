\* The comment on closing "the previous file" against a second file.
CONSTANTS
    Packets = 4
    Delays = {2}
    MaxOpens = 2
    MayFail = TRUE
SPECIFICATION SafetySpec
CHECK_DEADLOCK FALSE
INVARIANT StreamOfThisFile
