SPECIFICATION FairSpoolSpec
CONSTANTS
    MaxSegments = 5
    MaxCorruptSegments = 2
    MaxTears = 1
INVARIANTS
    SpoolSound
PROPERTIES
    SpoolDrains
CHECK_DEADLOCK FALSE
