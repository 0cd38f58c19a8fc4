\* floppy: sectors on both sides of a track boundary; the machine stops in the end of
\* an ERROR, or of a key during the boot.
CONSTANTS
    PerTrack = 2
    Cylinders = 2
    Base = 1
    Lbas = {0, 1}
    MaxPolls = 2
    MaxWrites = 1
SPECIFICATION FairSpec
INVARIANTS
    InStep
    SectorsRight
    EOIOwed
PROPERTIES
    CallReturns
CHECK_DEADLOCK FALSE
