\* fs_open: the workload ends when every task has made MaxOpens calls.
CONSTANTS
    Task = {t1, t2}
    NULL = NULL
    Inode <- SmallInode
    Root = 0
    Name <- SmallName
    Entries <- SmallEntries
    Length <- SmallLength
    Straddling <- SmallStraddling
    Data <- SmallData
    Paths <- SmallPaths
    Contents <- SmallContents
    MaxOpens = 1
    MaxBlocks = 16
SPECIFICATION FairSpec
INVARIANTS
    OneTransfer
    BlocksAlive
    StreamsRight
PROPERTIES
    WalkEnds
CHECK_DEADLOCK FALSE
