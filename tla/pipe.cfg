\* pipe: the workload ends when the writers have written MaxBytes.
CONSTANTS
    Writers = {w1, w2}
    Readers = {r1}
    NULL = NULL
    ChunkSize = 2
    MaxLen = 2
    MaxBytes = 3
SPECIFICATION FairSpec
INVARIANTS
    ChunksFull
PROPERTIES
    ImplementsQueue
    WriteReturns
    ReaderPoked
CHECK_DEADLOCK FALSE
