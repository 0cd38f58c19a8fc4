\* fds_bound: one program that seeks in a file and reads it.
CONSTANTS
    Task = {boot}
    Boot = boot
    NULL = NULL
    Len = 2
    MaxIO = 1
    Size = 2
    Wrap = 4
    MaxOpens = 1
    Lendable = {}
    BootCalls = {"open", "seek", "transfer"}
    TaskCalls = {}
SPECIFICATION Spec
INVARIANTS
    ReadsInFile
CHECK_DEADLOCK FALSE
