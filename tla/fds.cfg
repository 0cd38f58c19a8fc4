\* fds: the workload ends when every task waits or has died.
CONSTANTS
    Task = {boot, p, q}
    Boot = boot
    NULL = NULL
    Len = 2
    MaxIO = 2
    Size = 1
    Wrap = 3
    MaxOpens = 3
    Lendable = {0}
    BootCalls = {"open", "exec", "give", "signal", "wait", "transfer", "seek", "misuse"}
    TaskCalls = {"open", "close", "exec", "give", "uwait", "exit"}
SPECIFICATION Spec
SYMMETRY Interchangeable
INVARIANTS
    OpenRight
    OneOwner
PROPERTIES
    NoStreamLost
CHECK_DEADLOCK FALSE
