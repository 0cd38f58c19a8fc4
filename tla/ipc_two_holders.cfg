\* ipc_two_holders
CONSTANTS
    Task = {boot, p, q, r}
    Boot = boot
    NULL = NULL
    Irq = {}
    MaxDelay = 1
    SliceTicks = 2
    BootCalls = {"lock", "spawn"}
    TaskCalls = {"lock", "syscall"}
    MaxCount = 1
SPECIFICATION IpcSpec
SYMMETRY Interchangeable
INVARIANTS
    MutualExclusion
