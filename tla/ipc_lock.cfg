\* ipc_lock
CONSTANTS
    Task = {boot, p, q}
    Boot = boot
    NULL = NULL
    Irq = {serial}
    MaxDelay = 1
    SliceTicks = 2
    BootCalls = {"lock", "sleep", "spawn", "wait"}
    TaskCalls = {"lock", "irq", "syscall"}
    MaxCount = 1
SPECIFICATION IpcSpec
SYMMETRY Interchangeable
INVARIANTS
    MutualExclusion
    PlacesAccounted
    WaiterReleased
