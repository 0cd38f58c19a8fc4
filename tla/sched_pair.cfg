\* sched_pair
CONSTANTS
    Task = {boot, p}
    Boot = boot
    NULL = NULL
    Irq = {}
    MaxDelay = 3
    SliceTicks = 2
    BootCalls = {"sleep", "spawn", "wfpoke", "poke", "unblock"}
    TaskCalls = {"sleep", "exec", "exit", "wfpoke", "poke"}
    MaxCount = 1
SPECIFICATION IpcFairSpec
INVARIANTS
    WokenListed
    SleepersListed
    NoFreedTask
    PokeFindsWaiter
PROPERTIES
    DeadStayDead
    SleeperRuns
