\* sched_open
CONSTANTS
    Task = {boot, p, q}
    Boot = boot
    NULL = NULL
    Irq = {floppy}
    MaxDelay = 1
    SliceTicks = 2
    BootCalls = {"sleep", "spawn", "uwait"}
    TaskCalls = {"irq", "sleep", "spawn", "exec", "exit", "syscall", "uwait"}
SPECIFICATION Spec
SYMMETRY Interchangeable
INVARIANTS
    TypeOK
    OneRunner
    UnlocksBalance
    ScheduleUninterrupted
    PostponeBalanced
    InterruptNotMissed
    MotherHasChild
