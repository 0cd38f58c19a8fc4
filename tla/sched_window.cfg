\* sched_window
CONSTANTS
    Task = {boot, p}
    Boot = boot
    NULL = NULL
    Irq = {floppy}
    MaxDelay = 1
    SliceTicks = 2
    BootCalls = {"irq", "sleep", "spawn"}
    TaskCalls = {"irq", "sleep"}
SPECIFICATION Spec
SYMMETRY Interchangeable
INVARIANTS
    WokenWereBlocked
