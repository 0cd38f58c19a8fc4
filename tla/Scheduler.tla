------------------------------ MODULE Scheduler ------------------------------
(***************************************************************************)
(* The scheduler of proc.c and asmbridge.S on its single processor: the    *)
(* task control blocks, the two lock counters, the intrusive lists that    *)
(* all run through the one field TCB.next, block_task / unblock_task, the  *)
(* timer and device interrupts, schedule() with reaping, burial and the    *)
(* idle loop, the context switch, sleeping, waiting for interrupts, and    *)
(* the life of a task from ckprocA to free.                                *)
(*                                                                         *)
(* Code that runs with interrupts off is one step, except where it loops   *)
(* over a list: a loop is one step per element.  Everywhere the hardware   *)
(* interrupt flag may be set there is a step boundary, because a timer or  *)
(* device interrupt can be taken there.                                    *)
(***************************************************************************)
EXTENDS Integers, FiniteSets

CONSTANTS
    Task,        \* the addresses a thread_control_block can have
    Boot,        \* the TCB made by initialize_multitasking
    NULL,
    Irq,         \* the device interrupt lines in use (1, 4, 6 and 12 in the code)
    MaxDelay,    \* bound: the longest sleep or timeout, in timer ticks
    SliceTicks,  \* a full time slice, in timer ticks (5 in the code)
    BootCalls,   \* the kernel services the boot task calls
    TaskCalls    \* the kernel services the tasks made by ckprocA call

ASSUME TaskAssumption ==
    /\ IsFiniteSet(Task)
    /\ Boot \in Task
    /\ NULL \notin Task

ASSUME BoundAssumption ==
    /\ MaxDelay \in Nat
    /\ SliceTicks \in Nat \ {0}

\* start_init_task ends in ERROR(ERR_DEADCODE): the boot task never exits, and
\* it does not use int 0x80.
ASSUME CallAssumption == BootCalls \cap {"exit", "syscall"} = {}

VARIABLES
    \* thread_control_block, field by field.  ttn is kept as the number of
    \* ticks left (ttn - TIME), NoTimeout standing for an absent deadline.
    state, next, ttn, irqFor, parent, children,
    timeoutFn,    \* timeout_function # NULL
    live,         \* the TCBs that are allocated
    pc,           \* where the task's own code is
    made,         \* ckprocA's M: the task being made, not yet linked
    frame,        \* the lock frame the task has to unwind when schedule() returns
    \* the globals of proc.c
    current, first, last, dead, sleeping, irqwaiting, irqscalled, slice,
    irqcount,     \* IRQ_disable_counter
    postpone,     \* postpone_task_switches_counter
    flag,         \* task_switches_postponed_flag
    \* the processor
    ints,         \* the interrupt flag IF of RFLAGS
    cpu,          \* the kernel code being executed
    walk,         \* next_task of the list loop being executed
    serving,      \* the argument of unblockirq
    woke,         \* haveweunblocked
    idler,        \* schedule()'s local "task" while it idles
    fault         \* the ERROR() or FAULT() that stopped the machine

tcbVars    == <<ttn, irqFor, timeoutFn, made>>
familyVars == <<parent, children, live>>
readyVars  == <<state, next, first, last>>
waitVars   == <<sleeping, irqwaiting, irqscalled>>
lockVars   == <<irqcount, postpone, flag, ints>>
walkVars   == <<walk, serving, woke>>
runVars    == <<current, cpu, idler, slice, dead, pc, frame>>
vars == <<tcbVars, familyVars, readyVars, waitVars, lockVars, walkVars, runVars, fault>>

States == {"RUNNING", "READY", "WAITING", "DEAD", "PAUSED", "WAITING_FOR_IRQ",
           "WAITING_FOR_LOCK", "WAITING_FOR_POKE", "WAITING_FOR_DEATH", "BURIED"}

NoTimeout == -1

TaskOrNull == Task \cup {NULL}

(***************************************************************************)
(* The kernel code being executed: a task's own code, the two list walks   *)
(* of PIT_IRQ_handler, the walk of unblockirq, the unlock_stuff at the end *)
(* of either handler, schedule() up to and after reap(), the idle loop.    *)
(***************************************************************************)
Places == {"task", "pitSleep", "pitIrq", "unblockirq", "unlock",
           "schedule", "dispatch", "idle"}

\* Handlers run between lock_stuff and the end of unlock_stuff.
HandlerPlaces == {"pitSleep", "pitIrq", "unblockirq", "unlock"}

\* Where a task's own code can be when an interrupt is taken: anywhere outside
\* the locked regions, between the unlock_stuff and the block_task of a wait,
\* or between the test and the two stores of ckprocA's list insertion.
Labels == {"run", "sleepBlock", "irqBlock", "lockBlock", "pokeBlock",
           "linkFirst", "linkLast", "linked", "timedOut", "exec", "exited"}

\* The frames below a call of schedule(): none for a new task or PROC_EXIT,
\* one unlock for block_task and unlock_stuff, two for uwait, one unlock and
\* an iretq for an interrupt handler.
Frames == {"none", "block", "wait", "irq"}

\* How often IRQ_disable_counter is decremented while a frame is unwound.
Pending(f) == CASE f = "none" -> 0 [] f = "wait" -> 2 [] OTHER -> 1

\* The ERROR codes that stop the machine, without their prefix ERR_, and FAULT.
Faults == {"none", "FAULT", "TASK_SHOULD_BE_RUNNING", "TASK_BADUNBLOCK", "PIT_WFI_MISP", "TT_NT",
           "SHOULD_NOT_BE_READY", "SHOULD_NOT_BE_READY2", "SHOULD_NOT_BE_READY3",
           "AMBER_ALERT", "WFIRQ", "TFNTTNNZ", "DEADCODE", "POKE_NULLP",
           "PAGE_FAULT"}

Calls(t) == IF t = Boot THEN BootCalls ELSE TaskCalls

InTask(t, label) == cpu = "task" /\ current = t /\ pc[t] = label

Calling(t, call) == InTask(t, "run") /\ call \in Calls(t)

-----------------------------------------------------------------------------

Init ==
    /\ state = [t \in Task |-> IF t = Boot THEN "RUNNING" ELSE "DEAD"]
    /\ next = [t \in Task |-> NULL]
    /\ ttn = [t \in Task |-> NoTimeout]
    /\ irqFor = [t \in Task |-> NULL]
    /\ timeoutFn = [t \in Task |-> FALSE]
    /\ parent = [t \in Task |-> NULL]
    /\ children = [t \in Task |-> {}]
    /\ live = {Boot}
    /\ pc = [t \in Task |-> "run"]
    /\ made = [t \in Task |-> NULL]
    /\ frame = [t \in Task |-> "none"]
    /\ current = Boot
    /\ first = NULL /\ last = NULL /\ dead = NULL
    /\ sleeping = NULL /\ irqwaiting = NULL /\ irqscalled = {}
    /\ slice = SliceTicks
    /\ irqcount = 0 /\ postpone = 0 /\ flag = FALSE /\ ints = TRUE
    /\ cpu = "task" /\ walk = NULL /\ serving = NULL /\ woke = FALSE /\ idler = NULL
    /\ fault = "none"

\* ERROR(code) and FAULT() never return.
Error(code) ==
    /\ fault' = code
    /\ UNCHANGED <<tcbVars, familyVars, readyVars, waitVars, lockVars, walkVars, runVars>>

(***************************************************************************)
(* Locks.  Neither counter belongs to a task, and unlocking sets IF only   *)
(* when the whole machine's count is back to zero.                         *)
(***************************************************************************)
\* Mutant of LockStuff: lock_scheduler in its place.
LockStuffAsScheduler ==
    /\ irqcount' = irqcount + 1
    /\ ints' = FALSE
    /\ UNCHANGED <<postpone, flag>>

\* lock_stuff on the way into a handler.
LockStuff ==
    /\ irqcount' = irqcount + 1
    /\ postpone' = postpone + 1
    /\ ints' = FALSE
    /\ UNCHANGED flag

\* A lock ... unlock pair in task code that asks for no task switch.
LockedSection ==
    /\ ints' = (irqcount = 0)
    /\ UNCHANGED <<irqcount, postpone, flag>>

(***************************************************************************)
(* The ready list.                                                         *)
(***************************************************************************)
CanUnblock(t) == state[t] \notin {"RUNNING", "READY"}

UnblockError(t) == IF state[t] = "RUNNING" THEN "TASK_SHOULD_BE_RUNNING" ELSE "TASK_BADUNBLOCK"

\* Mutant of Enqueue: no look at FIRST_THREAD, as in switch_to_task.
EnqueueAppends(t) ==
    /\ state' = [state EXCEPT ![t] = "READY"]
    /\ next' = IF last = NULL THEN next ELSE [next EXCEPT ![last] = t]
    /\ last' = t
    /\ UNCHANGED first

\* unblock_task behind its two checks: only the first branch clears task->next.
Enqueue(t) ==
    /\ state' = [state EXCEPT ![t] = "READY"]
    /\ last' = t
    /\ IF first = NULL
       THEN first' = t /\ next' = [next EXCEPT ![t] = NULL]
       ELSE first' = first /\ next' = [next EXCEPT ![last] = t]

(***************************************************************************)
(* Entering schedule() and coming back from it.                            *)
(***************************************************************************)
\* The caller, whose frames take Pending(f) unlocks to unwind, calls schedule().
EnterSchedule(t, f) ==
    /\ irqcount' = irqcount + Pending(f)
    /\ ints' = FALSE
    /\ frame' = [frame EXCEPT ![t] = f]
    /\ cpu' = "schedule"
    /\ UNCHANGED <<postpone, flag>>

BlockTask(t, reason) ==
    /\ state' = [state EXCEPT ![t] = reason]
    /\ EnterSchedule(t, "block")
    /\ pc' = [pc EXCEPT ![t] = "run"]
    /\ UNCHANGED <<next, first, last>>

\* Mutant of Resume: the outer lock of uwait is not given back.
ResumeOneUnlock(t) ==
    /\ irqcount' = irqcount - (IF frame[t] = "none" THEN 0 ELSE 1)
    /\ ints' = CASE frame[t] = "none" -> ints
                 [] frame[t] = "irq"  -> TRUE
                 [] OTHER             -> irqcount = 1
    /\ frame' = [frame EXCEPT ![t] = "none"]
    /\ current' = t
    /\ cpu' = "task"
    /\ UNCHANGED <<postpone, flag, pc, dead, idler>>

\* Mutant of Resume: a new task begins by unlocking the scheduler.
ResumeStartUnlocks(t) ==
    LET unlocks == IF frame[t] = "wait" THEN 2 ELSE 1
    IN  /\ irqcount' = irqcount - unlocks
        /\ ints' = (frame[t] = "irq" \/ irqcount = unlocks)
        /\ frame' = [frame EXCEPT ![t] = "none"]
        /\ current' = t
        /\ cpu' = "task"
        /\ UNCHANGED <<postpone, flag, pc, dead, idler>>

\* schedule() returns in the context of t, which unwinds its frame.
Resume(t) ==
    /\ irqcount' = irqcount - Pending(frame[t])
    /\ ints' = CASE frame[t] = "none" -> ints
                 [] frame[t] = "irq"  -> TRUE
                 [] OTHER             -> irqcount = Pending(frame[t])
    /\ frame' = [frame EXCEPT ![t] = "none"]
    /\ current' = t
    /\ cpu' = "task"
    /\ UNCHANGED <<postpone, flag, pc, dead, idler>>

\* Mutant of SwitchMarks: the old task keeps its mark.
SwitchMarksKept(old, t) ==
    /\ state' = [state EXCEPT ![t] = "RUNNING"]
    /\ IF state[old] = "RUNNING"
       THEN next' = [next EXCEPT ![last] = old, ![old] = NULL] /\ last' = old
       ELSE UNCHANGED <<next, last>>

\* Mutant of SwitchMarks: the old task is put back unless it waits.
SwitchMarksDying(old, t) ==
    IF state[old] \in {"RUNNING", "DEAD"}
    THEN /\ state' = [state EXCEPT ![old] = "READY", ![t] = "RUNNING"]
         /\ next' = [next EXCEPT ![last] = old, ![old] = NULL]
         /\ last' = old
    ELSE /\ state' = [state EXCEPT ![t] = "RUNNING"]
         /\ UNCHANGED <<next, last>>

\* The first half of switch_to_task: old goes back on the ready list if it is still
\* RUNNING, behind LAST_THREAD and without a look at FIRST_THREAD.
SwitchMarks(old, t) ==
    IF state[old] = "RUNNING"
    THEN /\ state' = [state EXCEPT ![old] = "READY", ![t] = "RUNNING"]
         /\ next' = [next EXCEPT ![last] = old, ![old] = NULL]
         /\ last' = old
    ELSE /\ state' = [state EXCEPT ![t] = "RUNNING"]
         /\ UNCHANGED <<next, last>>

\* Between the two stores of the first ckprocA the ready list has a head and LAST_THREAD
\* is NULL; page 0 is not mapped.
SwitchFails(old) == state[old] = "READY" \/ (state[old] = "RUNNING" /\ last = NULL)

\* switch_to_task_wrapper.
SwitchTo(old, t, rest) ==
    IF SwitchFails(old)
    THEN Error(IF state[old] = "READY" THEN "SHOULD_NOT_BE_READY2" ELSE "PAGE_FAULT")
    ELSE /\ first' = rest
         /\ slice' = IF rest = NULL /\ state[old] # "RUNNING" THEN 0 ELSE SliceTicks
         /\ SwitchMarks(old, t)
         /\ Resume(t)
         /\ UNCHANGED <<tcbVars, familyVars, waitVars, walkVars, fault>>

(***************************************************************************)
(* schedule(), from its reap() on.                                         *)
(***************************************************************************)
\* Mutant of WakesMother: reap() tells nobody.
WakesNobody(d) == FALSE

\* murderChild alerts the parent of the dead task d.
WakesMother(d) ==
    /\ parent[d] # NULL
    /\ state[parent[d]] = "WAITING_FOR_DEATH"
    /\ state[d] # "BURIED"

\* One turn of reap()'s loop, with murderChild: the dead task is unlinked from
\* its parent, a parent waiting for a death is woken, and the TCB is freed.
ReapTask ==
    /\ cpu = "schedule" /\ dead # NULL
    /\ LET p == parent[dead]
       IN  IF p # NULL /\ dead \notin children[p]
           THEN Error("AMBER_ALERT")
           ELSE /\ children' = IF p = NULL THEN children
                               ELSE [children EXCEPT ![p] = @ \ {dead}]
                /\ IF WakesMother(dead) THEN Enqueue(p) ELSE UNCHANGED readyVars
                /\ live' = live \ {dead}
                /\ dead' = next[dead]
                /\ UNCHANGED <<tcbVars, parent, waitVars, lockVars, walkVars,
                               current, cpu, idler, slice, pc, frame, fault>>

\* Mutant of ReapDone: the dying task joins DEAD_TASKS before reap() runs.
ReapDoneLate ==
    /\ cpu = "schedule" /\ dead = NULL
    /\ IF state[current] = "DEAD" /\ current \in live
       THEN dead' = current /\ next' = [next EXCEPT ![current] = NULL] /\ UNCHANGED cpu
       ELSE cpu' = "dispatch" /\ UNCHANGED <<dead, next>>
    /\ UNCHANGED <<tcbVars, familyVars, state, first, last, waitVars, lockVars, walkVars,
                   current, idler, slice, pc, frame, fault>>

\* reap() is done; the current task joins DEAD_TASKS if it is dead.
ReapDone ==
    /\ cpu = "schedule" /\ dead = NULL
    /\ cpu' = "dispatch"
    /\ IF state[current] = "DEAD"
       THEN dead' = current /\ next' = [next EXCEPT ![current] = NULL]
       ELSE UNCHANGED <<dead, next>>
    /\ UNCHANGED <<tcbVars, familyVars, state, first, last, waitVars, lockVars, walkVars,
                   current, idler, slice, pc, frame, fault>>

DispatchReady ==
    /\ cpu = "dispatch" /\ first # NULL
    /\ SwitchTo(current, first, next[first])

\* Nobody else is ready and the current task still runs.
DispatchSame ==
    /\ cpu = "dispatch" /\ first = NULL /\ state[current] = "RUNNING"
    /\ Resume(current)
    /\ UNCHANGED <<tcbVars, familyVars, readyVars, waitVars, walkVars, slice, fault>>

MotherWaits ==
    state[current] = "DEAD" /\ parent[current] # NULL
        /\ state[parent[current]] = "WAITING_FOR_DEATH"

\* The last task dies under a waiting parent: the parent takes over at once.
DispatchBury ==
    /\ cpu = "dispatch" /\ first = NULL /\ MotherWaits
    /\ LET p == parent[current]
       IN  /\ state' = [state EXCEPT ![current] = "BURIED", ![p] = "RUNNING"]
           /\ slice' = 0
           /\ Resume(p)
           /\ UNCHANGED <<tcbVars, familyVars, next, first, last, waitVars, walkVars, fault>>

DispatchIdle ==
    /\ cpu = "dispatch" /\ first = NULL /\ state[current] # "RUNNING" /\ ~MotherWaits
    /\ IF state[current] = "READY"
       THEN Error("SHOULD_NOT_BE_READY")
       ELSE /\ current' = NULL /\ idler' = current /\ slice' = 0 /\ cpu' = "idle"
            /\ UNCHANGED <<tcbVars, familyVars, readyVars, waitVars, lockVars, walkVars,
                           dead, pc, frame, fault>>

\* The idle loop finds FIRST_THREAD set.  The task that went idle may be the
\* one to run again; its stack is the one schedule() is still on.
IdleExit ==
    /\ cpu = "idle" /\ first # NULL
    /\ IF first # idler
       THEN SwitchTo(idler, first, next[first])
       ELSE /\ state' = [state EXCEPT ![idler] = "RUNNING"]
            /\ first' = next[first]
            /\ Resume(idler)
            /\ UNCHANGED <<tcbVars, familyVars, next, last, waitVars, walkVars, slice, fault>>

(***************************************************************************)
(* Interrupt handlers.  The gates are interrupt gates: IF is clear until   *)
(* iretq.  In the idle loop interrupts are taken during "sti; hlt".        *)
(***************************************************************************)
Interruptible == cpu = "idle" \/ (cpu = "task" /\ ints)

\* TIMER_INTERRUPT up to the first walk of PIT_IRQ_handler.
Tick ==
    /\ Interruptible
    /\ LockStuff
    /\ ttn' = [t \in Task |-> IF ttn[t] > 0 THEN ttn[t] - 1 ELSE ttn[t]]
    /\ walk' = sleeping /\ sleeping' = NULL
    /\ cpu' = "pitSleep"
    /\ UNCHANGED <<irqFor, timeoutFn, made, familyVars, readyVars, irqwaiting, irqscalled, serving, woke,
                   current, idler, slice, dead, pc, frame, fault>>

\* Mutant of PutBack: the task is dropped.
PutBackNowhere(t) == UNCHANGED <<next, sleeping>>

PutBack(t) ==
    /\ next' = [next EXCEPT ![t] = sleeping]
    /\ sleeping' = t

\* One sleeping task: due tasks are woken, the others pushed back.
PitSleeper ==
    /\ cpu = "pitSleep" /\ walk # NULL
    /\ CASE next[walk] = walk         -> Error("TT_NT")
         [] state[walk] # "WAITING"   -> Error("PIT_WFI_MISP")
         [] next[walk] # walk /\ state[walk] = "WAITING" ->
              /\ IF ttn[walk] <= 0
                 THEN Enqueue(walk) /\ UNCHANGED sleeping
                 ELSE PutBack(walk) /\ UNCHANGED <<state, first, last>>
              /\ walk' = next[walk]
              /\ UNCHANGED <<tcbVars, familyVars, irqwaiting, irqscalled, lockVars,
                             serving, woke, runVars, fault>>

PitSleepersDone ==
    /\ cpu = "pitSleep" /\ walk = NULL
    /\ walk' = irqwaiting /\ irqwaiting' = NULL
    /\ cpu' = "pitIrq"
    /\ UNCHANGED <<tcbVars, familyVars, readyVars, sleeping, irqscalled, lockVars, serving, woke,
                   current, idler, slice, dead, pc, frame, fault>>

\* PIT_IRQ_handler writes the timeout function over the return address that
\* switch_to_task saved.  The task in the idle loop has saved none since it was last
\* resumed: the write hits its live stack or a dead slot below it.
TimeoutReturns(t) == IF current = NULL /\ t = idler THEN {"timedOut", pc[t]} ELSE {"timedOut"}

\* One task waiting for an interrupt: past its deadline it is woken to run its
\* timeout function.
PitWaiter ==
    /\ cpu = "pitIrq" /\ walk # NULL
    /\ IF ttn[walk] = 0 /\ ~(timeoutFn[walk] /\ CanUnblock(walk))
       THEN Error(IF timeoutFn[walk] THEN UnblockError(walk) ELSE "TFNTTNNZ")
       ELSE /\ IF ttn[walk] = 0
               THEN /\ Enqueue(walk)
                    /\ \E label \in TimeoutReturns(walk) : pc' = [pc EXCEPT ![walk] = label]
                    /\ UNCHANGED irqwaiting
               ELSE /\ next' = [next EXCEPT ![walk] = irqwaiting]
                    /\ irqwaiting' = walk
                    /\ UNCHANGED <<state, first, last, pc>>
            /\ walk' = next[walk]
            /\ UNCHANGED <<tcbVars, familyVars, sleeping, irqscalled, lockVars, serving, woke,
                           current, cpu, idler, slice, dead, frame, fault>>

\* Mutant of PitSlice: a slice of 0 is counted down like any other.
PitSliceUnguarded ==
    /\ cpu = "pitIrq" /\ walk = NULL
    /\ slice' = IF slice = 1 THEN slice ELSE slice - 1
    /\ flag' = (flag \/ slice = 1)
    /\ cpu' = "unlock"
    /\ UNCHANGED <<tcbVars, familyVars, readyVars, waitVars, irqcount, postpone, ints, walkVars,
                   current, idler, dead, pc, frame, fault>>

\* The time slice; the schedule() it asks for is postponed to unlock_stuff.
PitSlice ==
    /\ cpu = "pitIrq" /\ walk = NULL
    /\ slice' = IF slice > 1 THEN slice - 1 ELSE slice
    /\ flag' = (flag \/ slice = 1)
    /\ cpu' = "unlock"
    /\ UNCHANGED <<tcbVars, familyVars, readyVars, waitVars, irqcount, postpone, ints, walkVars,
                   current, idler, dead, pc, frame, fault>>

\* A device interrupt: unblockirq(irq) up to its walk.
DeviceInterrupt(irq) ==
    /\ Interruptible
    /\ LockStuff
    /\ walk' = irqwaiting /\ irqwaiting' = NULL
    /\ serving' = irq /\ woke' = FALSE
    /\ cpu' = "unblockirq"
    /\ UNCHANGED <<tcbVars, familyVars, readyVars, sleeping, irqscalled,
                   current, idler, slice, dead, pc, frame, fault>>

UnblockWaiter ==
    /\ cpu = "unblockirq" /\ walk # NULL
    /\ IF irqFor[walk] = serving /\ ~CanUnblock(walk)
       THEN Error(UnblockError(walk))
       ELSE /\ IF irqFor[walk] = serving
               THEN Enqueue(walk) /\ woke' = TRUE /\ UNCHANGED irqwaiting
               ELSE /\ next' = [next EXCEPT ![walk] = irqwaiting]
                    /\ irqwaiting' = walk
                    /\ UNCHANGED <<state, first, last, woke>>
            /\ walk' = next[walk]
            /\ UNCHANGED <<tcbVars, familyVars, sleeping, irqscalled, lockVars, serving,
                           runVars, fault>>

\* Nobody waited: the interrupt is remembered in irqscalled.
UnblockirqDone ==
    /\ cpu = "unblockirq" /\ walk = NULL
    /\ irqscalled' = IF woke THEN irqscalled ELSE irqscalled \cup {serving}
    /\ serving' = NULL /\ woke' = FALSE
    /\ cpu' = "unlock"
    /\ UNCHANGED <<tcbVars, familyVars, readyVars, sleeping, irqwaiting, lockVars, walk,
                   current, idler, slice, dead, pc, frame, fault>>

\* unlock_stuff at the end of a handler, then iretq unless it switches tasks.
HandlerUnlock ==
    /\ cpu = "unlock"
    /\ IF flag /\ (current = NULL \/ state[current] = "READY")
       THEN Error(IF current = NULL THEN "FAULT" ELSE "SHOULD_NOT_BE_READY3")
       ELSE /\ postpone' = postpone - 1
            /\ flag' = FALSE
            /\ IF flag
               THEN /\ cpu' = "schedule"
                    /\ frame' = [frame EXCEPT ![current] = "irq"]
                    /\ UNCHANGED <<irqcount, ints>>
               ELSE /\ cpu' = IF current = NULL THEN "idle" ELSE "task"
                    /\ irqcount' = irqcount - 1
                    /\ ints' = (current # NULL)
                    /\ UNCHANGED frame
            /\ UNCHANGED <<tcbVars, familyVars, readyVars, waitVars, walkVars,
                           current, idler, slice, dead, pc, fault>>

(***************************************************************************)
(* Kernel services, called by the running task.                            *)
(***************************************************************************)
\* nano_sleep up to its unlock_stuff: the task is on the sleeping list and
\* still RUNNING.
NanoSleep(t) ==
    /\ Calling(t, "sleep")
    /\ \E ticks \in 1..MaxDelay : ttn' = [ttn EXCEPT ![t] = ticks]
    /\ next' = [next EXCEPT ![t] = sleeping]
    /\ sleeping' = t
    /\ pc' = [pc EXCEPT ![t] = "sleepBlock"]
    /\ LockedSection
    /\ UNCHANGED <<irqFor, timeoutFn, made, familyVars, state, first, last, irqwaiting, irqscalled, walkVars,
                   current, cpu, idler, slice, dead, frame, fault>>

NanoSleepBlock(t) ==
    /\ InTask(t, "sleepBlock")
    /\ BlockTask(t, "WAITING")
    /\ UNCHANGED <<tcbVars, familyVars, waitVars, walkVars, current, idler, slice, dead, fault>>

\* Mutant of Remembered: irqscalled is never looked at.
RememberedNever(irq) == FALSE

Remembered(irq) == irq \in irqscalled

\* wait_for_irq: an interrupt that came before is consumed at once.
WaitForIrq(t) ==
    /\ Calling(t, "irq")
    /\ \E irq \in Irq :
          IF Remembered(irq)
          THEN /\ irqscalled' = irqscalled \ {irq}
               /\ UNCHANGED <<ttn, irqFor, timeoutFn, next, irqwaiting, pc>>
          ELSE /\ \E timeout \in {NoTimeout} \cup 1..MaxDelay, function \in BOOLEAN :
                     /\ timeout # NoTimeout => function
                     /\ ttn' = [ttn EXCEPT ![t] = timeout]
                     /\ timeoutFn' = [timeoutFn EXCEPT ![t] = function]
               /\ irqFor' = [irqFor EXCEPT ![t] = irq]
               /\ next' = [next EXCEPT ![t] = irqwaiting]
               /\ irqwaiting' = t
               /\ pc' = [pc EXCEPT ![t] = "irqBlock"]
               /\ UNCHANGED irqscalled
    /\ LockedSection
    /\ UNCHANGED <<made, familyVars, state, first, last, sleeping, walkVars,
                   current, cpu, idler, slice, dead, frame, fault>>

WaitForIrqBlock(t) ==
    /\ InTask(t, "irqBlock")
    /\ BlockTask(t, "WAITING_FOR_IRQ")
    /\ UNCHANGED <<tcbVars, familyVars, waitVars, walkVars, current, idler, slice, dead, fault>>

\* The timeout function of every timed wait in the kernel is wffi_err; a wait without
\* a deadline passes it too, or NULL.
TimeoutFunction(t) ==
    /\ InTask(t, "timedOut")
    /\ Error("WFIRQ")

\* Bound: every task ever made has an address of its own; malloc does not hand a
\* freed TCB out again.
Unborn == {m \in Task \ {Boot} : parent[m] = NULL /\ state[m] = "DEAD"}

\* A new task is a driver or, by way of ExecN, a program.
Entry == IF "exec" \in TaskCalls THEN {"run", "exec"} ELSE {"run"}

\* ckprocA up to its test of FIRST_THREAD; it takes no lock.
Ckproc(t) ==
    /\ Calling(t, "spawn")
    /\ \E m \in Unborn :
          /\ live' = live \cup {m}
          /\ made' = [made EXCEPT ![t] = m]
          /\ state' = [state EXCEPT ![m] = "READY"]
          /\ next' = [next EXCEPT ![m] = NULL]
          /\ ttn' = [ttn EXCEPT ![m] = NoTimeout]
          /\ timeoutFn' = [timeoutFn EXCEPT ![m] = FALSE]
          /\ parent' = [parent EXCEPT ![m] = t]
          /\ children' = [children EXCEPT ![t] = @ \cup {m}]
          /\ \E entry \in Entry :
                pc' = [pc EXCEPT ![m] = entry, ![t] = IF first = NULL THEN "linkFirst" ELSE "linkLast"]
    /\ UNCHANGED <<irqFor, first, last, waitVars, lockVars, walkVars,
                   current, cpu, idler, slice, dead, frame, fault>>

\* The first store of ckprocA's insertion, on the branch its test chose ...
CkprocLink(t) ==
    /\ InTask(t, "linkFirst") \/ InTask(t, "linkLast")
    /\ IF pc[t] = "linkFirst"
       THEN first' = made[t] /\ UNCHANGED next
       ELSE next' = [next EXCEPT ![last] = made[t]] /\ UNCHANGED first
    /\ pc' = [pc EXCEPT ![t] = "linked"]
    /\ UNCHANGED <<tcbVars, familyVars, state, last, waitVars, lockVars, walkVars,
                   current, cpu, idler, slice, dead, frame, fault>>

\* ... and the second, to LAST_THREAD.
CkprocLast(t) ==
    /\ InTask(t, "linked")
    /\ last' = made[t]
    /\ made' = [made EXCEPT ![t] = NULL]
    /\ pc' = [pc EXCEPT ![t] = "run"]
    /\ UNCHANGED <<ttn, irqFor, timeoutFn, familyVars, state, next, first, waitVars, lockVars,
                   walkVars, current, cpu, idler, slice, dead, frame, fault>>

\* PROC_EXIT: the lock is given back before schedule() is called.
ProcExit(t) ==
    /\ Calling(t, "exit")
    /\ state' = [state EXCEPT ![t] = "DEAD"]
    /\ pc' = [pc EXCEPT ![t] = "exited"]
    /\ cpu' = "schedule"
    /\ LockedSection
    /\ UNCHANGED <<tcbVars, familyVars, next, first, last, waitVars, walkVars,
                   current, idler, slice, dead, frame, fault>>

\* PROC_EXIT returned: its callers end in ERROR(ERR_DEADCODE).
Deadcode(t) ==
    /\ InTask(t, "exited")
    /\ Error("DEADCODE")

WaitForChildToDie(t) ==
    /\ Calling(t, "wait")
    /\ BlockTask(t, "WAITING_FOR_DEATH")
    /\ UNCHANGED <<tcbVars, familyVars, waitVars, walkVars, current, idler, slice, dead, fault>>

\* ExecN has loaded the program and waits for its parent to start it.
ExecPause(t) ==
    /\ InTask(t, "exec")
    /\ BlockTask(t, "PAUSED")
    /\ UNCHANGED <<tcbVars, familyVars, waitVars, walkVars, current, idler, slice, dead, fault>>

\* A parent starts a child once ExecFile has returned, when ExecN has PAUSED it.
Startable(t) == {c \in children[t] : state[c] = "PAUSED"}

\* unblock_child(c), from system call 0xc or from start_init_task.
UnblockChild(t) ==
    /\ Calling(t, "unblock")
    /\ \E c \in Startable(t) :
          IF CanUnblock(c)
          THEN /\ Enqueue(c)
               /\ LockedSection
               /\ UNCHANGED <<tcbVars, familyVars, waitVars, walkVars, runVars, fault>>
          ELSE Error(UnblockError(c))

\* uwait: unblock a child and wait for a death with no gap between the two.
Uwait(t) ==
    /\ Calling(t, "uwait")
    /\ \E c \in Startable(t) :
          IF CanUnblock(c)
          THEN /\ state' = [state EXCEPT ![c] = "READY", ![t] = "WAITING_FOR_DEATH"]
               /\ last' = c
               /\ IF first = NULL
                  THEN first' = c /\ next' = [next EXCEPT ![c] = NULL]
                  ELSE first' = first /\ next' = [next EXCEPT ![last] = c]
               /\ EnterSchedule(t, "wait")
               /\ UNCHANGED <<tcbVars, familyVars, waitVars, walkVars, current, idler, slice,
                              dead, pc, fault>>
          ELSE Error(UnblockError(c))

\* INT0x80C enables interrupts before it dispatches and disables them at its end.
Syscall(t) ==
    /\ Calling(t, "syscall")
    /\ ints' = ~ints
    /\ UNCHANGED <<tcbVars, familyVars, readyVars, waitVars, irqcount, postpone, flag,
                   walkVars, runVars, fault>>

-----------------------------------------------------------------------------

Schedule == ReapTask \/ ReapDone \/ DispatchReady \/ DispatchSame \/ DispatchBury \/ DispatchIdle \/ IdleExit

TimerInterrupt == Tick \/ PitSleeper \/ PitSleepersDone \/ PitWaiter \/ PitSlice

Unblockirq == (\E irq \in Irq : DeviceInterrupt(irq)) \/ UnblockWaiter \/ UnblockirqDone

Service(t) ==
    \/ NanoSleep(t) \/ NanoSleepBlock(t)
    \/ WaitForIrq(t) \/ WaitForIrqBlock(t) \/ TimeoutFunction(t)
    \/ Ckproc(t) \/ CkprocLink(t) \/ CkprocLast(t) \/ ProcExit(t) \/ Deadcode(t)
    \/ WaitForChildToDie(t) \/ ExecPause(t) \/ UnblockChild(t) \/ Uwait(t)
    \/ Syscall(t)

\* ERROR and FAULT end in an endless loop.
Halted == fault # "none" /\ UNCHANGED vars

Step == Schedule \/ TimerInterrupt \/ Unblockirq \/ HandlerUnlock \/ \E t \in Task : Service(t)

Next == Halted \/ (fault = "none" /\ Step)

Spec == Init /\ [][Next]_vars

-----------------------------------------------------------------------------

TypeOK ==
    /\ state \in [Task -> States]
    /\ next \in [Task -> TaskOrNull]
    /\ ttn \in [Task -> -1..MaxDelay]
    /\ irqFor \in [Task -> Irq \cup {NULL}]
    /\ timeoutFn \in [Task -> BOOLEAN]
    /\ parent \in [Task -> TaskOrNull]
    /\ children \in [Task -> SUBSET Task]
    /\ live \subseteq Task
    /\ pc \in [Task -> Labels]
    /\ made \in [Task -> TaskOrNull]
    /\ frame \in [Task -> Frames]
    /\ current \in TaskOrNull /\ idler \in TaskOrNull /\ walk \in TaskOrNull
    /\ first \in TaskOrNull /\ last \in TaskOrNull /\ dead \in TaskOrNull
    /\ sleeping \in TaskOrNull /\ irqwaiting \in TaskOrNull
    /\ irqscalled \subseteq Irq
    /\ slice \in 0..SliceTicks
    /\ irqcount \in Int /\ postpone \in Int
    /\ flag \in BOOLEAN /\ ints \in BOOLEAN /\ woke \in BOOLEAN
    /\ cpu \in Places
    /\ serving \in Irq \cup {NULL}
    /\ fault \in Faults

-----------------------------------------------------------------------------

Alive == fault = "none"

\* The TCBs reached from the list head h through next.
ListFrom(h) ==
    LET reach[n \in 0..Cardinality(Task)] ==
            IF n = 0 THEN {h} \cap Task
            ELSE reach[n - 1] \cup ({next[t] : t \in reach[n - 1]} \cap Task)
    IN  reach[Cardinality(Task)]

\* A task is marked RUNNING exactly when the processor executes it: switch_to_task,
\* the idle loop's shortcut, the burial and unblock_task all write that mark, and
\* whichever list corruption led to the switch, no second task keeps it.
OneRunner ==
    /\ \A t \in Task : state[t] = "RUNNING" => current = t
    /\ Alive /\ cpu = "task" => state[current] = "RUNNING"

\* The unlocks that the suspended tasks still have on their stacks.
UnlocksOwed(fr) == {u \in Task \X (1..2) : u[2] <= Pending(fr[u[1]])}

\* IRQ_disable_counter is one count for the whole machine: it equals the unlocks
\* owed by every suspended task together, not by the running one.  A task made by
\* ckprocA starts inside another task's lock and never unlocks it.
UnlocksBalance ==
    Alive => irqcount = Cardinality(UnlocksOwed(frame)) + (IF cpu \in HandlerPlaces THEN 1 ELSE 0)

\* schedule() walks and relinks the ready list with interrupts off, also when
\* PROC_EXIT calls it after it has given its lock back.
ScheduleUninterrupted == cpu \in {"schedule", "dispatch"} => ~ints

\* A switch asked for under lock_stuff is made by the unlock that ends the region,
\* and neither the request nor the postponement outlives the handler.
PostponeBalanced ==
    Alive => /\ postpone = (IF cpu \in HandlerPlaces THEN 1 ELSE 0)
             /\ flag => cpu = "unlock"

\* A task that unblock_task or ckprocA made READY can be reached from FIRST_THREAD
\* (a preempted task need not be: asmbridge.S:127 links it behind an empty list).
WokenListed ==
    Alive => \A t \in Task : state[t] = "READY" /\ frame[t] # "irq" =>
                 \/ t \in ListFrom(first)
                 \/ \E u \in Task : made[u] = t /\ pc[u] \in {"linkFirst", "linkLast"}

\* A sleeping task stays where PIT_IRQ_handler will find it while the handler
\* takes the list apart and puts it together again in reverse.
SleepersListed ==
    Alive => \A t \in Task : state[t] = "WAITING" => t \in ListFrom(sleeping) \cup ListFrom(walk)

\* No interrupt is missed: a task waits for an interrupt only while irqscalled has
\* none stored for it, whatever came between its test of the bit and its wait.
InterruptNotMissed ==
    Alive /\ cpu \notin HandlerPlaces =>
        \A t \in ListFrom(irqwaiting) : state[t] = "WAITING_FOR_IRQ" => irqFor[t] \notin irqscalled

\* The scheduler holds on to no TCB that reap() has freed: neither the running task
\* nor one that its lists would run next.
NoFreedTask == Alive => ListFrom(first) \cup ListFrom(current) \subseteq live

\* A dead task is never made READY or RUNNING again while its TCB exists.
DeadStayDead ==
    [][\A t \in live : state[t] \in {"DEAD", "BURIED"} => state'[t] \in {"DEAD", "BURIED"}]_vars

\* With uwait, a parent waits for a death only while it has a child that can
\* still die or whose death reap() has still to report.
MotherHasChild ==
    Alive /\ cpu \in {"task", "idle"} =>
        \A t \in Task : state[t] = "WAITING_FOR_DEATH" =>
            \E c \in children[t] : state[c] \notin {"DEAD", "BURIED"} \/ dead = c

-----------------------------------------------------------------------------
(***************************************************************************)
(* Fairness.  The processor executes the kernel code it is in; the timer   *)
(* interrupts again and again; and the 10 ms between two ticks are enough  *)
(* to leave the idle loop and, for a task that has the processor, to reach *)
(* its next kernel service.                                                *)
(***************************************************************************)
KernelStep == Alive /\ (Schedule \/ PitSleeper \/ PitSleepersDone \/ PitWaiter \/ PitSlice
                        \/ UnblockWaiter \/ UnblockirqDone \/ HandlerUnlock)

Fairness ==
    /\ WF_vars(KernelStep)
    /\ WF_vars(Alive /\ Tick)
    /\ SF_vars(Alive /\ IdleExit)
    /\ \A t \in Task : SF_vars(Alive /\ Service(t))

\* A sleeping task gets the processor again, unless the machine stops.
SleeperRuns == \A t \in Task : state[t] = "WAITING" ~> (state[t] = "RUNNING" \/ ~Alive)

-----------------------------------------------------------------------------
(***************************************************************************)
(* What the code says of itself and does not keep.                         *)
(***************************************************************************)
\* The checks at proc.c:347, 350 and 602: whoever an interrupt or a poke wakes, or
\* the timer finds on the sleeping list, has been blocked.
WokenWereBlocked == fault \notin {"TASK_SHOULD_BE_RUNNING", "TASK_BADUNBLOCK", "PIT_WFI_MISP"}

=============================================================================
