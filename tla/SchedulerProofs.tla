--------------------------- MODULE SchedulerProofs ---------------------------
(***************************************************************************)
(* Theorems about Scheduler for every set of tasks, every set of interrupt *)
(* lines and every workload.                                               *)
(***************************************************************************)
EXTENDS Scheduler, FiniteSetTheorems, TLAPS

-----------------------------------------------------------------------------
(***************************************************************************)
(* The inductive invariants.                                               *)
(***************************************************************************)
\* schedule() runs in a task, whose parent it may look up; while no task is
\* current, the one that went idle is known; and unblockirq serves a line in use.
SomeTask ==
    /\ cpu = "unblockirq" => serving \in Irq
    /\ cpu \in {"schedule", "dispatch"} => current \in Task
    /\ cpu = "idle" \/ current = NULL => idler \in Task

TypeInv == TypeOK /\ SomeTask

\* The inductive form of OneRunner: it has to say what the mark RUNNING means in
\* a handler and in the idle loop, from which the task code is entered again.
Runner ==
    /\ \A t \in Task : state[t] = "RUNNING" => current = t
    /\ cpu = "task" => current \in Task /\ state[current] = "RUNNING"
    /\ cpu \in HandlerPlaces => current = NULL \/ state[current] = "RUNNING"
    /\ cpu = "idle" => current = NULL

InHandler == IF cpu \in HandlerPlaces THEN 1 ELSE 0

\* IRQ_disable_counter is the sum of what is owed.
Balance == irqcount = Cardinality(UnlocksOwed(frame)) + InHandler

\* A task owes nothing while its own code or a handler above it runs.
RunnerOwesNothing ==
    cpu \in HandlerPlaces \cup {"task"} /\ current # NULL => frame[current] = "none"

\* Whenever the boot task does not run it is inside block_task, uwait or a timer
\* interrupt; it never exits, so somebody always owes an unlock.
BootOwes == current # Boot \/ cpu \in {"schedule", "dispatch"} => frame[Boot] # "none"

Postponed ==
    /\ postpone = InHandler
    /\ flag => cpu = "unlock"

\* The handlers, schedule() and the idle loop outside its hlt run with IF clear.
Uninterrupted == cpu # "task" => ~ints

LockInv == Balance /\ RunnerOwesNothing /\ BootOwes /\ Postponed /\ Uninterrupted

-----------------------------------------------------------------------------
(***************************************************************************)
(* Type correctness.                                                       *)
(***************************************************************************)
LEMMA PendingType == \A f \in Frames : Pending(f) \in 0..2
  BY DEF Pending, Frames

LEMMA Names ==
    /\ "RUNNING" \in States /\ "READY" \in States /\ "WAITING" \in States /\ "DEAD" \in States
    /\ "PAUSED" \in States /\ "WAITING_FOR_IRQ" \in States /\ "WAITING_FOR_DEATH" \in States /\ "BURIED" \in States
    /\ "run" \in Labels /\ "sleepBlock" \in Labels /\ "irqBlock" \in Labels /\ "linkFirst" \in Labels
    /\ "linkLast" \in Labels /\ "linked" \in Labels /\ "timedOut" \in Labels /\ "exec" \in Labels /\ "exited" \in Labels
    /\ "none" \in Frames /\ "block" \in Frames /\ "wait" \in Frames /\ "irq" \in Frames
    /\ "task" \in Places /\ "pitSleep" \in Places /\ "pitIrq" \in Places /\ "unblockirq" \in Places
    /\ "unlock" \in Places /\ "schedule" \in Places /\ "dispatch" \in Places /\ "idle" \in Places
    /\ "none" \in Faults /\ "FAULT" \in Faults /\ "PIT_WFI_MISP" \in Faults /\ "TT_NT" \in Faults
    /\ "SHOULD_NOT_BE_READY" \in Faults /\ "SHOULD_NOT_BE_READY2" \in Faults /\ "SHOULD_NOT_BE_READY3" \in Faults /\ "AMBER_ALERT" \in Faults
    /\ "WFIRQ" \in Faults /\ "DEADCODE" \in Faults /\ "TFNTTNNZ" \in Faults /\ "PAGE_FAULT" \in Faults
    /\ \A t : UnblockError(t) \in Faults
  BY DEF States, Labels, Frames, Places, Faults, UnblockError

LEMMA TypeInvInit == Init => TypeInv
  <1> SUFFICES ASSUME Init
               PROVE  TypeInv
    OBVIOUS
  <1>1. flag \in BOOLEAN /\ ints \in BOOLEAN /\ woke \in BOOLEAN
    BY Zenon DEF Init
  <1>2. TypeOK
    BY <1>1, Names, TaskAssumption, BoundAssumption DEF Init, TypeOK, TaskOrNull, NoTimeout
  <1>3. SomeTask
    BY TaskAssumption DEF Init, SomeTask
  <1> QED
    BY <1>2, <1>3 DEF TypeInv

\* The ways a step changes several variables at once, each typed once.
LEMMA EnqueueType ==
  ASSUME TypeOK, NEW t \in Task, Enqueue(t)
  PROVE  /\ state' \in [Task -> States] /\ next' \in [Task -> TaskOrNull]
         /\ first' \in TaskOrNull /\ last' \in TaskOrNull
  BY Names DEF TypeOK, TaskOrNull, Enqueue

LEMMA LockedSectionType ==
  ASSUME TypeOK, LockedSection
  PROVE  /\ irqcount' \in Int /\ postpone' \in Int
         /\ flag' \in BOOLEAN /\ ints' \in BOOLEAN
  BY DEF TypeOK, LockedSection

LEMMA EnterScheduleType ==
  ASSUME TypeOK, NEW t \in Task, NEW f \in Frames, EnterSchedule(t, f)
  PROVE  /\ irqcount' \in Int /\ postpone' \in Int
         /\ flag' \in BOOLEAN /\ ints' \in BOOLEAN
         /\ frame' \in [Task -> Frames]
         /\ cpu' \in Places
  <1>1. ints' \in BOOLEAN
    BY DEF EnterSchedule
  <1>2. irqcount' \in Int
    BY PendingType DEF TypeOK, EnterSchedule
  <1> QED
    BY <1>1, <1>2, Names DEF TypeOK, EnterSchedule

LEMMA ResumeType ==
  ASSUME TypeOK, NEW STATE t, t \in Task, Resume(t)
  PROVE  /\ irqcount' \in Int /\ postpone' \in Int
         /\ flag' \in BOOLEAN /\ ints' \in BOOLEAN
         /\ frame' \in [Task -> Frames]
         /\ current' \in Task /\ cpu' = "task"
         /\ pc' \in [Task -> Labels] /\ dead' \in TaskOrNull /\ idler' \in TaskOrNull
  <1>1. ints' \in BOOLEAN
    BY DEF TypeOK, Resume
  <1>2. irqcount' \in Int
    BY PendingType DEF TypeOK, Resume
  <1> QED
    BY <1>1, <1>2, Names DEF TypeOK, Resume

LEMMA HaltType ==
  ASSUME TypeInv, fault' \in Faults,
         UNCHANGED <<tcbVars, familyVars, readyVars, waitVars, lockVars, walkVars, runVars>>
  PROVE  TypeInv'
  BY DEF TypeInv, TypeOK, SomeTask, TaskOrNull,
         tcbVars, familyVars, readyVars, waitVars, lockVars, walkVars, runVars

LEMMA BlockTaskType ==
  ASSUME TypeInv, NEW t \in Task, NEW reason \in States, current = t, BlockTask(t, reason),
         UNCHANGED <<tcbVars, familyVars, waitVars, walkVars, current, idler, slice, dead, fault>>
  PROVE  TypeInv'
  <1> USE DEF TypeInv, TypeOK, BlockTask
  <1>1. /\ irqcount' \in Int /\ postpone' \in Int
        /\ flag' \in BOOLEAN /\ ints' \in BOOLEAN
        /\ frame' \in [Task -> Frames]
        /\ cpu' \in Places
    BY EnterScheduleType, Names
  <1>2. /\ state' \in [Task -> States] /\ pc' \in [Task -> Labels]
        /\ next' \in [Task -> TaskOrNull] /\ first' \in TaskOrNull /\ last' \in TaskOrNull
    BY Names DEF TaskOrNull
  <1>3. SomeTask'
    BY TaskAssumption DEF SomeTask, EnterSchedule
  <1> QED
    BY <1>1, <1>2, <1>3 DEF TaskOrNull, tcbVars, familyVars, waitVars, walkVars

LEMMA SwitchToType ==
  ASSUME TypeInv, NEW STATE old, old \in Task, NEW STATE t, t \in Task, NEW STATE rest, rest \in TaskOrNull,
         SwitchTo(old, t, rest)
  PROVE  TypeInv'
  <1>1. CASE SwitchFails(old)
    BY <1>1, HaltType, Names DEF SwitchTo, Error
  <1>2. CASE ~SwitchFails(old)
    <2>1. /\ irqcount' \in Int /\ postpone' \in Int
          /\ flag' \in BOOLEAN /\ ints' \in BOOLEAN
          /\ frame' \in [Task -> Frames]
          /\ current' \in Task /\ cpu' = "task"
          /\ pc' \in [Task -> Labels] /\ dead' \in TaskOrNull /\ idler' \in TaskOrNull
      BY <1>2, ResumeType DEF SwitchTo, TypeInv
    <2>2. slice' \in 0..SliceTicks
      BY <1>2, BoundAssumption DEF SwitchTo, SwitchMarks, TypeInv, TypeOK
    <2>3. /\ state' \in [Task -> States] /\ next' \in [Task -> TaskOrNull]
          /\ first' \in TaskOrNull /\ last' \in TaskOrNull
      <3>1. CASE state[old] = "RUNNING"
        <4>1. /\ state' = [state EXCEPT ![old] = "READY", ![t] = "RUNNING"]
              /\ next' = [next EXCEPT ![last] = old, ![old] = NULL]
              /\ first' = rest /\ last' = old
          BY <1>2, <3>1 DEF SwitchTo, SwitchMarks
        <4>2. state' \in [Task -> States]
          BY <4>1, Names DEF TypeInv, TypeOK
        <4>3. next' \in [Task -> TaskOrNull]
          BY <4>1 DEF TypeInv, TypeOK, TaskOrNull
        <4> QED
          BY <4>1, <4>2, <4>3 DEF TaskOrNull
      <3>2. CASE state[old] # "RUNNING"
        BY <1>2, <3>2, Names DEF SwitchTo, SwitchMarks, TypeInv, TypeOK, TaskOrNull
      <3> QED
        BY <3>1, <3>2
    <2>4. UNCHANGED <<tcbVars, familyVars, waitVars, walkVars, fault>>
      BY <1>2 DEF SwitchTo
    <2> QED
      BY <2>1, <2>2, <2>3, <2>4, Names, TaskAssumption
      DEF TypeInv, TypeOK, SomeTask, TaskOrNull, tcbVars, familyVars, waitVars, walkVars
  <1> QED
    BY <1>1, <1>2

LEMMA TypeInvNext == TypeInv /\ [Next]_vars => TypeInv'
  <1> SUFFICES ASSUME TypeInv, [Next]_vars
               PROVE  TypeInv'
    OBVIOUS
  <1> USE TaskAssumption, BoundAssumption, Names
      DEF TypeInv, TypeOK, SomeTask, TaskOrNull, NoTimeout,
          tcbVars, familyVars, readyVars, waitVars, lockVars, walkVars, runVars
  <1>1. CASE ReapTask
    BY <1>1 DEF ReapTask, Error, Enqueue
  <1>2. CASE ReapDone
    BY <1>2 DEF ReapDone
  <1>3. CASE DispatchReady
    BY <1>3, SwitchToType DEF DispatchReady
  <1>4. CASE DispatchSame
    BY <1>4, ResumeType DEF DispatchSame
  <1>5. CASE DispatchBury
    <2>1. parent[current] \in Task
      BY <1>5 DEF DispatchBury, MotherWaits
    <2>2. state' \in [Task -> States]
      BY <1>5 DEF DispatchBury
    <2>. slice' \in 0..SliceTicks
      BY <1>5 DEF DispatchBury
    <2>3. Resume(parent[current])
      BY <1>5 DEF DispatchBury
    <2> QED
      BY <1>5, <2>1, <2>2, <2>3, ResumeType DEF DispatchBury
  <1>6. CASE DispatchIdle
    BY <1>6 DEF DispatchIdle, Error
  <1>7. CASE IdleExit
    <2>1. CASE first # idler
      BY <1>7, <2>1, SwitchToType DEF IdleExit
    <2>2. CASE first = idler
      <3>1. state' \in [Task -> States] /\ first' \in TaskOrNull
        BY <1>7, <2>2 DEF IdleExit
      <3>2. Resume(idler)
        BY <1>7, <2>2 DEF IdleExit
      <3> QED
        BY <1>7, <2>2, <3>1, <3>2, ResumeType DEF IdleExit
    <2> QED
      BY <2>1, <2>2
  <1>8. CASE Tick
    <2>1. ttn' \in [Task -> -1..MaxDelay]
      BY <1>8 DEF Tick
    <2>2. ints' \in BOOLEAN /\ flag' \in BOOLEAN
      BY <1>8 DEF Tick, LockStuff
    <2> QED
      BY <1>8, <2>1, <2>2 DEF Tick, LockStuff
  <1>9. CASE PitSleeper
    <2>1. CASE next[walk] = walk \/ state[walk] # "WAITING"
      BY <1>9, <2>1, HaltType DEF PitSleeper, Error
    <2>2. CASE next[walk] # walk /\ state[walk] = "WAITING"
      <3>1. /\ walk' = next[walk]
            /\ UNCHANGED <<tcbVars, familyVars, irqwaiting, irqscalled, lockVars,
                           serving, woke, runVars, fault>>
        BY <1>9, <2>2 DEF PitSleeper
      <3>2. CASE ttn[walk] <= 0
        <4>1. Enqueue(walk) /\ UNCHANGED sleeping
          BY <1>9, <2>2, <3>2 DEF PitSleeper
        <4> QED
          BY <1>9, <3>1, <4>1, EnqueueType DEF PitSleeper
      <3>3. CASE ~(ttn[walk] <= 0)
        <4>1. PutBack(walk) /\ UNCHANGED <<state, first, last>>
          BY <1>9, <2>2, <3>3 DEF PitSleeper
        <4> QED
          BY <1>9, <3>1, <4>1 DEF PitSleeper, PutBack
      <3> QED
        BY <3>2, <3>3
    <2> QED
      BY <2>1, <2>2
  <1>10. CASE PitSleepersDone
    BY <1>10 DEF PitSleepersDone
  <1>11. CASE PitWaiter
    <2>1. CASE ttn[walk] = 0 /\ ~(timeoutFn[walk] /\ CanUnblock(walk))
      BY <1>11, <2>1, HaltType DEF PitWaiter, Error
    <2>2. CASE ttn[walk] = 0 /\ timeoutFn[walk] /\ CanUnblock(walk)
      <3>1. Enqueue(walk)
        BY <1>11, <2>2 DEF PitWaiter
      <3>2. PICK label \in Labels : pc' = [pc EXCEPT ![walk] = label]
        BY <1>11, <2>2 DEF PitWaiter, TimeoutReturns
      <3> QED
        BY <1>11, <2>2, <3>1, <3>2, EnqueueType DEF PitWaiter
    <2>3. CASE ttn[walk] # 0
      BY <1>11, <2>3 DEF PitWaiter
    <2> QED
      BY <2>1, <2>2, <2>3
  <1>12. CASE PitSlice
    BY <1>12 DEF PitSlice
  <1>13. CASE UnblockWaiter
    <2>1. CASE fault' # fault
      BY <1>13, <2>1, HaltType DEF UnblockWaiter, Error, CanUnblock, Enqueue
    <2>2. CASE fault' = fault /\ irqFor[walk] = serving
      BY <1>13, <2>2, EnqueueType DEF UnblockWaiter, Error
    <2>3. CASE fault' = fault /\ ~(irqFor[walk] = serving)
      BY <1>13, <2>3 DEF UnblockWaiter, Error, PutBack
    <2> QED
      BY <2>1, <2>2, <2>3
  <1>14. CASE UnblockirqDone
    <2>1. woke' \in BOOLEAN /\ serving' \in Irq \cup {NULL}
      BY <1>14 DEF UnblockirqDone
    <2>2. irqscalled' = irqscalled \/ irqscalled' = irqscalled \cup {serving}
      <3>1. CASE woke = TRUE
        BY <1>14, <3>1 DEF UnblockirqDone
      <3>2. CASE woke = FALSE
        BY <1>14, <3>2 DEF UnblockirqDone
      <3> QED
        BY <3>1, <3>2
    <2>3. serving \in Irq
      BY <1>14 DEF UnblockirqDone
    <2> QED
      BY <1>14, <2>1, <2>2, <2>3 DEF UnblockirqDone
  <1>15. CASE HandlerUnlock
    <2>1. CASE flag /\ (current = NULL \/ state[current] = "READY")
      BY <1>15, <2>1, HaltType DEF HandlerUnlock, Error
    <2>2. CASE ~(flag /\ (current = NULL \/ state[current] = "READY"))
      <3>1. /\ postpone' \in Int /\ irqcount' \in Int
            /\ flag' \in BOOLEAN /\ ints' \in BOOLEAN
        <4>1. postpone' = postpone - 1 /\ (irqcount' = irqcount \/ irqcount' = irqcount - 1)
          BY <1>15, <2>2 DEF HandlerUnlock
        <4>2. flag' \in BOOLEAN
          BY <1>15, <2>2 DEF HandlerUnlock
        <4>3. ints' \in BOOLEAN
          BY <1>15, <2>2, Zenon DEF HandlerUnlock
        <4>4. postpone' \in Int /\ irqcount' \in Int
          BY <4>1
        <4> QED
          BY <4>2, <4>3, <4>4
      <3>2. cpu' \in Places /\ frame' \in [Task -> Frames]
        BY <1>15, <2>2 DEF HandlerUnlock
      <3>3. SomeTask'
        BY <1>15, <2>2 DEF HandlerUnlock
      <3>4. UNCHANGED <<tcbVars, familyVars, readyVars, waitVars, walkVars,
                        current, idler, slice, dead, pc, fault>>
        BY <1>15, <2>2 DEF HandlerUnlock
      <3> QED
        BY <3>1, <3>2, <3>3, <3>4
    <2> QED
      BY <2>1, <2>2
  <1>16. ASSUME NEW irq \in Irq, DeviceInterrupt(irq)
        PROVE  TypeInv'
    <2>1. postpone' \in Int /\ irqcount' \in Int
      BY <1>16 DEF DeviceInterrupt, LockStuff
    <2>2. flag' \in BOOLEAN /\ ints' \in BOOLEAN /\ woke' \in BOOLEAN
      BY <1>16 DEF DeviceInterrupt, LockStuff
    <2> QED
      BY <1>16, <2>1, <2>2 DEF DeviceInterrupt
  <1>17. ASSUME NEW t \in Task, NanoSleep(t)
        PROVE  TypeInv'
    BY <1>17 DEF NanoSleep, Calling, InTask, LockedSection
  <1>18. ASSUME NEW t \in Task, NanoSleepBlock(t)
        PROVE  TypeInv'
    BY <1>18, BlockTaskType DEF NanoSleepBlock, InTask
  <1>19. ASSUME NEW t \in Task, WaitForIrq(t)
        PROVE  TypeInv'
    BY <1>19 DEF WaitForIrq, Calling, InTask, LockedSection
  <1>20. ASSUME NEW t \in Task, WaitForIrqBlock(t)
        PROVE  TypeInv'
    BY <1>20, BlockTaskType DEF WaitForIrqBlock, InTask
  <1>21. ASSUME NEW t \in Task, TimeoutFunction(t)
        PROVE  TypeInv'
    BY <1>21 DEF TimeoutFunction, Error
  <1>22. ASSUME NEW t \in Task, Ckproc(t)
        PROVE  TypeInv'
    BY <1>22 DEF Ckproc, Calling, InTask, Unborn, Entry
  <1>23. ASSUME NEW t \in Task, CkprocLink(t)
        PROVE  TypeInv'
    BY <1>23 DEF CkprocLink, InTask
  <1>32. ASSUME NEW t \in Task, CkprocLast(t)
        PROVE  TypeInv'
    BY <1>32 DEF CkprocLast, InTask
  <1>24. ASSUME NEW t \in Task, ProcExit(t)
        PROVE  TypeInv'
    BY <1>24 DEF ProcExit, Calling, InTask, LockedSection
  <1>25. ASSUME NEW t \in Task, Deadcode(t)
        PROVE  TypeInv'
    BY <1>25 DEF Deadcode, Error
  <1>26. ASSUME NEW t \in Task, WaitForChildToDie(t)
        PROVE  TypeInv'
    BY <1>26, BlockTaskType DEF WaitForChildToDie, Calling, InTask
  <1>27. ASSUME NEW t \in Task, ExecPause(t)
        PROVE  TypeInv'
    BY <1>27, BlockTaskType DEF ExecPause, InTask
  <1>28. ASSUME NEW t \in Task, UnblockChild(t)
        PROVE  TypeInv'
    <2> PICK c \in Task : IF CanUnblock(c)
                         THEN /\ Enqueue(c)
                              /\ LockedSection
                              /\ UNCHANGED <<tcbVars, familyVars, waitVars, walkVars, runVars, fault>>
                         ELSE Error(UnblockError(c))
      BY <1>28 DEF UnblockChild, Startable
    <2>1. CASE CanUnblock(c)
      BY <2>1, EnqueueType, LockedSectionType
    <2>2. CASE ~CanUnblock(c)
      BY <2>2, HaltType DEF Error
    <2> QED
      BY <2>1, <2>2
  <1>29. ASSUME NEW t \in Task, Uwait(t)
        PROVE  TypeInv'
    <2> PICK c \in Task :
          IF CanUnblock(c)
          THEN /\ state' = [state EXCEPT ![c] = "READY", ![t] = "WAITING_FOR_DEATH"]
               /\ last' = c
               /\ IF first = NULL
                  THEN first' = c /\ next' = [next EXCEPT ![c] = NULL]
                  ELSE first' = first /\ next' = [next EXCEPT ![last] = c]
               /\ EnterSchedule(t, "wait")
               /\ UNCHANGED <<tcbVars, familyVars, waitVars, walkVars, current, idler, slice,
                              dead, pc, fault>>
          ELSE Error(UnblockError(c))
      BY <1>29 DEF Uwait, Startable
    <2>1. CASE CanUnblock(c)
      <3>1. state' \in [Task -> States] /\ next' \in [Task -> TaskOrNull]
        BY <2>1
      <3>2. /\ irqcount' \in Int /\ postpone' \in Int
            /\ flag' \in BOOLEAN /\ ints' \in BOOLEAN
            /\ frame' \in [Task -> Frames] /\ cpu' \in Places
        BY <2>1, EnterScheduleType
      <3>3. SomeTask'
        BY <1>29, <2>1 DEF Uwait, Calling, InTask, EnterSchedule
      <3> QED
        BY <2>1, <3>1, <3>2, <3>3
    <2>2. CASE ~CanUnblock(c)
      BY <2>2, HaltType DEF Error
    <2> QED
      BY <2>1, <2>2
  <1>30. ASSUME NEW t \in Task, Syscall(t)
        PROVE  TypeInv'
    BY <1>30 DEF Syscall, Calling, InTask
  <1>31. CASE UNCHANGED vars
    BY <1>31 DEF vars
  <1> QED
    BY <1>1, <1>2, <1>3, <1>4, <1>5, <1>6, <1>7, <1>8, <1>9, <1>10, <1>11, <1>12, <1>13, <1>14, <1>15, <1>16, <1>17, <1>18, <1>19, <1>20, <1>21, <1>22, <1>23, <1>24, <1>25, <1>26, <1>27, <1>28, <1>29, <1>30, <1>31, <1>32
    DEF Next, Halted, Step, Schedule, TimerInterrupt, Unblockirq, Service

\* The state has the types of TypeOK in every execution: what the corrupted lists
\* of the model link together is always a TCB, and ERROR codes are those of the code.
THEOREM TypeCorrect == Spec => []TypeOK
  <1>1. TypeInv => TypeOK
    BY DEF TypeInv
  <1> QED
    BY TypeInvInit, TypeInvNext, <1>1, PTL DEF Spec


-----------------------------------------------------------------------------
(***************************************************************************)
(* One running task.                                                       *)
(***************************************************************************)
LEMMA RunnerInit == Init => Runner
  BY TaskAssumption DEF Init, Runner, HandlerPlaces

\* Waking a task that is not RUNNING disturbs nobody.
LEMMA EnqueueRunner ==
  ASSUME TypeOK, Runner, NEW STATE t, t \in Task, state[t] # "RUNNING", Enqueue(t),
         UNCHANGED <<current, cpu>>
  PROVE  Runner'
  BY DEF TypeOK, TaskOrNull, Runner, Enqueue

LEMMA BlockTaskRunner ==
  ASSUME TypeOK, Runner, NEW t \in Task, NEW reason, reason # "RUNNING", current = t,
         BlockTask(t, reason), UNCHANGED current
  PROVE  Runner'
  BY DEF TypeOK, Runner, BlockTask, EnterSchedule, HandlerPlaces

\* Whoever was RUNNING is the task switched from, and loses the mark.
LEMMA SwitchToRunner ==
  ASSUME TypeOK, Runner, NEW STATE old, old \in Task, NEW STATE t, t \in Task, NEW STATE rest,
         \A u \in Task : state[u] = "RUNNING" => u = old,
         SwitchTo(old, t, rest)
  PROVE  Runner'
  <1>1. CASE SwitchFails(old)
    BY <1>1 DEF SwitchTo, Error, Runner, readyVars, runVars
  <1>2. CASE ~SwitchFails(old) /\ state[old] = "RUNNING"
    <2>1. /\ state' = [state EXCEPT ![old] = "READY", ![t] = "RUNNING"]
          /\ current' = t /\ cpu' = "task"
      BY <1>2 DEF SwitchTo, SwitchMarks, Resume
    <2> QED
      BY <2>1 DEF TypeOK, Runner, HandlerPlaces
  <1>3. CASE ~SwitchFails(old) /\ state[old] # "RUNNING"
    <2>1. /\ state' = [state EXCEPT ![t] = "RUNNING"]
          /\ current' = t /\ cpu' = "task"
      BY <1>3 DEF SwitchTo, SwitchMarks, Resume
    <2> QED
      BY <1>3, <2>1 DEF TypeOK, Runner, HandlerPlaces
  <1> QED
    BY <1>1, <1>2, <1>3

LEMMA RunnerNext == TypeInv /\ Runner /\ [Next]_vars => Runner'
  <1> SUFFICES ASSUME TypeInv, Runner, [Next]_vars
               PROVE  Runner'
    OBVIOUS
  <1> TypeOK /\ SomeTask
    BY DEF TypeInv
  <1>1. CASE ReapTask
    BY <1>1 DEF ReapTask, Enqueue, Error, WakesMother, TypeOK, TaskOrNull, Runner, HandlerPlaces, readyVars, runVars
  <1>2. CASE ReapDone
    BY <1>2 DEF ReapDone, Runner, HandlerPlaces
  <1>3. CASE DispatchReady
    BY <1>3, SwitchToRunner DEF DispatchReady, SomeTask, TypeOK, TaskOrNull, Runner
  <1>4. CASE DispatchSame
    BY <1>4 DEF DispatchSame, Resume, SomeTask, Runner, HandlerPlaces, readyVars
  <1>5. CASE DispatchBury
    <2>1. /\ parent[current] \in Task /\ current \in Task /\ state[current] # "RUNNING"
          /\ state' = [state EXCEPT ![current] = "BURIED", ![parent[current]] = "RUNNING"]
          /\ current' = parent[current] /\ cpu' = "task"
      BY <1>5 DEF DispatchBury, MotherWaits, Resume, SomeTask, TypeOK, TaskOrNull
    <2> QED
      BY <2>1 DEF Runner, TypeOK, HandlerPlaces
  <1>6. CASE DispatchIdle
    BY <1>6 DEF DispatchIdle, Error, SomeTask, TypeOK, Runner, HandlerPlaces, readyVars, runVars
  <1>7. CASE IdleExit
    <2>1. CASE first # idler
      BY <1>7, <2>1, SwitchToRunner, TaskAssumption DEF IdleExit, SomeTask, TypeOK, TaskOrNull, Runner
    <2>2. CASE first = idler
      BY <1>7, <2>2, TaskAssumption DEF IdleExit, Resume, SomeTask, TypeOK, Runner, HandlerPlaces
    <2> QED
      BY <2>1, <2>2
  <1>8. CASE Tick
    BY <1>8 DEF Tick, Interruptible, Runner, HandlerPlaces, readyVars
  <1>9. CASE PitSleeper
    <2>1. CASE UNCHANGED <<state, current, cpu>>
      BY <2>1 DEF Runner
    <2>2. CASE Enqueue(walk) /\ state[walk] = "WAITING" /\ UNCHANGED <<current, cpu>>
      BY <1>9, <2>2, EnqueueRunner DEF PitSleeper, TypeOK, TaskOrNull
    <2> QED
      BY <1>9, <2>1, <2>2 DEF PitSleeper, Error, readyVars, runVars
  <1>10. CASE PitSleepersDone
    BY <1>10 DEF PitSleepersDone, Runner, HandlerPlaces, readyVars
  <1>11. CASE PitWaiter
    <2>1. CASE UNCHANGED <<state, current, cpu>>
      BY <2>1 DEF Runner
    <2>2. CASE Enqueue(walk) /\ CanUnblock(walk) /\ UNCHANGED <<current, cpu>>
      BY <1>11, <2>2, EnqueueRunner DEF PitWaiter, CanUnblock, TypeOK, TaskOrNull
    <2> QED
      BY <1>11, <2>1, <2>2 DEF PitWaiter, Error, readyVars, runVars
  <1>12. CASE PitSlice
    BY <1>12 DEF PitSlice, Runner, HandlerPlaces, readyVars
  <1>13. CASE UnblockWaiter
    <2>1. CASE UNCHANGED <<state, current, cpu>>
      BY <2>1 DEF Runner
    <2>2. CASE Enqueue(walk) /\ CanUnblock(walk) /\ UNCHANGED <<current, cpu>>
      BY <1>13, <2>2, EnqueueRunner DEF UnblockWaiter, CanUnblock, TypeOK, TaskOrNull
    <2> QED
      BY <1>13, <2>1, <2>2 DEF UnblockWaiter, Error, readyVars, runVars
  <1>14. CASE UnblockirqDone
    BY <1>14 DEF UnblockirqDone, Runner, HandlerPlaces, readyVars
  <1>15. CASE HandlerUnlock
    BY <1>15, TaskAssumption DEF HandlerUnlock, Error, SomeTask, TypeOK, TaskOrNull, Runner, HandlerPlaces, readyVars, runVars
  <1>16. ASSUME NEW irq \in Irq, DeviceInterrupt(irq)
        PROVE  Runner'
    BY <1>16 DEF DeviceInterrupt, Interruptible, Runner, HandlerPlaces, readyVars
  <1>17. ASSUME NEW t \in Task, NanoSleep(t)
        PROVE  Runner'
    BY <1>17 DEF NanoSleep, Runner, readyVars, runVars
  <1>18. ASSUME NEW t \in Task, NanoSleepBlock(t)
        PROVE  Runner'
    BY <1>18, BlockTaskRunner DEF NanoSleepBlock, InTask
  <1>19. ASSUME NEW t \in Task, WaitForIrq(t)
        PROVE  Runner'
    BY <1>19 DEF WaitForIrq, Runner, readyVars, runVars
  <1>20. ASSUME NEW t \in Task, WaitForIrqBlock(t)
        PROVE  Runner'
    BY <1>20, BlockTaskRunner DEF WaitForIrqBlock, InTask
  <1>21. ASSUME NEW t \in Task, TimeoutFunction(t)
        PROVE  Runner'
    BY <1>21 DEF TimeoutFunction, Error, Runner, readyVars, runVars
  <1>22. ASSUME NEW t \in Task, Ckproc(t)
        PROVE  Runner'
    <2> PICK m \in Unborn : state' = [state EXCEPT ![m] = "READY"]
      BY <1>22 DEF Ckproc
    <2> m \in Task /\ state[m] # "RUNNING"
      BY DEF Unborn
    <2> QED
      BY <1>22 DEF Ckproc, Calling, InTask, TypeOK, Runner
  <1>23. ASSUME NEW t \in Task, CkprocLink(t)
        PROVE  Runner'
    BY <1>23 DEF CkprocLink, Runner, readyVars, runVars
  <1>32. ASSUME NEW t \in Task, CkprocLast(t)
        PROVE  Runner'
    BY <1>32 DEF CkprocLast, Runner, readyVars, runVars
  <1>24. ASSUME NEW t \in Task, ProcExit(t)
        PROVE  Runner'
    BY <1>24 DEF ProcExit, Calling, InTask, TypeOK, Runner, HandlerPlaces
  <1>25. ASSUME NEW t \in Task, Deadcode(t)
        PROVE  Runner'
    BY <1>25 DEF Deadcode, Error, Runner, readyVars, runVars
  <1>26. ASSUME NEW t \in Task, WaitForChildToDie(t)
        PROVE  Runner'
    BY <1>26, BlockTaskRunner DEF WaitForChildToDie, Calling, InTask
  <1>27. ASSUME NEW t \in Task, ExecPause(t)
        PROVE  Runner'
    BY <1>27, BlockTaskRunner DEF ExecPause, InTask
  <1>28. ASSUME NEW t \in Task, UnblockChild(t)
        PROVE  Runner'
    <2> PICK c \in Task : IF CanUnblock(c)
                         THEN /\ Enqueue(c)
                              /\ LockedSection
                              /\ UNCHANGED <<tcbVars, familyVars, waitVars, walkVars, runVars, fault>>
                         ELSE Error(UnblockError(c))
      BY <1>28 DEF UnblockChild, Startable, TypeOK
    <2>1. CASE CanUnblock(c)
      BY <2>1, EnqueueRunner DEF CanUnblock, runVars
    <2>2. CASE ~CanUnblock(c)
      BY <2>2 DEF Error, Runner, readyVars, runVars
    <2> QED
      BY <2>1, <2>2
  <1>29. ASSUME NEW t \in Task, Uwait(t)
        PROVE  Runner'
    <2> PICK c \in Task :
          \/ /\ CanUnblock(c)
             /\ state' = [state EXCEPT ![c] = "READY", ![t] = "WAITING_FOR_DEATH"]
             /\ EnterSchedule(t, "wait")
             /\ UNCHANGED current
          \/ ~CanUnblock(c) /\ Error(UnblockError(c))
      <3>1. Startable(t) \subseteq Task
        BY DEF Startable, TypeOK
      <3> QED
        BY <1>29, <3>1, Zenon DEF Uwait
    <2>1. CASE CanUnblock(c)
      BY <1>29, <2>1 DEF Uwait, Calling, InTask, EnterSchedule, TypeOK, Runner, HandlerPlaces
    <2>2. CASE ~CanUnblock(c)
      BY <2>2 DEF Error, Runner, readyVars, runVars
    <2> QED
      BY <2>1, <2>2
  <1>30. ASSUME NEW t \in Task, Syscall(t)
        PROVE  Runner'
    BY <1>30 DEF Syscall, Runner, readyVars, runVars
  <1>31. CASE UNCHANGED vars
    BY <1>31 DEF vars, Runner, readyVars, runVars
  <1> QED
    BY <1>1, <1>2, <1>3, <1>4, <1>5, <1>6, <1>7, <1>8, <1>9, <1>10, <1>11, <1>12, <1>13, <1>14, <1>15, <1>16, <1>17, <1>18, <1>19, <1>20, <1>21, <1>22, <1>23, <1>24, <1>25, <1>26, <1>27, <1>28, <1>29, <1>30, <1>31, <1>32
    DEF Next, Halted, Step, Schedule, TimerInterrupt, Unblockirq, Service

\* Exactly the task the processor executes is marked RUNNING, whatever list
\* corruption led to the switch that chose it.
THEOREM OneRunnerCorrect == Spec => []OneRunner
  <1>1. Runner => OneRunner
    BY DEF Runner, OneRunner
  <1> QED
    BY TypeInvInit, TypeInvNext, RunnerInit, RunnerNext, <1>1, PTL DEF Spec


-----------------------------------------------------------------------------
(***************************************************************************)
(* The two lock counters.                                                  *)
(***************************************************************************)
\* The unlocks owed by the tasks other than t, and those owed by t.
OwedByOthers(fr, t) == {u \in (Task \ {t}) \X (1..2) : u[2] <= Pending(fr[u[1]])}

LEMMA OwedSplit ==
  ASSUME NEW fr \in [Task -> Frames], NEW t \in Task
  PROVE  /\ IsFiniteSet(OwedByOthers(fr, t))
         /\ Cardinality(UnlocksOwed(fr)) = Cardinality(OwedByOthers(fr, t)) + Pending(fr[t])
  <1> DEFINE Own == {u \in {t} \X (1..2) : u[2] <= Pending(fr[t])}
  <1>1. IsFiniteSet(OwedByOthers(fr, t))
    <2>1. IsFiniteSet(Task \ {t})
      BY TaskAssumption, FS_RemoveElement
    <2>2. IsFiniteSet((Task \ {t}) \X (1..2))
      <3>1. IsFiniteSet({1} \cup {2})
        BY FS_Singleton, FS_AddElement
      <3>2. 1..2 = {1} \cup {2}
        OBVIOUS
      <3> QED
        BY <2>1, <3>1, <3>2, FS_Product
    <2> QED
      BY <2>2, FS_Subset DEF OwedByOthers
  <1>2. Pending(fr[t]) \in 0..2
    BY PendingType
  <1>3. IsFiniteSet(Own) /\ Cardinality(Own) = Pending(fr[t])
    <2>1. CASE Pending(fr[t]) = 0
      <3>1. Own = {}
        BY <2>1
      <3> QED
        BY <2>1, <3>1, FS_EmptySet
    <2>2. CASE Pending(fr[t]) = 1
      <3>1. Own = {<<t, 1>>}
        BY <2>2
      <3> QED
        BY <2>2, <3>1, FS_Singleton
    <2>3. CASE Pending(fr[t]) = 2
      <3>1. Own = {<<t, 1>>} \cup {<<t, 2>>}
        BY <2>3
      <3>2. <<t, 2>> \notin {<<t, 1>>}
        OBVIOUS
      <3>3. IsFiniteSet({<<t, 1>>}) /\ Cardinality({<<t, 1>>}) = 1
        BY FS_Singleton
      <3>4. /\ IsFiniteSet({<<t, 1>>} \cup {<<t, 2>>})
            /\ Cardinality({<<t, 1>>} \cup {<<t, 2>>}) = Cardinality({<<t, 1>>}) + 1
        BY <3>2, <3>3, FS_AddElement
      <3> QED
        BY <2>3, <3>1, <3>3, <3>4
    <2> QED
      BY <1>2, <2>1, <2>2, <2>3
  <1>4. UnlocksOwed(fr) = OwedByOthers(fr, t) \cup Own
    BY DEF UnlocksOwed, OwedByOthers
  <1>5. OwedByOthers(fr, t) \cap Own = {}
    BY DEF OwedByOthers
  <1>6. Cardinality(OwedByOthers(fr, t)) \in Nat
    BY <1>1, FS_CardinalityType
  <1>7. Cardinality(OwedByOthers(fr, t) \cup Own)
          = Cardinality(OwedByOthers(fr, t)) + Cardinality(Own)
              - Cardinality(OwedByOthers(fr, t) \cap Own)
    BY <1>1, <1>3, FS_Union
  <1>8. Cardinality(OwedByOthers(fr, t) \cap Own) = 0
    BY <1>5, FS_EmptySet
  <1> HIDE DEF Own
  <1> QED
    BY <1>1, <1>2, <1>3, <1>4, <1>6, <1>7, <1>8

LEMMA OwedNat ==
  ASSUME NEW fr \in [Task -> Frames]
  PROVE  Cardinality(UnlocksOwed(fr)) \in Nat
  <1>1. /\ IsFiniteSet(OwedByOthers(fr, Boot))
        /\ Cardinality(UnlocksOwed(fr)) = Cardinality(OwedByOthers(fr, Boot)) + Pending(fr[Boot])
    BY OwedSplit, TaskAssumption
  <1>2. Cardinality(OwedByOthers(fr, Boot)) \in Nat
    BY <1>1, FS_CardinalityType
  <1>3. Pending(fr[Boot]) \in 0..2
    BY PendingType, TaskAssumption
  <1> QED
    BY <1>1, <1>2, <1>3

\* A task that gets or unwinds a frame changes the sum by its own share only.
LEMMA OwedChange ==
  ASSUME NEW fr \in [Task -> Frames], NEW t \in Task, NEW f \in Frames
  PROVE  Cardinality(UnlocksOwed([fr EXCEPT ![t] = f]))
           = Cardinality(UnlocksOwed(fr)) - Pending(fr[t]) + Pending(f)
  <1> DEFINE fr2 == [fr EXCEPT ![t] = f]
  <1>1. fr2 \in [Task -> Frames] /\ fr2[t] = f
    OBVIOUS
  <1>2. OwedByOthers(fr2, t) = OwedByOthers(fr, t)
    BY DEF OwedByOthers
  <1>3. Cardinality(OwedByOthers(fr, t)) \in Nat
    BY OwedSplit, FS_CardinalityType
  <1>4. Cardinality(UnlocksOwed(fr)) = Cardinality(OwedByOthers(fr, t)) + Pending(fr[t])
    BY OwedSplit
  <1>5. Cardinality(UnlocksOwed(fr2)) = Cardinality(OwedByOthers(fr2, t)) + Pending(f)
    BY <1>1, OwedSplit
  <1>6. Pending(fr[t]) \in Int /\ Pending(f) \in Int
    BY PendingType
  <1> QED
    BY <1>2, <1>3, <1>4, <1>5, <1>6

LEMMA OwedAtLeast ==
  ASSUME NEW fr \in [Task -> Frames], NEW t \in Task, fr[t] # "none"
  PROVE  Cardinality(UnlocksOwed(fr)) \in Nat \ {0}
  <1>1. Cardinality(OwedByOthers(fr, t)) \in Nat
    BY OwedSplit, FS_CardinalityType
  <1>2. Pending(fr[t]) \in 1..2
    BY DEF Pending
  <1> QED
    BY <1>1, <1>2, OwedSplit

LEMMA LockInvInit == Init => LockInv
  <1> SUFFICES ASSUME Init
               PROVE  LockInv
    OBVIOUS
  <1>1. UnlocksOwed(frame) = {}
    BY DEF Init, UnlocksOwed, Pending
  <1>2. Balance
    BY <1>1, FS_EmptySet DEF Init, Balance, InHandler, HandlerPlaces
  <1> QED
    BY <1>2, TaskAssumption
    DEF Init, LockInv, RunnerOwesNothing, BootOwes, Postponed, Uninterrupted, InHandler, HandlerPlaces

LEMMA LockInvSame ==
  ASSUME LockInv, UNCHANGED <<irqcount, postpone, flag, ints, frame, current, cpu>>
  PROVE  LockInv'
  BY DEF LockInv, Balance, RunnerOwesNothing, BootOwes, Postponed, Uninterrupted, InHandler

\* Inside the locks of a handler only the place moves on.
LEMMA LockInvHandler ==
  ASSUME LockInv, cpu \in HandlerPlaces, cpu # "unlock", cpu' \in HandlerPlaces,
         UNCHANGED <<irqcount, postpone, ints, frame, current>>,
         flag' => cpu' = "unlock"
  PROVE  LockInv'
  BY DEF LockInv, Balance, RunnerOwesNothing, BootOwes, Postponed, Uninterrupted, InHandler, HandlerPlaces

LEMMA LockedSectionLocks ==
  ASSUME LockInv, cpu = "task", LockedSection, UNCHANGED <<frame, current, cpu>>
  PROVE  LockInv'
  BY DEF LockInv, LockedSection, Balance, RunnerOwesNothing, BootOwes, Postponed, Uninterrupted, InHandler,
         HandlerPlaces

LEMMA LockStuffLocks ==
  ASSUME TypeOK, Runner, LockInv, Interruptible, LockStuff, cpu' \in HandlerPlaces \ {"unlock"},
         UNCHANGED <<frame, current>>
  PROVE  LockInv'
  <1>1. InHandler = 0 /\ InHandler' = 1
    BY DEF Interruptible, InHandler, HandlerPlaces
  <1>2. Cardinality(UnlocksOwed(frame)) \in Int
    BY OwedNat DEF TypeOK
  <1>3. Balance'
    BY <1>1, <1>2 DEF LockInv, Balance, LockStuff
  <1>4. Postponed'
    BY <1>1 DEF LockInv, Postponed, LockStuff, Interruptible
  <1>5. RunnerOwesNothing' /\ BootOwes' /\ Uninterrupted'
    BY DEF LockInv, RunnerOwesNothing, BootOwes, Uninterrupted, LockStuff, Interruptible, Runner, HandlerPlaces
  <1> QED
    BY <1>3, <1>4, <1>5 DEF LockInv

\* block_task and uwait: the caller comes to owe Pending(f) unlocks.
LEMMA EnterScheduleLocks ==
  ASSUME TypeOK, LockInv, NEW t \in Task, cpu = "task", current = t,
         NEW f \in {"block", "wait"}, EnterSchedule(t, f), UNCHANGED current
  PROVE  LockInv'
  <1>1. frame[t] = "none" /\ f \in Frames
    BY TaskAssumption DEF LockInv, RunnerOwesNothing, Frames
  <1>2. Pending("none") = 0 /\ Pending(f) \in Int
    BY <1>1, PendingType DEF Pending
  <1>3. Cardinality(UnlocksOwed(frame')) = Cardinality(UnlocksOwed(frame)) + Pending(f)
    <2>1. frame' = [frame EXCEPT ![t] = f]
      BY DEF EnterSchedule
    <2>2. Cardinality(UnlocksOwed(frame)) \in Int
      BY OwedNat DEF TypeOK
    <2>3. Cardinality(UnlocksOwed([frame EXCEPT ![t] = f]))
            = Cardinality(UnlocksOwed(frame)) - Pending(frame[t]) + Pending(f)
      BY <1>1, OwedChange DEF TypeOK
    <2> QED
      BY <1>1, <1>2, <2>1, <2>2, <2>3
  <1>4. InHandler = 0 /\ InHandler' = 0
    BY DEF InHandler, HandlerPlaces, EnterSchedule
  <1>5. Balance'
    <2>1. Cardinality(UnlocksOwed(frame)) \in Int
      BY OwedNat DEF TypeOK
    <2> QED
      BY <1>2, <1>3, <1>4, <2>1 DEF LockInv, Balance, EnterSchedule
  <1>6. RunnerOwesNothing'
    BY DEF RunnerOwesNothing, EnterSchedule, HandlerPlaces
  <1>7. BootOwes'
    BY <1>1 DEF LockInv, BootOwes, EnterSchedule, TypeOK
  <1>8. Postponed' /\ Uninterrupted'
    BY <1>4 DEF LockInv, Postponed, Uninterrupted, EnterSchedule
  <1> QED
    BY <1>5, <1>6, <1>7, <1>8 DEF LockInv

\* The task that schedule() returns to pays what it owes.
LEMMA ResumeLocks ==
  ASSUME TypeOK, Runner, LockInv, NEW STATE t, t \in Task, cpu \in {"dispatch", "idle"}, Resume(t)
  PROVE  LockInv'
  <1>1. InHandler = 0 /\ InHandler' = 0
    BY DEF InHandler, HandlerPlaces, Resume
  <1>2. Cardinality(UnlocksOwed(frame')) = Cardinality(UnlocksOwed(frame)) - Pending(frame[t])
    <2>1. frame' = [frame EXCEPT ![t] = "none"] /\ "none" \in Frames
      BY DEF Resume, Frames
    <2>2. Pending("none") = 0
      BY DEF Pending
    <2>3. Cardinality(UnlocksOwed(frame)) \in Int /\ Pending(frame[t]) \in Int
      BY OwedNat, PendingType DEF TypeOK
    <2>4. Cardinality(UnlocksOwed([frame EXCEPT ![t] = "none"]))
            = Cardinality(UnlocksOwed(frame)) - Pending(frame[t]) + Pending("none")
      BY <2>1, OwedChange DEF TypeOK
    <2> QED
      BY <2>1, <2>2, <2>3, <2>4
  <1>3. Balance'
    <2>1. Cardinality(UnlocksOwed(frame)) \in Int /\ Pending(frame[t]) \in Int
      BY OwedNat, PendingType DEF TypeOK
    <2> QED
      BY <1>1, <1>2, <2>1 DEF LockInv, Balance, Resume
  <1>4. RunnerOwesNothing'
    BY DEF RunnerOwesNothing, Resume, TypeOK
  <1>5. BootOwes'
    <2>1. frame[Boot] # "none"
      BY TaskAssumption DEF LockInv, BootOwes, Runner
    <2> QED
      BY <2>1, TaskAssumption DEF BootOwes, Resume, TypeOK
  <1>6. Postponed' /\ Uninterrupted'
    BY <1>1 DEF LockInv, Postponed, Uninterrupted, Resume
  <1> QED
    BY <1>3, <1>4, <1>5, <1>6 DEF LockInv

LEMMA SwitchToLocks ==
  ASSUME TypeOK, Runner, LockInv, NEW STATE old, NEW STATE t, t \in Task, NEW STATE rest,
         cpu \in {"dispatch", "idle"}, SwitchTo(old, t, rest)
  PROVE  LockInv'
  <1>1. CASE SwitchFails(old)
    BY <1>1, LockInvSame DEF SwitchTo, Error, lockVars, runVars
  <1>2. CASE ~SwitchFails(old)
    BY <1>2, ResumeLocks DEF SwitchTo
  <1> QED
    BY <1>1, <1>2

LEMMA LockInvNext == TypeInv /\ Runner /\ LockInv /\ [Next]_vars => LockInv'
  <1> SUFFICES ASSUME TypeInv, Runner, LockInv, [Next]_vars
               PROVE  LockInv'
    OBVIOUS
  <1> TypeOK /\ SomeTask
    BY DEF TypeInv
  <1>1. CASE ReapTask
    BY <1>1, LockInvSame DEF ReapTask, Error, lockVars, runVars
  <1>2. CASE ReapDone
    BY <1>2 DEF ReapDone, LockInv, Balance, RunnerOwesNothing, BootOwes, Postponed, Uninterrupted, InHandler, HandlerPlaces, lockVars
  <1>3. CASE DispatchReady
    BY <1>3, SwitchToLocks DEF DispatchReady, TypeOK, TaskOrNull
  <1>4. CASE DispatchSame
    BY <1>4, ResumeLocks DEF DispatchSame, SomeTask
  <1>5. CASE DispatchBury
    <2>1. parent[current] \in Task
      BY <1>5 DEF DispatchBury, MotherWaits, SomeTask, TypeOK, TaskOrNull
    <2> QED
      BY <1>5, <2>1, ResumeLocks DEF DispatchBury
  <1>6. CASE DispatchIdle
    <2>1. CASE state[current] = "READY"
      BY <1>6, <2>1, LockInvSame DEF DispatchIdle, Error, lockVars, runVars
    <2>2. CASE state[current] # "READY"
      BY <1>6, <2>2 DEF DispatchIdle, LockInv, Balance, RunnerOwesNothing, BootOwes, Postponed, Uninterrupted, InHandler, HandlerPlaces, lockVars
    <2> QED
      BY <2>1, <2>2
  <1>7. CASE IdleExit
    <2>1. CASE first # idler
      BY <1>7, <2>1, SwitchToLocks DEF IdleExit, TypeOK, TaskOrNull
    <2>2. CASE first = idler
      BY <1>7, <2>2, ResumeLocks DEF IdleExit, SomeTask
    <2> QED
      BY <2>1, <2>2
  <1>8. CASE Tick
    BY <1>8, LockStuffLocks DEF Tick, HandlerPlaces
  <1>9. CASE PitSleeper
    BY <1>9, LockInvSame DEF PitSleeper, Error, lockVars, runVars
  <1>10. CASE PitSleepersDone
    BY <1>10 DEF PitSleepersDone, LockInv, Balance, RunnerOwesNothing, BootOwes, Postponed, Uninterrupted, InHandler, HandlerPlaces, lockVars
  <1>11. CASE PitWaiter
    BY <1>11, LockInvSame DEF PitWaiter, Error, lockVars, runVars
  <1>12. CASE PitSlice
    BY <1>12, LockInvHandler DEF PitSlice, HandlerPlaces
  <1>13. CASE UnblockWaiter
    BY <1>13, LockInvSame DEF UnblockWaiter, Error, lockVars, runVars
  <1>14. CASE UnblockirqDone
    BY <1>14 DEF UnblockirqDone, LockInv, Balance, RunnerOwesNothing, BootOwes, Postponed, Uninterrupted, InHandler, HandlerPlaces, lockVars
  <1>15. CASE HandlerUnlock
    <2>1. CASE flag /\ (current = NULL \/ state[current] = "READY")
      BY <1>15, <2>1, LockInvSame DEF HandlerUnlock, Error, lockVars, runVars
    <2>2. CASE flag /\ current # NULL /\ state[current] # "READY"
      <3>1. /\ postpone' = postpone - 1 /\ flag' = FALSE /\ cpu' = "schedule"
            /\ frame' = [frame EXCEPT ![current] = "irq"]
            /\ UNCHANGED <<irqcount, ints, current>>
        BY <1>15, <2>2 DEF HandlerUnlock
      <3>2. current \in Task /\ frame[current] = "none" /\ "irq" \in Frames
        BY <1>15, <2>2 DEF HandlerUnlock, LockInv, RunnerOwesNothing, HandlerPlaces, TypeOK, TaskOrNull, Frames
      <3>3. InHandler = 1 /\ InHandler' = 0
        BY <1>15, <3>1 DEF HandlerUnlock, InHandler, HandlerPlaces
      <3>4. Cardinality(UnlocksOwed(frame)) \in Int
        BY OwedNat DEF TypeOK
      <3>5. Pending("none") = 0 /\ Pending("irq") = 1
        BY DEF Pending
      <3>6. Cardinality(UnlocksOwed(frame')) = Cardinality(UnlocksOwed(frame)) + 1
        <4>1. Cardinality(UnlocksOwed([frame EXCEPT ![current] = "irq"]))
                = Cardinality(UnlocksOwed(frame)) - Pending(frame[current]) + Pending("irq")
          BY <3>2, OwedChange DEF TypeOK
        <4> QED
          BY <3>1, <3>2, <3>4, <3>5, <4>1
      <3>7. Balance'
        BY <3>1, <3>3, <3>4, <3>6 DEF LockInv, Balance
      <3>8. RunnerOwesNothing' /\ Uninterrupted'
        BY <1>15, <3>1 DEF HandlerUnlock, LockInv, RunnerOwesNothing, Uninterrupted, HandlerPlaces
      <3>9. BootOwes'
        BY <3>1, <3>2 DEF LockInv, BootOwes, TypeOK
      <3>10. Postponed'
        BY <3>1, <3>3 DEF LockInv, Postponed
      <3> QED
        BY <3>7, <3>8, <3>9, <3>10 DEF LockInv
    <2>3. CASE ~flag
      <3>1. /\ postpone' = postpone - 1 /\ flag' = FALSE /\ irqcount' = irqcount - 1
            /\ cpu' = IF current = NULL THEN "idle" ELSE "task"
            /\ ints' = (current # NULL)
            /\ UNCHANGED <<frame, current>>
        BY <1>15, <2>3 DEF HandlerUnlock
      <3>2. InHandler = 1 /\ InHandler' = 0
        BY <1>15, <3>1 DEF HandlerUnlock, InHandler, HandlerPlaces
      <3>3. Cardinality(UnlocksOwed(frame)) \in Int
        BY OwedNat DEF TypeOK
      <3>4. Balance'
        BY <3>1, <3>2, <3>3 DEF LockInv, Balance
      <3>5. RunnerOwesNothing' /\ BootOwes' /\ Uninterrupted'
        BY <1>15, <3>1 DEF HandlerUnlock, LockInv, RunnerOwesNothing, BootOwes, Uninterrupted, HandlerPlaces
      <3>6. Postponed'
        BY <3>1, <3>2 DEF LockInv, Postponed
      <3> QED
        BY <3>4, <3>5, <3>6 DEF LockInv
    <2> QED
      BY <2>1, <2>2, <2>3
  <1>16. ASSUME NEW irq \in Irq, DeviceInterrupt(irq)
        PROVE  LockInv'
    BY <1>16, LockStuffLocks DEF DeviceInterrupt, HandlerPlaces
  <1>17. ASSUME NEW t \in Task, NanoSleep(t)
        PROVE  LockInv'
    BY <1>17, LockedSectionLocks DEF NanoSleep, Calling, InTask
  <1>18. ASSUME NEW t \in Task, NanoSleepBlock(t)
        PROVE  LockInv'
    BY <1>18, EnterScheduleLocks DEF NanoSleepBlock, InTask, BlockTask
  <1>19. ASSUME NEW t \in Task, WaitForIrq(t)
        PROVE  LockInv'
    BY <1>19, LockedSectionLocks DEF WaitForIrq, Calling, InTask
  <1>20. ASSUME NEW t \in Task, WaitForIrqBlock(t)
        PROVE  LockInv'
    BY <1>20, EnterScheduleLocks DEF WaitForIrqBlock, InTask, BlockTask
  <1>21. ASSUME NEW t \in Task, TimeoutFunction(t)
        PROVE  LockInv'
    BY <1>21, LockInvSame DEF TimeoutFunction, Error, lockVars, runVars
  <1>22. ASSUME NEW t \in Task, Ckproc(t)
        PROVE  LockInv'
    BY <1>22, LockInvSame DEF Ckproc, lockVars
  <1>23. ASSUME NEW t \in Task, CkprocLink(t)
        PROVE  LockInv'
    BY <1>23, LockInvSame DEF CkprocLink, lockVars
  <1>32. ASSUME NEW t \in Task, CkprocLast(t)
        PROVE  LockInv'
    BY <1>32, LockInvSame DEF CkprocLast, lockVars
  <1>24. ASSUME NEW t \in Task, ProcExit(t)
        PROVE  LockInv'
    <2>1. t # Boot /\ current = t /\ cpu = "task"
      BY <1>24, CallAssumption DEF ProcExit, Calling, Calls, InTask
    <2>2. frame[Boot] # "none"
      BY <2>1 DEF LockInv, BootOwes
    <2>3. irqcount # 0
      <3>1. Cardinality(UnlocksOwed(frame)) \in Nat \ {0}
        BY <2>2, OwedAtLeast, TaskAssumption DEF TypeOK
      <3>2. InHandler = 0
        BY <2>1 DEF InHandler, HandlerPlaces
      <3> QED
        BY <3>1, <3>2 DEF LockInv, Balance
    <2>4. /\ cpu' = "schedule" /\ ints' = (irqcount = 0)
          /\ UNCHANGED <<irqcount, postpone, flag, current, frame>>
      BY <1>24 DEF ProcExit, LockedSection
    <2> QED
      BY <2>1, <2>2, <2>3, <2>4 DEF LockInv, Balance, RunnerOwesNothing, BootOwes, Postponed, Uninterrupted, InHandler, HandlerPlaces
  <1>25. ASSUME NEW t \in Task, Deadcode(t)
        PROVE  LockInv'
    BY <1>25, LockInvSame DEF Deadcode, Error, lockVars, runVars
  <1>26. ASSUME NEW t \in Task, WaitForChildToDie(t)
        PROVE  LockInv'
    BY <1>26, EnterScheduleLocks DEF WaitForChildToDie, Calling, InTask, BlockTask
  <1>27. ASSUME NEW t \in Task, ExecPause(t)
        PROVE  LockInv'
    BY <1>27, EnterScheduleLocks DEF ExecPause, InTask, BlockTask
  <1>28. ASSUME NEW t \in Task, UnblockChild(t)
        PROVE  LockInv'
    <2>1. CASE fault' = fault /\ LockedSection /\ UNCHANGED runVars
      BY <1>28, <2>1, LockedSectionLocks DEF UnblockChild, Calling, InTask, runVars
    <2>2. CASE UNCHANGED <<lockVars, runVars>>
      BY <2>2, LockInvSame DEF lockVars, runVars
    <2> QED
      BY <1>28, <2>1, <2>2 DEF UnblockChild, Error
  <1>29. ASSUME NEW t \in Task, Uwait(t)
        PROVE  LockInv'
    <2>1. CASE EnterSchedule(t, "wait") /\ UNCHANGED current
      BY <1>29, <2>1, EnterScheduleLocks DEF Uwait, Calling, InTask
    <2>2. CASE UNCHANGED <<lockVars, runVars>>
      BY <2>2, LockInvSame DEF lockVars, runVars
    <2> QED
      BY <1>29, <2>1, <2>2 DEF Uwait, Error
  <1>30. ASSUME NEW t \in Task, Syscall(t)
        PROVE  LockInv'
    BY <1>30 DEF Syscall, Calling, InTask, LockInv, Balance, RunnerOwesNothing, BootOwes, Postponed, Uninterrupted, InHandler, HandlerPlaces, runVars
  <1>31. CASE UNCHANGED vars
    BY <1>31, LockInvSame DEF vars, lockVars, runVars
  <1> QED
    BY <1>1, <1>2, <1>3, <1>4, <1>5, <1>6, <1>7, <1>8, <1>9, <1>10, <1>11, <1>12, <1>13, <1>14, <1>15, <1>16, <1>17, <1>18, <1>19, <1>20, <1>21, <1>22, <1>23, <1>24, <1>25, <1>26, <1>27, <1>28, <1>29, <1>30, <1>31, <1>32
    DEF Next, Halted, Step, Schedule, TimerInterrupt, Unblockirq, Service

LEMMA LockInvAlways == Spec => [](TypeInv /\ Runner /\ LockInv)
  BY TypeInvInit, TypeInvNext, RunnerInit, RunnerNext, LockInvInit, LockInvNext, PTL DEF Spec

\* IRQ_disable_counter is always the number of unlocks owed by all the suspended
\* tasks together, plus the one of the handler that is running.
THEOREM UnlocksBalanceCorrect == Spec => []UnlocksBalance
  <1>1. LockInv => UnlocksBalance
    BY DEF LockInv, Balance, InHandler, UnlocksBalance
  <1> QED
    BY LockInvAlways, <1>1, PTL

\* No interrupt is taken in schedule(), also not in the one that PROC_EXIT enters
\* after giving its lock back: the boot task, which never exits, always owes one.
THEOREM ScheduleUninterruptedCorrect == Spec => []ScheduleUninterrupted
  <1>1. LockInv => ScheduleUninterrupted
    BY DEF LockInv, Uninterrupted, ScheduleUninterrupted
  <1> QED
    BY LockInvAlways, <1>1, PTL

\* Postponement is raised exactly while a handler runs, and a switch asked for in
\* it is made or refused before it ends.
THEOREM PostponeBalancedCorrect == Spec => []PostponeBalanced
  <1>1. LockInv => PostponeBalanced
    BY DEF LockInv, Postponed, InHandler, PostponeBalanced
  <1> QED
    BY LockInvAlways, <1>1, PTL

-----------------------------------------------------------------------------
(***************************************************************************)
(* Waiting for a death.                                                    *)
(***************************************************************************)
\* A parent has somebody to hear of: a child that is not dead, or one that is dead
\* and on DEAD_TASKS, or that schedule() is about to put there.
Due(c) ==
    \/ state[c] \notin {"DEAD", "BURIED"}
    \/ state[c] = "DEAD" /\ (dead = c \/ (cpu = "schedule" /\ current = c))

\* The inductive form of MotherHasChild: it follows the death through schedule(), and
\* no two tasks have a child in common.
MotherInv ==
    /\ \A p, c \in Task : c \in children[p] => parent[c] = p
    /\ \A p \in Task : state[p] = "WAITING_FOR_DEATH" => \E c \in children[p] : Due(c)

\* Nobody dies, waits for a death or is buried by the step.
NoDeath ==
    /\ cpu # "schedule" /\ UNCHANGED <<parent, children, dead>>
    /\ \A u \in Task : state'[u] = state[u] \/ state'[u] \notin {"DEAD", "BURIED", "WAITING_FOR_DEATH"}

LEMMA NoDeathMother == ASSUME TypeOK, MotherInv, NoDeath PROVE MotherInv'
  <1>1. \A p \in Task : state'[p] = "WAITING_FOR_DEATH" => state[p] = "WAITING_FOR_DEATH"
    BY DEF NoDeath
  <1>2. \A c \in Task : Due(c) => Due(c)'
    BY DEF NoDeath, Due
  <1> QED
    BY <1>1, <1>2 DEF TypeOK, MotherInv, NoDeath

LEMMA BlockNoDeath ==
  ASSUME TypeOK, NEW t \in Task, NEW reason \in {"WAITING", "WAITING_FOR_IRQ", "PAUSED"},
         cpu = "task", BlockTask(t, reason), UNCHANGED <<familyVars, dead>>
  PROVE  NoDeath
  BY DEF TypeOK, BlockTask, NoDeath, familyVars

LEMMA SwitchNoDeath ==
  ASSUME TypeOK, NEW STATE old, NEW STATE t, NEW STATE rest, cpu # "schedule", SwitchTo(old, t, rest)
  PROVE  NoDeath
  <1>1. CASE SwitchFails(old)
    BY <1>1 DEF SwitchTo, Error, NoDeath, familyVars, readyVars, runVars
  <1>2. CASE ~SwitchFails(old)
    <2>1. \A u \in Task : state'[u] = state[u] \/ state'[u] \in {"READY", "RUNNING"}
      BY <1>2 DEF SwitchTo, SwitchMarks, TypeOK
    <2> QED
      BY <1>2, <2>1 DEF SwitchTo, Resume, NoDeath, familyVars
  <1> QED
    BY <1>1, <1>2

\* reap() wakes the parent with the news before it takes the child from it.
LEMMA ReapMother == ASSUME TypeOK, MotherInv, ReapTask PROVE MotherInv'
  <1>1. CASE parent[dead] # NULL /\ dead \notin children[parent[dead]]
    BY <1>1 DEF ReapTask, Error, MotherInv, Due, familyVars, readyVars, runVars
  <1>2. CASE ~(parent[dead] # NULL /\ dead \notin children[parent[dead]])
    <2>1. /\ dead \in Task /\ cpu = "schedule" /\ UNCHANGED <<parent, cpu, current>>
          /\ children' = IF parent[dead] = NULL THEN children
                         ELSE [children EXCEPT ![parent[dead]] = @ \ {dead}]
          /\ IF WakesMother(dead) THEN Enqueue(parent[dead]) ELSE UNCHANGED readyVars
      BY <1>2 DEF ReapTask, TypeOK, TaskOrNull
    <2>2. \A p \in Task : children'[p] \subseteq children[p] /\ children[p] \ children'[p] \subseteq {dead}
      BY <2>1 DEF TypeOK
    <2>3. \A u \in Task : \/ state'[u] = state[u]
                          \/ u = parent[dead] /\ state'[u] = "READY"
      BY <2>1 DEF Enqueue, readyVars, TypeOK
    <2>4. ASSUME NEW p \in Task, state'[p] = "WAITING_FOR_DEATH"
          PROVE  \E c \in children'[p] : Due(c)'
      <3>1. state[p] = "WAITING_FOR_DEATH"
        BY <2>3, <2>4
      <3>2. PICK c \in children[p] : Due(c)
        BY <3>1 DEF MotherInv
      <3>3. c \in Task /\ parent[c] = p
        BY DEF MotherInv, TypeOK
      <3>4. c # dead
        <4> SUFFICES ASSUME c = dead
                     PROVE  FALSE
          OBVIOUS
        <4>1. WakesMother(dead)
          BY <3>1, <3>2, <3>3, TaskAssumption DEF Due, WakesMother
        <4> QED
          BY <2>1, <2>4, <3>3, <4>1 DEF Enqueue, TypeOK
      <3>5. c \in children'[p]
        BY <2>2, <3>4
      <3>6. Due(c)'
        BY <2>1, <2>3, <3>2, <3>3, <3>4 DEF Due
      <3> QED
        BY <3>5, <3>6
    <2> QED
      BY <2>1, <2>2, <2>4 DEF MotherInv
  <1> QED
    BY <1>1, <1>2

\* The current task, if it is dead, joins DEAD_TASKS, which reap() has emptied.
LEMMA ReapDoneMother == ASSUME TypeOK, MotherInv, ReapDone PROVE MotherInv'
  <1>1. dead = NULL /\ UNCHANGED <<state, parent, children, current>>
        /\ (state[current] = "DEAD" => dead' = current)
    BY DEF ReapDone, familyVars
  <1>2. \A c \in Task : Due(c) => Due(c)'
    BY <1>1, TaskAssumption DEF Due
  <1> QED
    BY <1>1, <1>2 DEF MotherInv, TypeOK

\* A buried child's mother is the one that runs next.
LEMMA BuryMother == ASSUME TypeOK, MotherInv, DispatchBury PROVE MotherInv'
  <1>1. /\ state' = [state EXCEPT ![current] = "BURIED", ![parent[current]] = "RUNNING"]
        /\ cpu = "dispatch" /\ UNCHANGED <<parent, children, dead>>
    BY DEF DispatchBury, Resume, familyVars
  <1>2. ASSUME NEW p \in Task, state'[p] = "WAITING_FOR_DEATH"
        PROVE  \E c \in children[p] : Due(c)'
    <2>1. state[p] = "WAITING_FOR_DEATH" /\ p # parent[current]
      BY <1>1, <1>2 DEF TypeOK
    <2>2. PICK c \in children[p] : Due(c)
      BY <2>1 DEF MotherInv
    <2>3. c \in Task /\ parent[c] = p
      BY DEF MotherInv, TypeOK
    <2>4. c # current
      BY <2>1, <2>3
    <2> QED
      BY <1>1, <2>2, <2>3, <2>4 DEF Due, TypeOK
  <1> QED
    BY <1>1, <1>2 DEF MotherInv

\* The mother of a task that has just been made is its maker.
LEMMA CkprocMother == ASSUME TypeOK, MotherInv, NEW t \in Task, Ckproc(t) PROVE MotherInv'
  <1>1. PICK m \in Unborn :
            /\ state' = [state EXCEPT ![m] = "READY"]
            /\ parent' = [parent EXCEPT ![m] = t]
            /\ children' = [children EXCEPT ![t] = @ \cup {m}]
    BY DEF Ckproc
  <1>2. cpu = "task" /\ UNCHANGED <<dead, cpu, current>>
    BY DEF Ckproc, Calling, InTask
  <1>3. m \in Task /\ parent[m] = NULL
    BY DEF Unborn
  <1>4. ASSUME NEW p \in Task, NEW c \in Task, c \in children'[p]
        PROVE  parent'[c] = p
    <2>1. (c \in children[p] /\ c # m) \/ (c = m /\ p = t)
      BY <1>1, <1>3, <1>4, TaskAssumption DEF MotherInv, TypeOK
    <2> QED
      BY <1>1, <1>3, <2>1 DEF MotherInv, TypeOK
  <1>5. ASSUME NEW p \in Task, state'[p] = "WAITING_FOR_DEATH"
        PROVE  \E c \in children'[p] : Due(c)'
    <2>1. state[p] = "WAITING_FOR_DEATH"
      BY <1>1, <1>5 DEF TypeOK
    <2>2. PICK c \in children[p] : Due(c)
      BY <2>1 DEF MotherInv
    <2>3. c \in Task /\ c \in children'[p]
      BY <1>1, <2>2 DEF TypeOK
    <2> QED
      BY <1>1, <1>2, <2>2, <2>3 DEF Due, TypeOK
  <1> QED
    BY <1>4, <1>5 DEF MotherInv

\* uwait starts the child that its caller waits for, in one step.
LEMMA UwaitMother == ASSUME TypeOK, Runner, MotherInv, NEW t \in Task, Uwait(t) PROVE MotherInv'
  <1>1. PICK c \in Startable(t) :
            \/ /\ state' = [state EXCEPT ![c] = "READY", ![t] = "WAITING_FOR_DEATH"]
               /\ UNCHANGED <<familyVars, dead, current>>
            \/ Error(UnblockError(c))
    BY DEF Uwait
  <1>2. cpu = "task" /\ state[t] = "RUNNING"
    BY DEF Uwait, Calling, InTask, Runner
  <1>3. c \in Task /\ c \in children[t] /\ state[c] = "PAUSED" /\ c # t
    BY <1>2 DEF Startable, TypeOK
  <1>4. CASE Error(UnblockError(c))
    BY <1>4 DEF Error, MotherInv, Due, familyVars, readyVars, runVars
  <1>5. CASE /\ state' = [state EXCEPT ![c] = "READY", ![t] = "WAITING_FOR_DEATH"]
             /\ UNCHANGED <<familyVars, dead, current>>
    <2>1. \A u \in Task : Due(u) => Due(u)'
      BY <1>2, <1>3, <1>5 DEF Due, TypeOK
    <2>2. \A p \in Task : state'[p] = "WAITING_FOR_DEATH" => state[p] = "WAITING_FOR_DEATH" \/ p = t
      BY <1>5 DEF TypeOK
    <2>3. Due(c)'
      BY <1>3, <1>5 DEF Due, TypeOK
    <2> QED
      BY <1>3, <1>5, <2>1, <2>2, <2>3 DEF MotherInv, TypeOK, familyVars
  <1> QED
    BY <1>1, <1>4, <1>5

LEMMA MotherNext ==
  ASSUME "wait" \notin BootCalls \cup TaskCalls, TypeInv, Runner, MotherInv, [Next]_vars
  PROVE  MotherInv'
  <1> TypeOK /\ SomeTask
    BY DEF TypeInv
  <1> USE DEF NoDeath, familyVars, readyVars, runVars
  <1>1. CASE Schedule
    <2>1. CASE DispatchReady
      BY <2>1, SwitchNoDeath, NoDeathMother DEF DispatchReady
    <2>2. CASE DispatchSame \/ DispatchIdle
      BY <2>2, NoDeathMother DEF DispatchSame, Resume, DispatchIdle, Error
    <2>3. CASE IdleExit
      <3>1. CASE first # idler
        BY <2>3, <3>1, SwitchNoDeath, NoDeathMother DEF IdleExit
      <3>2. CASE first = idler
        BY <2>3, <3>2, NoDeathMother DEF IdleExit, Resume, TypeOK
      <3> QED
        BY <3>1, <3>2
    <2> QED
      BY <1>1, <2>1, <2>2, <2>3, ReapMother, ReapDoneMother, BuryMother DEF Schedule
  <1>2. CASE TimerInterrupt \/ Unblockirq \/ HandlerUnlock
    <2>1. cpu # "schedule" /\ UNCHANGED <<parent, children, dead>>
      BY <1>2 DEF TimerInterrupt, Unblockirq, Interruptible, Tick, PitSleeper, PitSleepersDone, PitWaiter,
                  PitSlice, DeviceInterrupt, UnblockWaiter, UnblockirqDone, HandlerUnlock, Error
    <2>2. UNCHANGED state \/ Enqueue(walk)
      BY <1>2 DEF TimerInterrupt, Unblockirq, Tick, PitSleeper, PitSleepersDone, PitWaiter,
                  PitSlice, DeviceInterrupt, UnblockWaiter, UnblockirqDone, HandlerUnlock, Error
    <2> QED
      BY <2>1, <2>2, NoDeathMother DEF Enqueue, TypeOK
  <1>3. ASSUME NEW t \in Task, Service(t)
        PROVE  MotherInv'
    <2>1. cpu = "task"
      BY <1>3 DEF Service, NanoSleep, NanoSleepBlock, WaitForIrq, WaitForIrqBlock, TimeoutFunction, Ckproc,
                  CkprocLink, CkprocLast, ProcExit, Deadcode, WaitForChildToDie, ExecPause, UnblockChild, Uwait,
                  Syscall, Calling, InTask
    <2>2. CASE NanoSleep(t) \/ WaitForIrq(t) \/ TimeoutFunction(t) \/ CkprocLink(t) \/ CkprocLast(t)
                  \/ Deadcode(t) \/ Syscall(t)
      <3>1. UNCHANGED <<state, parent, children, dead>>
        BY <2>2 DEF NanoSleep, WaitForIrq, TimeoutFunction, CkprocLink, CkprocLast, Deadcode, Syscall, Error
      <3> QED
        BY <2>1, <3>1, NoDeathMother
    <2>3. CASE NanoSleepBlock(t) \/ WaitForIrqBlock(t) \/ ExecPause(t)
      BY <2>1, <2>3, BlockNoDeath, NoDeathMother DEF NanoSleepBlock, WaitForIrqBlock, ExecPause
    <2>4. CASE UnblockChild(t)
      <3>1. PICK c : (Enqueue(c) /\ UNCHANGED <<parent, children, dead>>) \/ Error(UnblockError(c))
        BY <2>4 DEF UnblockChild
      <3>2. CASE Error(UnblockError(c))
        BY <2>1, <3>2, NoDeathMother DEF Error
      <3>3. CASE Enqueue(c) /\ UNCHANGED <<parent, children, dead>>
        BY <2>1, <3>3, NoDeathMother DEF Enqueue, TypeOK
      <3> QED
        BY <3>1, <3>2, <3>3
    <2>5. CASE ProcExit(t)
      <3>1. /\ state' = [state EXCEPT ![t] = "DEAD"] /\ current = t
            /\ cpu' = "schedule" /\ UNCHANGED <<parent, children, dead, current>>
        BY <2>5 DEF ProcExit, Calling, InTask
      <3>2. \A c \in Task : Due(c) => Due(c)'
        BY <2>1, <3>1 DEF Due, TypeOK
      <3>3. \A p \in Task : state'[p] = "WAITING_FOR_DEATH" => state[p] = "WAITING_FOR_DEATH"
        BY <3>1 DEF TypeOK
      <3> QED
        BY <3>1, <3>2, <3>3 DEF MotherInv, TypeOK
    <2>6. ~WaitForChildToDie(t)
      BY DEF WaitForChildToDie, Calling, Calls
    <2> QED
      BY <1>3, <2>2, <2>3, <2>4, <2>5, <2>6, CkprocMother, UwaitMother DEF Service
  <1>4. CASE UNCHANGED vars
    BY <1>4 DEF vars, MotherInv, Due
  <1> QED
    BY <1>1, <1>2, <1>3, <1>4 DEF Next, Halted, Step

\* Where children are waited for with uwait only, a mother asleep has a child that can
\* still die or that reap() will find dead: between the start of the child and the wait
\* no death goes by, and no burial and no reap takes the last child without waking her.
THEOREM MotherHasChildCorrect ==
  ASSUME "wait" \notin BootCalls \cup TaskCalls
  PROVE  Spec => []MotherHasChild
  <1>1. Init => MotherInv
    BY DEF Init, MotherInv
  <1>2. MotherInv => MotherHasChild
    BY DEF MotherInv, Due, MotherHasChild
  <1>3. TypeInv /\ Runner /\ MotherInv /\ [Next]_vars => MotherInv'
    BY MotherNext
  <1> QED
    BY LockInvAlways, <1>1, <1>2, <1>3, PTL DEF Spec

=============================================================================
