------------------------------- MODULE IpcProofs -------------------------------
(***************************************************************************)
(* A poke finds the task that waits for it, for every set of tasks, every  *)
(* set of interrupt lines and every workload: also when the ready list,    *)
(* the sleeping list and irqwaiting have run into each other.              *)
(***************************************************************************)
EXTENDS Ipc, SchedulerProofs

\* f is a table of all tasks.
OfTasks(f) == f = [t \in Task |-> f[t]]

\* A task that has listed itself in wfPokeT and has not blocked yet is in the slot
\* and can still get the processor; one that has blocked is in the slot.
Listed ==
    \A t \in Task :
        /\ pc[t] = "pokeBlock" => slot = t /\ state[t] \in {"RUNNING", "READY"}
        /\ state[t] = "WAITING_FOR_POKE" => slot = t

PokeInv == OfTasks(state) /\ OfTasks(pc) /\ Listed

\* What the scheduler itself keeps, and what the queue head and the slot can hold.
Base == TypeInv /\ Runner /\ LockInv /\ {semFirst, slot} \subseteq TaskOrNull

\* The step blocks nobody for a poke and takes nobody's mark away in front of the
\* block_task of wfPokeT.
LeavesPokes ==
    /\ OfTasks(state') /\ OfTasks(pc')
    /\ \A t \in Task :
        /\ state'[t] = "WAITING_FOR_POKE" => state[t] = "WAITING_FOR_POKE"
        /\ pc'[t] = "pokeBlock" =>
              /\ pc[t] = "pokeBlock"
              /\ state[t] \in {"RUNNING", "READY"} => state'[t] \in {"RUNNING", "READY"}

-----------------------------------------------------------------------------
(***************************************************************************)
(* The scheduler's own invariants, with semaphores and pokes on top.       *)
(***************************************************************************)
LEMMA ErrorBase ==
  ASSUME Base, NEW code \in Faults, Error(code), UNCHANGED <<semFirst, slot>>
  PROVE  Base'
  <1>1. TypeInv'
    BY HaltType DEF Base, Error
  <1>2. Runner' /\ LockInv'
    BY LockInvSame DEF Base, Error, Runner, readyVars, lockVars, runVars
  <1> QED BY <1>1, <1>2 DEF Base

\* A locked section in which at most one task is made ready.
LEMMA SectionBase ==
  ASSUME Base, NEW t \in Task, cpu = "task", current = t, LockedSection,
         UNCHANGED readyVars \/ \E u \in Task : CanUnblock(u) /\ Enqueue(u),
         pc' \in [Task -> Labels],
         UNCHANGED <<tcbVars, familyVars, waitVars, walkVars, current, cpu, idler, slice, dead,
                     frame, fault>>,
         {semFirst', slot'} \subseteq TaskOrNull
  PROVE  Base'
  <1>1. /\ state' \in [Task -> States] /\ next' \in [Task -> TaskOrNull]
        /\ first' \in TaskOrNull /\ last' \in TaskOrNull
    BY EnqueueType DEF Base, TypeInv, TypeOK, readyVars
  <1>2. /\ irqcount' \in Int /\ postpone' \in Int /\ flag' \in BOOLEAN /\ ints' \in BOOLEAN
    BY LockedSectionType DEF Base, TypeInv
  <1>3. TypeOK'
    BY <1>1, <1>2 DEF Base, TypeInv, TypeOK, TaskOrNull, tcbVars, familyVars, waitVars, walkVars
  <1>4. SomeTask'
    BY DEF Base, TypeInv, SomeTask, walkVars
  <1>5. Runner'
    BY DEF Base, TypeInv, TypeOK, Runner, readyVars, CanUnblock, Enqueue
  <1>6. LockInv'
    BY LockedSectionLocks DEF Base
  <1> QED BY <1>3, <1>4, <1>5, <1>6 DEF Base, TypeInv

LEMMA StepBase ==
  ASSUME Base, fault = "none", Step, UNCHANGED <<semFirst, slot>>
  PROVE  Base'
  <1>1. Next
    BY DEF Next
  <1> QED BY <1>1, TypeInvNext, RunnerNext, LockInvNext DEF Base

LEMMA IpcServiceBase ==
  ASSUME Base, NEW t \in Task, IpcService(t)
  PROVE  Base'
<1> USE DEF InTask, Calling, Base, TypeInv
<1>0. /\ \A u : UnblockError(u) \in Faults /\ "POKE_NULLP" \in Faults
      /\ "lockBlock" \in Labels /\ "pokeBlock" \in Labels /\ "run" \in Labels
      /\ "WAITING_FOR_LOCK" \in States /\ "WAITING_FOR_POKE" \in States
      /\ "block" \in Frames
  BY Names DEF Faults, Labels, States
<1>1. CASE AcquireFree(t)
  BY <1>1, SectionBase DEF AcquireFree, runVars, TypeOK
<1>2. CASE AcquireBlock(t)
  <2>1. /\ cpu = "task" /\ current = t /\ UNCHANGED current
        /\ EnterSchedule(t, "block")
        /\ state' = [state EXCEPT ![t] = "WAITING_FOR_LOCK"]
        /\ pc' = [pc EXCEPT ![t] = "lockBlock"]
        /\ UNCHANGED <<tcbVars, familyVars, first, last, waitVars, walkVars,
                       idler, slice, dead, fault, slot>>
    BY <1>2 DEF AcquireBlock
  <2>2. next' \in [Task -> TaskOrNull] /\ semFirst' \in TaskOrNull
    BY <1>2 DEF AcquireBlock, TypeOK, TaskOrNull
  <2>3. /\ irqcount' \in Int /\ postpone' \in Int
        /\ flag' \in BOOLEAN /\ ints' \in BOOLEAN
        /\ frame' \in [Task -> Frames]
        /\ cpu' \in Places
    BY <1>0, <2>1, EnterScheduleType
  <2>4. state' \in [Task -> States] /\ pc' \in [Task -> Labels]
    BY <1>0, <2>1 DEF TypeOK
  <2>5. TypeOK'
    BY <2>1, <2>2, <2>3, <2>4 DEF TypeOK, TaskOrNull, tcbVars, familyVars, waitVars, walkVars
  <2>6. SomeTask' /\ Runner'
    BY <2>1, TaskAssumption DEF SomeTask, Runner, EnterSchedule, TypeOK, HandlerPlaces
  <2>7. LockInv'
    BY <2>1, EnterScheduleLocks
  <2> QED BY <2>1, <2>2, <2>5, <2>6, <2>7
<1>3. CASE AcquireReturn(t)
  <2>1. /\ pc' = [pc EXCEPT ![t] = "run"]
        /\ UNCHANGED <<tcbVars, familyVars, readyVars, waitVars, lockVars, walkVars,
                       current, cpu, idler, slice, dead, frame, fault, semFirst, slot>>
    BY <1>3 DEF AcquireReturn
  <2>2. TypeOK' /\ SomeTask'
    BY <1>0, <2>1 DEF TypeOK, SomeTask, TaskOrNull, tcbVars, familyVars, readyVars, waitVars, lockVars, walkVars
  <2>3. Runner' /\ LockInv'
    BY <2>1, LockInvSame DEF Runner, readyVars, lockVars
  <2> QED BY <2>1, <2>2, <2>3
<1>4. CASE Release(t)
  <2>1. CASE semFirst # NULL /\ ~CanUnblock(semFirst)
    BY <1>0, <1>4, <2>1, ErrorBase DEF Release, semVars
  <2>2. CASE semFirst = NULL
    BY <1>4, <2>2, SectionBase DEF Release, runVars, TypeOK
  <2>3. CASE semFirst # NULL /\ CanUnblock(semFirst)
    <3>1. Enqueue(semFirst) /\ semFirst \in Task /\ semFirst' \in TaskOrNull
      BY <1>4, <2>3 DEF Release, HandOver, TypeOK, TaskOrNull
    <3> QED BY <1>4, <2>3, <3>1, SectionBase DEF Release, runVars, TypeOK
  <2> QED BY <2>1, <2>2, <2>3
<1>5. CASE WfPoke(t)
  <2>1. CASE SlotTaken
    BY <1>0, <1>5, <2>1, ErrorBase DEF WfPoke, semVars
  <2>2. CASE ~SlotTaken
    <3>1. pc' \in [Task -> Labels] /\ {semFirst', slot'} \subseteq TaskOrNull
      BY <1>0, <1>5, <2>2 DEF WfPoke, semVars, TypeOK, TaskOrNull
    <3> QED BY <1>5, <2>2, <3>1, SectionBase DEF WfPoke
  <2> QED BY <2>1, <2>2
<1>6. CASE WfPokeBlock(t)
  <2>1. /\ cpu = "task" /\ current = t /\ UNCHANGED current
        /\ BlockTask(t, "WAITING_FOR_POKE")
        /\ UNCHANGED <<tcbVars, familyVars, waitVars, walkVars, current, idler, slice, dead, fault>>
        /\ UNCHANGED <<semFirst, slot>>
    BY <1>6 DEF WfPokeBlock, ipcVars, semVars
  <2>2. TypeInv'
    BY <1>0, <2>1, BlockTaskType
  <2>3. LockInv'
    BY <2>1, EnterScheduleLocks DEF BlockTask
  <2>4. Runner'
    BY <1>0, <2>1 DEF TypeOK, Runner, BlockTask, EnterSchedule, HandlerPlaces
  <2> QED BY <2>1, <2>2, <2>3, <2>4
<1>7. CASE Poke(t)
  <2>1. CASE slot # NULL /\ ~CanUnblock(slot)
    BY <1>0, <1>7, <2>1, ErrorBase DEF Poke, semVars
  <2>2. CASE slot = NULL
    BY <1>7, <2>2, SectionBase DEF Poke, semVars, runVars, TypeOK
  <2>3. CASE slot # NULL /\ CanUnblock(slot)
    <3>1. Enqueue(slot) /\ slot \in Task /\ slot' \in TaskOrNull /\ semFirst' \in TaskOrNull
      BY <1>7, <2>3 DEF Poke, semVars, TaskOrNull
    <3> QED BY <1>7, <2>3, <3>1, SectionBase DEF Poke, runVars, TypeOK
  <2> QED BY <2>1, <2>2, <2>3
<1> QED BY <1>1, <1>2, <1>3, <1>4, <1>5, <1>6, <1>7 DEF IpcService

LEMMA BaseAlways == IpcSpec => []Base
<1>1. IpcInit => Base
  BY TypeInvInit, RunnerInit, LockInvInit DEF IpcInit, Base, TaskOrNull
<1>2. Base /\ [IpcNext]_allVars => Base'
  <2> SUFFICES ASSUME Base, [IpcNext]_allVars PROVE Base'
    OBVIOUS
  <2>1. CASE UNCHANGED allVars \/ (Halted /\ UNCHANGED ipcVars)
    <3>1. [Next]_vars /\ UNCHANGED <<semFirst, slot>>
      BY <2>1 DEF allVars, Halted, ipcVars, semVars
    <3> QED BY <3>1, TypeInvNext, RunnerNext, LockInvNext DEF Base
  <2>2. CASE fault = "none" /\ Step /\ UNCHANGED ipcVars
    BY <2>2, StepBase DEF ipcVars, semVars
  <2>3. CASE \E t \in Task : IpcService(t)
    BY <2>3, IpcServiceBase
  <2> QED BY <2>1, <2>2, <2>3 DEF IpcNext, IpcStep
<1> QED BY <1>1, <1>2, PTL DEF IpcSpec

\* Semaphores and pokes keep the lock discipline of the scheduler: acquire_semaphore's
\* postponed block_task, too, leaves one task running, one unlock owed for every
\* suspended lock, no interrupt in schedule() and no postponement behind a handler.
THEOREM IpcKeepsLocks ==
    IpcSpec => [](OneRunner /\ UnlocksBalance /\ ScheduleUninterrupted /\ PostponeBalanced)
<1>1. Base => OneRunner /\ UnlocksBalance /\ ScheduleUninterrupted /\ PostponeBalanced
  BY DEF Base, Runner, OneRunner, LockInv, Balance, InHandler, UnlocksBalance, Uninterrupted,
         ScheduleUninterrupted, Postponed, PostponeBalanced
<1> QED BY <1>1, BaseAlways, PTL

-----------------------------------------------------------------------------
(***************************************************************************)
(* Pokes.                                                                  *)
(***************************************************************************)
\* No task has called anything.
LEMMA InitPoke == IpcInit => PokeInv
BY DEF IpcInit, Init, PokeInv, OfTasks, Listed

\* A step that leaves the slot alone, too.
LEMMA OtherPoke == ASSUME PokeInv, LeavesPokes, UNCHANGED slot PROVE PokeInv'
BY DEF PokeInv, Listed, LeavesPokes

\* ERROR stops the machine with everything as it is.
LEMMA ErrorPoke == ASSUME PokeInv, NEW code, Error(code) PROVE LeavesPokes
BY DEF PokeInv, LeavesPokes, Error, readyVars, runVars

\* unblock_task makes one task READY.
LEMMA EnqueuePoke ==
    ASSUME PokeInv, NEW STATE t, Enqueue(t), UNCHANGED pc
    PROVE  LeavesPokes
BY DEF PokeInv, OfTasks, LeavesPokes, Enqueue

\* block_task for another reason: the task is not in wfPokeT any more.
LEMMA BlockPoke ==
    ASSUME PokeInv, NEW t \in Task, NEW reason, reason # "WAITING_FOR_POKE", BlockTask(t, reason)
    PROVE  LeavesPokes
BY DEF PokeInv, OfTasks, LeavesPokes, BlockTask

\* A switch of tasks gives out the marks RUNNING and READY only.
LEMMA SwitchPoke ==
    ASSUME PokeInv, NEW STATE old, NEW STATE t, NEW STATE rest, SwitchTo(old, t, rest)
    PROVE  LeavesPokes
<1>1. CASE SwitchFails(old)
  BY <1>1, ErrorPoke DEF SwitchTo
<1>2. CASE ~SwitchFails(old)
  <2>1. SwitchMarks(old, t) /\ UNCHANGED pc
    BY <1>2 DEF SwitchTo, Resume
  <2>2. CASE state[old] = "RUNNING"
    <3>1. state' = [state EXCEPT ![old] = "READY", ![t] = "RUNNING"]
      BY <2>1, <2>2 DEF SwitchMarks
    <3> QED BY <2>1, <3>1 DEF PokeInv, OfTasks, LeavesPokes
  <2>3. CASE state[old] # "RUNNING"
    <3>1. state' = [state EXCEPT ![t] = "RUNNING"]
      BY <2>1, <2>3 DEF SwitchMarks
    <3> QED BY <2>1, <3>1 DEF PokeInv, OfTasks, LeavesPokes
  <2> QED BY <2>2, <2>3
<1> QED BY <1>1, <1>2

-----------------------------------------------------------------------------

\* schedule(), from its reap() to the idle loop.
LEMMA SchedulePoke == ASSUME PokeInv, Schedule PROVE LeavesPokes
<1> USE DEF readyVars, runVars
<1>1. CASE ReapTask
  <2>1. \/ Error("AMBER_ALERT")
        \/ Enqueue(parent[dead]) /\ UNCHANGED pc
        \/ UNCHANGED <<state, pc>>
    BY <1>1 DEF ReapTask
  <2> QED BY <2>1, ErrorPoke, EnqueuePoke DEF PokeInv, LeavesPokes
<1>2. CASE ReapDone
  BY <1>2 DEF ReapDone, PokeInv, LeavesPokes
<1>3. CASE DispatchReady
  BY <1>3, SwitchPoke DEF DispatchReady
<1>4. CASE DispatchSame
  BY <1>4 DEF DispatchSame, Resume, PokeInv, LeavesPokes
<1>5. CASE DispatchBury
  <2>1. /\ state[current] = "DEAD" /\ UNCHANGED pc
        /\ state' = [state EXCEPT ![current] = "BURIED", ![parent[current]] = "RUNNING"]
    BY <1>5 DEF DispatchBury, MotherWaits, Resume
  <2> QED BY <2>1 DEF PokeInv, OfTasks, LeavesPokes
<1>6. CASE DispatchIdle
  BY <1>6, ErrorPoke DEF DispatchIdle, PokeInv, LeavesPokes
<1>7. CASE IdleExit
  <2>1. CASE first # idler
    BY <1>7, <2>1, SwitchPoke DEF IdleExit
  <2>2. CASE first = idler
    <3>1. state' = [state EXCEPT ![idler] = "RUNNING"] /\ UNCHANGED pc
      BY <1>7, <2>2 DEF IdleExit, Resume
    <3> QED BY <3>1 DEF PokeInv, OfTasks, LeavesPokes
  <2> QED BY <2>1, <2>2
<1> QED BY <1>1, <1>2, <1>3, <1>4, <1>5, <1>6, <1>7 DEF Schedule

\* The handlers of both interrupts: whom they wake, and wherever they send it, is not
\* put in front of the block_task of wfPokeT.
LEMMA HandlerPoke ==
    ASSUME PokeInv, TimerInterrupt \/ Unblockirq \/ HandlerUnlock
    PROVE  LeavesPokes
<1> USE DEF readyVars, runVars
<1>1. CASE Tick \/ PitSleepersDone \/ PitSlice \/ UnblockirqDone
  BY <1>1 DEF Tick, PitSleepersDone, PitSlice, UnblockirqDone, PokeInv, LeavesPokes
<1>2. CASE PitSleeper
  <2>1. \/ \E code : Error(code)
        \/ Enqueue(walk) /\ UNCHANGED pc
        \/ UNCHANGED <<state, pc>>
    BY <1>2 DEF PitSleeper
  <2> QED BY <2>1, ErrorPoke, EnqueuePoke DEF PokeInv, LeavesPokes
<1>3. CASE PitWaiter
  <2>1. CASE ttn[walk] = 0 /\ ~(timeoutFn[walk] /\ CanUnblock(walk))
    BY <1>3, <2>1, ErrorPoke DEF PitWaiter
  <2>2. CASE ttn[walk] = 0 /\ timeoutFn[walk] /\ CanUnblock(walk)
    <3>1. PICK label \in TimeoutReturns(walk) :
              state' = [state EXCEPT ![walk] = "READY"] /\ pc' = [pc EXCEPT ![walk] = label]
      BY <1>3, <2>2 DEF PitWaiter, Enqueue
    <3>2. label = "timedOut" \/ label = pc[walk]
      BY <3>1 DEF TimeoutReturns
    <3> QED BY <3>1, <3>2 DEF PokeInv, OfTasks, LeavesPokes
  <2>3. CASE ttn[walk] # 0
    BY <1>3, <2>3 DEF PitWaiter, PokeInv, LeavesPokes
  <2> QED BY <2>1, <2>2, <2>3
<1>4. CASE \E irq \in Irq : DeviceInterrupt(irq)
  BY <1>4 DEF DeviceInterrupt, PokeInv, LeavesPokes
<1>5. CASE UnblockWaiter
  <2>1. \/ \E code : Error(code)
        \/ Enqueue(walk) /\ UNCHANGED pc
        \/ UNCHANGED <<state, pc>>
    BY <1>5 DEF UnblockWaiter
  <2> QED BY <2>1, ErrorPoke, EnqueuePoke DEF PokeInv, LeavesPokes
<1>6. CASE HandlerUnlock
  <2>1. (\E code : Error(code)) \/ UNCHANGED <<state, pc>>
    BY <1>6 DEF HandlerUnlock
  <2> QED BY <2>1, ErrorPoke DEF PokeInv, LeavesPokes
<1> QED BY <1>1, <1>2, <1>3, <1>4, <1>5, <1>6 DEF TimerInterrupt, Unblockirq

\* The services of the scheduler.
LEMMA ServicePoke == ASSUME PokeInv, NEW t \in Task, Service(t) PROVE LeavesPokes
<1> USE DEF readyVars, runVars, InTask, Calling, PokeInv, OfTasks, LeavesPokes
<1>1. CASE NanoSleep(t) \/ WaitForIrq(t) \/ CkprocLink(t) \/ CkprocLast(t) \/ ProcExit(t) \/ Syscall(t)
  <2>1. /\ OfTasks(pc') /\ \A u \in Task : pc'[u] = pc[u] \/ pc'[u] # "pokeBlock"
        /\ OfTasks(state')
        /\ \A u \in Task : state'[u] = state[u] \/ (state'[u] = "DEAD" /\ pc'[u] = "exited")
    <3>1. CASE NanoSleep(t)   BY <3>1 DEF NanoSleep
    <3>2. CASE WaitForIrq(t)  BY <3>2 DEF WaitForIrq
    <3>3. CASE CkprocLink(t)  BY <3>3 DEF CkprocLink
    <3>4. CASE ProcExit(t)    BY <3>4 DEF ProcExit
    <3>5. CASE Syscall(t)     BY <3>5 DEF Syscall
    <3>6. CASE CkprocLast(t)  BY <3>6 DEF CkprocLast
    <3> QED BY <1>1, <3>1, <3>2, <3>3, <3>4, <3>5, <3>6
  <2> QED BY <2>1
<1>2. CASE NanoSleepBlock(t) \/ WaitForIrqBlock(t) \/ WaitForChildToDie(t) \/ ExecPause(t)
  <2>1. \E reason \in States \ {"WAITING_FOR_POKE"} : BlockTask(t, reason)
    BY <1>2 DEF NanoSleepBlock, WaitForIrqBlock, WaitForChildToDie, ExecPause, States
  <2> QED BY <2>1, BlockPoke
<1>3. CASE TimeoutFunction(t) \/ Deadcode(t)
  BY <1>3, ErrorPoke DEF TimeoutFunction, Deadcode
<1>4. CASE Ckproc(t)
  <2>1. PICK m \in Unborn, entry \in Entry, link \in {"linkFirst", "linkLast"} :
            /\ state' = [state EXCEPT ![m] = "READY"]
            /\ pc' = [pc EXCEPT ![m] = entry, ![t] = link]
            /\ m \in Task
    BY <1>4 DEF Ckproc, Unborn
  <2>2. entry \in {"run", "exec"}
    BY DEF Entry
  <2>3. OfTasks(state') /\ OfTasks(pc')
    BY <2>1
  <2>4. \A u \in Task :
            /\ state'[u] = IF u = m THEN "READY" ELSE state[u]
            /\ pc'[u] = IF u = t THEN link ELSE IF u = m THEN entry ELSE pc[u]
    BY <2>1
  <2> QED BY <2>2, <2>3, <2>4
<1>5. CASE UnblockChild(t)
  <2>1. PICK c : (Enqueue(c) /\ UNCHANGED pc) \/ \E code : Error(code)
    BY <1>5 DEF UnblockChild
  <2> QED BY <2>1, EnqueuePoke, ErrorPoke
<1>6. CASE Uwait(t)
  <2>1. PICK c : \/ /\ state' = [state EXCEPT ![c] = "READY", ![t] = "WAITING_FOR_DEATH"]
                    /\ UNCHANGED pc /\ pc[t] = "run"
                 \/ \E code : Error(code)
    BY <1>6 DEF Uwait
  <2> QED BY <2>1, ErrorPoke
<1> QED BY <1>1, <1>2, <1>3, <1>4, <1>5, <1>6 DEF Service

\* The semaphore and the slot itself.
LEMMA IpcServicePoke == ASSUME Base, PokeInv, NEW t \in Task, IpcService(t) PROVE PokeInv'
<1> USE DEF readyVars, runVars, InTask, Calling
<1>1. CASE AcquireFree(t) \/ AcquireReturn(t)
  <2>1. LeavesPokes /\ UNCHANGED slot
    BY <1>1 DEF AcquireFree, AcquireReturn, PokeInv, OfTasks, LeavesPokes
  <2> QED BY <2>1, OtherPoke
<1>2. CASE AcquireBlock(t)
  <2>1. /\ state' = [state EXCEPT ![t] = "WAITING_FOR_LOCK"]
        /\ pc' = [pc EXCEPT ![t] = "lockBlock"] /\ UNCHANGED slot
    BY <1>2 DEF AcquireBlock
  <2>2. LeavesPokes
    BY <2>1 DEF PokeInv, OfTasks, LeavesPokes
  <2> QED BY <2>1, <2>2, OtherPoke
<1>3. CASE Release(t)
  <2>1. /\ UNCHANGED slot
        /\ \/ \E code : Error(code)
           \/ UNCHANGED <<state, pc>>
           \/ Enqueue(semFirst) /\ UNCHANGED pc
    BY <1>3 DEF Release
  <2>2. LeavesPokes
    BY <2>1, ErrorPoke, EnqueuePoke DEF PokeInv, LeavesPokes
  <2> QED BY <2>1, <2>2, OtherPoke
<1>4. CASE WfPoke(t)
  <2>1. CASE SlotTaken
    <3>1. LeavesPokes /\ UNCHANGED slot
      BY <1>4, <2>1, ErrorPoke DEF WfPoke
    <3> QED BY <3>1, OtherPoke
  <2>2. CASE ~SlotTaken
    <3>1. /\ slot = NULL /\ slot' = t /\ UNCHANGED state
          /\ pc' = [pc EXCEPT ![t] = "pokeBlock"]
          /\ state[t] = "RUNNING"
      BY <1>4, <2>2 DEF WfPoke, SlotTaken, Base, Runner
    <3> QED BY <3>1, TaskAssumption DEF PokeInv, OfTasks, Listed
  <2> QED BY <2>1, <2>2
<1>5. CASE WfPokeBlock(t)
  <2>1. /\ pc[t] = "pokeBlock" /\ UNCHANGED slot
        /\ state' = [state EXCEPT ![t] = "WAITING_FOR_POKE"]
        /\ pc' = [pc EXCEPT ![t] = "run"]
    BY <1>5 DEF WfPokeBlock, BlockTask, ipcVars
  <2> QED BY <2>1 DEF PokeInv, OfTasks, Listed
<1>6. CASE Poke(t)
  <2>1. CASE slot # NULL /\ ~CanUnblock(slot)
    <3>1. LeavesPokes /\ UNCHANGED slot
      BY <1>6, <2>1, ErrorPoke DEF Poke
    <3> QED BY <3>1, OtherPoke
  <2>2. CASE slot = NULL
    <3>1. LeavesPokes /\ UNCHANGED slot
      BY <1>6, <2>2 DEF Poke, PokeInv, LeavesPokes
    <3> QED BY <3>1, OtherPoke
  <2>3. CASE slot # NULL /\ CanUnblock(slot)
    <3>1. /\ state' = [state EXCEPT ![slot] = "READY"] /\ UNCHANGED pc /\ slot' = NULL
      BY <1>6, <2>3 DEF Poke, Enqueue
    <3>2. state[slot] \notin {"RUNNING", "READY"}
      BY <2>3 DEF CanUnblock
    <3> QED BY <3>1, <3>2 DEF PokeInv, OfTasks, Listed
  <2> QED BY <2>1, <2>2, <2>3
<1> QED BY <1>1, <1>2, <1>3, <1>4, <1>5, <1>6 DEF IpcService

\* Through every interrupt between the two halves of wfPokeT, and whatever has become of
\* the lists, a task that is blocked for a poke is the one the next PokeT will wake.
THEOREM PokeFindsWaiterCorrect == IpcSpec => []PokeFindsWaiter
<1>1. Base /\ PokeInv /\ [IpcNext]_allVars => PokeInv'
  <2> SUFFICES ASSUME Base, PokeInv, [IpcNext]_allVars PROVE PokeInv'
    OBVIOUS
  <2>1. CASE UNCHANGED allVars \/ (Halted /\ UNCHANGED ipcVars)
    <3>1. UNCHANGED <<state, pc, slot>>
      BY <2>1 DEF allVars, Halted, vars, ipcVars, readyVars, runVars
    <3> QED BY <3>1 DEF PokeInv, OfTasks, Listed
  <2>2. CASE Step /\ UNCHANGED ipcVars
    <3>1. LeavesPokes
      BY <2>2, SchedulePoke, HandlerPoke, ServicePoke DEF Step
    <3> QED BY <2>2, <3>1, OtherPoke DEF ipcVars
  <2>3. CASE \E t \in Task : IpcService(t)
    BY <2>3, IpcServicePoke
  <2> QED BY <2>1, <2>2, <2>3 DEF IpcNext, IpcStep
<1>2. PokeInv => PokeFindsWaiter
  BY DEF PokeInv, Listed, PokeFindsWaiter
<1> QED BY BaseAlways, InitPoke, <1>1, <1>2, PTL DEF IpcSpec

================================================================================
