--------------------------------- MODULE Ipc ---------------------------------
(***************************************************************************)
(* A counting semaphore and a poke slot of proc.c, on top of the scheduler *)
(* whose lists and locks they use.  A waiter is handed the semaphore by    *)
(* the task that releases it; a poke wakes the one task whose address is   *)
(* in the slot.                                                            *)
(***************************************************************************)
EXTENDS Scheduler

CONSTANT MaxCount   \* max_count, the argument of create_semaphore (1 everywhere in the code)

ASSUME MaxCountAssumption == MaxCount \in Nat \ {0}

VARIABLES
    semCount,     \* current_count
    semFirst,     \* first_waiting
    semLast,      \* last_waiting
    holds,        \* the tasks whose acquire_semaphore has returned and that have not released
    slot          \* the thread_control_block * that wfPokeT and PokeT are given

semVars == <<semCount, semFirst, semLast, holds>>
ipcVars == <<semVars, slot>>
allVars == <<vars, ipcVars>>

IpcInit ==
    /\ Init
    /\ semCount = 0 /\ semFirst = NULL /\ semLast = NULL
    /\ holds = {} /\ slot = NULL

-----------------------------------------------------------------------------

\* Mutant of Free: one task too many gets in.
FreeOffByOne == semCount <= MaxCount

Free == semCount < MaxCount

AcquireFree(t) ==
    /\ Calling(t, "lock") /\ t \notin holds
    /\ Free
    /\ semCount' = semCount + 1
    /\ holds' = holds \cup {t}
    /\ LockedSection
    /\ UNCHANGED <<tcbVars, familyVars, readyVars, waitVars, walkVars, runVars, fault,
                   semFirst, semLast, slot>>

\* The block_task inside lock_stuff is postponed: unlock_stuff calls schedule()
\* with one unlock of this task left to do.
AcquireBlock(t) ==
    /\ Calling(t, "lock") /\ t \notin holds
    /\ ~Free
    /\ semFirst' = IF semFirst = NULL THEN t ELSE semFirst
    /\ next' = IF semFirst = NULL THEN [next EXCEPT ![t] = NULL]
               ELSE [next EXCEPT ![t] = NULL, ![semLast] = t]
    /\ semLast' = t
    /\ state' = [state EXCEPT ![t] = "WAITING_FOR_LOCK"]
    /\ pc' = [pc EXCEPT ![t] = "lockBlock"]
    /\ EnterSchedule(t, "block")
    /\ UNCHANGED <<tcbVars, familyVars, first, last, waitVars, walkVars,
                   current, idler, slice, dead, fault, semCount, holds, slot>>

\* A task that waited takes for granted that it was handed the semaphore.
AcquireReturn(t) ==
    /\ InTask(t, "lockBlock")
    /\ holds' = holds \cup {t}
    /\ pc' = [pc EXCEPT ![t] = "run"]
    /\ UNCHANGED <<tcbVars, familyVars, readyVars, waitVars, lockVars, walkVars,
                   current, cpu, idler, slice, dead, frame, fault,
                   semCount, semFirst, semLast, slot>>

\* Mutant of HandOver: the count goes down although the waiter takes the place.
HandOverCounted ==
    /\ semFirst' = next[semFirst]
    /\ semCount' = semCount - 1

\* Mutant of HandOver: the other waiters are forgotten.
HandOverLast ==
    /\ semFirst' = NULL
    /\ UNCHANGED semCount

\* current_count stays: the waiter takes the place of the task that releases.
HandOver ==
    /\ semFirst' = next[semFirst]
    /\ UNCHANGED semCount

Release(t) ==
    /\ Calling(t, "lock") /\ t \in holds
    /\ IF semFirst # NULL /\ ~CanUnblock(semFirst)
       THEN Error(UnblockError(semFirst)) /\ UNCHANGED semVars
       ELSE /\ IF semFirst = NULL
               THEN semCount' = semCount - 1 /\ UNCHANGED <<semFirst, readyVars>>
               ELSE HandOver /\ Enqueue(semFirst)
            /\ holds' = holds \ {t}
            /\ LockedSection
            /\ UNCHANGED <<tcbVars, familyVars, waitVars, walkVars, runVars, fault, semLast>>
    /\ UNCHANGED slot

-----------------------------------------------------------------------------

\* Mutant of SlotTaken: a task that waits already is overwritten.
SlotTakenNever == FALSE

SlotTaken == slot # NULL

\* wfPokeT up to its unlock_stuff: the task is in the slot and still RUNNING.
WfPoke(t) ==
    /\ Calling(t, "wfpoke")
    /\ IF SlotTaken
       THEN Error("POKE_NULLP") /\ UNCHANGED slot
       ELSE /\ slot' = t
            /\ pc' = [pc EXCEPT ![t] = "pokeBlock"]
            /\ LockedSection
            /\ UNCHANGED <<tcbVars, familyVars, readyVars, waitVars, walkVars,
                           current, cpu, idler, slice, dead, frame, fault>>
    /\ UNCHANGED semVars

WfPokeBlock(t) ==
    /\ InTask(t, "pokeBlock")
    /\ BlockTask(t, "WAITING_FOR_POKE")
    /\ UNCHANGED <<tcbVars, familyVars, waitVars, walkVars, current, idler, slice, dead, fault,
                   ipcVars>>

\* A poke that finds nobody only hits a breakpoint.
Poke(t) ==
    /\ Calling(t, "poke")
    /\ IF slot # NULL /\ ~CanUnblock(slot)
       THEN Error(UnblockError(slot)) /\ UNCHANGED slot
       ELSE /\ IF slot = NULL
               THEN UNCHANGED <<readyVars, slot>>
               ELSE Enqueue(slot) /\ slot' = NULL
            /\ LockedSection
            /\ UNCHANGED <<tcbVars, familyVars, waitVars, walkVars, runVars, fault>>
    /\ UNCHANGED semVars

-----------------------------------------------------------------------------

IpcService(t) ==
    \/ AcquireFree(t) \/ AcquireBlock(t) \/ AcquireReturn(t) \/ Release(t)
    \/ WfPoke(t) \/ WfPokeBlock(t) \/ Poke(t)

IpcStep == (Step /\ UNCHANGED ipcVars) \/ \E t \in Task : IpcService(t)

IpcNext == (Halted /\ UNCHANGED ipcVars) \/ (fault = "none" /\ IpcStep)

IpcSpec == IpcInit /\ [][IpcNext]_allVars

\* The fairness of the scheduler; a task that has listed itself for a poke reaches
\* its block_task.
IpcFairSpec ==
    IpcSpec /\ Fairness /\ \A t \in Task : SF_allVars(fault = "none" /\ WfPokeBlock(t))

IpcTypeOK ==
    /\ TypeOK
    /\ semCount \in 0..MaxCount
    /\ {semFirst, semLast, slot} \subseteq TaskOrNull
    /\ holds \subseteq Task

-----------------------------------------------------------------------------

\* The tasks a release has picked that have not got the processor yet.
Handed == {t \in Task : pc[t] = "lockBlock" /\ state[t] \in {"READY", "RUNNING"}}

\* No more than max_count tasks are between acquire_semaphore and
\* release_semaphore, whatever interrupts and switches come in between.
MutualExclusion == Cardinality(holds) <= MaxCount

\* current_count counts the holders and those who are about to hold: a hand-over
\* neither loses a place nor makes one.
PlacesAccounted == IpcTypeOK /\ (Alive => semCount = Cardinality(holds \cup Handed))

\* Nobody waits for a semaphore that nobody has: whoever is queued will be found
\* by a release, and there is a task that owes one.
WaiterReleased ==
    Alive => \A t \in Task : state[t] = "WAITING_FOR_LOCK" =>
                 t \in ListFrom(semFirst) /\ holds \cup Handed # {}

\* A task blocked for a poke is the one in the slot, so the next poke wakes it.
PokeFindsWaiter ==
    Alive => \A t \in Task : state[t] = "WAITING_FOR_POKE" => slot = t

=============================================================================
