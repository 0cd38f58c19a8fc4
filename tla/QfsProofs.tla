------------------------------- MODULE QfsProofs -------------------------------
(***************************************************************************)
(* Three results about Qfs, for any inodes and calls: the first for two    *)
(* tasks, the others for any number, until a hand-over of disk0 fails.     *)
(*                                                                         *)
(* disk0 keeps the other task off the controller, and with two tasks no    *)
(* hand-over finds two waiting (DiskInv).                                  *)
(* A block of the heap is one task's until that task gives it back         *)
(* (WalkInv: what each task owns, by what the block is to it, is in use    *)
(* and owned once).  And so what a walk copied out of the image stays what *)
(* it was until the stream is closed (RightInv).                           *)
(***************************************************************************)
EXTENDS Qfs, FiniteSetTheorems, NaturalsInduction, TLAPS

\* Inside disk0.
Inside == {"transfer", "command", "release"}

\* disk0 has the holder the program counters say it has, and only tasks are queued.
HolderInside ==
    /\ pc \in [Task -> Labels]
    /\ then \in [Task -> Labels \ Inside]
    /\ queue \in Seq(Task)
    /\ \A t \in Task : pc[t] \in Inside <=> holder = t

\* floppy_in_use is set during a command, and then some task waits for that command.
InUse == floppyInUse => \E t \in Task : pc[t] = "command"

\* A task in the queue waits there, and is there once.
Waiting ==
    \A i \in 1..Len(queue) :
        /\ pc[queue[i]] = "queued"
        /\ \A j \in 1..Len(queue) : i # j => queue[i] # queue[j]

NotInUse == fault # "FDC_INUSE"

DiskInv == HolderInside /\ Waiting /\ InUse /\ NotInUse

\* The step leaves the disk alone: t goes from one place outside disk0 to another.
Outside(t) ==
    /\ pc[t] \notin Inside \cup {"queued"}
    /\ \E label \in Labels \ Inside : pc' = [pc EXCEPT ![t] = label]
    /\ UNCHANGED <<holder, queue, floppyInUse, fault>>
    /\ then' \in [Task -> Labels \ Inside]

-----------------------------------------------------------------------------

\* Nobody is inside disk0 when the first task opens a file.
LEMMA InitDisk == Init => DiskInv
BY ImageAssumption DEF Init, DiskInv, HolderInside, Waiting, InUse, NotInUse, Inside, Labels

\* An ERROR other than the one of floppy_in_use changes nothing the disk depends on.
LEMMA ErrorDisk ==
    ASSUME DiskInv, NEW code, code # "FDC_INUSE", Error(code)
    PROVE  DiskInv'
BY DEF DiskInv, HolderInside, Waiting, InUse, NotInUse, Error, diskVars, readVars

\* Where the queue stays, the tasks in it stay, too.
LEMMA StillWaiting ==
    ASSUME DiskInv, NEW t \in Task, pc[t] # "queued", NEW label, pc' = [pc EXCEPT ![t] = label],
           UNCHANGED queue
    PROVE  Waiting'
<1>1. \A i \in 1..Len(queue) : queue[i] \in Task /\ queue[i] # t
  BY DEF DiskInv, HolderInside, Waiting
<1> QED BY <1>1 DEF DiskInv, HolderInside, Waiting

\* A step of a task outside disk0 leaves holder and floppy_in_use right.
LEMMA OutsideDisk ==
    ASSUME DiskInv, NEW t \in Task, Outside(t)
    PROVE  DiskInv'
<1>1. PICK label \in Labels \ Inside : pc' = [pc EXCEPT ![t] = label]
  BY DEF Outside
<1>2. HolderInside'
  BY <1>1 DEF DiskInv, HolderInside, Outside
<1>3. InUse'
  <2> SUFFICES ASSUME floppyInUse PROVE \E u \in Task : pc'[u] = "command"
    BY DEF InUse, Outside
  <2>1. PICK u \in Task : pc[u] = "command"
    BY DEF DiskInv, InUse
  <2>2. u # t
    BY <2>1 DEF Outside, Inside
  <2> QED BY <1>1, <2>1, <2>2 DEF DiskInv, HolderInside
<1>4. NotInUse'
  BY DEF DiskInv, NotInUse, Outside
<1>5. Waiting'
  BY <1>1, StillWaiting DEF Outside
<1> QED BY <1>2, <1>3, <1>4, <1>5 DEF DiskInv

\* acquire_semaphore: whoever is let in finds disk0 free.
LEMMA AcquireDisk == ASSUME DiskInv, NEW t \in Task, Acquire(t) PROVE DiskInv'
<1> USE DEF DiskInv, HolderInside
<1>1. pc[t] = "acquire" /\ pc[t] \notin Inside
  BY DEF Acquire, At, Inside
<1>2. /\ UNCHANGED <<then, floppyInUse, fault>>
      /\ \/ holder = NULL /\ holder' = t /\ pc' = [pc EXCEPT ![t] = "transfer"] /\ UNCHANGED queue
         \/ queue' = Append(queue, t) /\ pc' = [pc EXCEPT ![t] = "queued"] /\ UNCHANGED holder
  BY DEF Acquire, DiskFree, Goto, readVars
<1>3. HolderInside'
  <2>1. CASE holder = NULL /\ holder' = t /\ pc' = [pc EXCEPT ![t] = "transfer"] /\ UNCHANGED queue
    <3>1. \A u \in Task : pc[u] \notin Inside
      BY <2>1, ImageAssumption
    <3>2. \A u \in Task : pc'[u] \in Inside <=> holder' = u
      BY <2>1, <3>1 DEF Inside
    <3> QED BY <1>2, <2>1, <3>2 DEF Labels
  <2>2. CASE queue' = Append(queue, t) /\ pc' = [pc EXCEPT ![t] = "queued"] /\ UNCHANGED holder
    <3>1. queue' \in Seq(Task)
      BY <2>2
    <3>2. \A u \in Task : pc'[u] \in Inside <=> holder' = u
      BY <1>1, <2>2 DEF Inside
    <3> QED BY <1>2, <2>2, <3>1, <3>2 DEF Labels
  <2> QED BY <1>2, <2>1, <2>2
<1>4. InUse' /\ NotInUse'
  BY <1>1, <1>2 DEF InUse, NotInUse
<1>5. Waiting'
  <2>1. CASE UNCHANGED queue
    BY <1>1, <1>2, <2>1, StillWaiting
  <2>2. CASE queue' = Append(queue, t) /\ pc' = [pc EXCEPT ![t] = "queued"]
    <3>1. \A i \in 1..Len(queue) : /\ queue[i] # t /\ queue[i] \in Task /\ pc[queue[i]] = "queued"
                                   /\ \A j \in 1..Len(queue) : i # j => queue[i] # queue[j]
      BY <1>1 DEF Waiting
    <3>2. /\ Len(queue') = Len(queue) + 1 /\ queue'[Len(queue) + 1] = t /\ Len(queue) \in Nat
          /\ \A i \in 1..Len(queue) : queue'[i] = queue[i]
      BY <2>2
    <3>3. pc'[t] = "queued" /\ \A u \in Task \ {t} : pc'[u] = pc[u]
      BY <2>2
    <3>4. \A i \in 1..Len(queue') : i \in 1..Len(queue) \/ i = Len(queue) + 1
      BY <3>2
    <3> QED BY <3>1, <3>2, <3>3, <3>4 DEF Waiting
  <2> QED BY <1>2, <2>1, <2>2
<1> QED BY <1>3, <1>4, <1>5

\* floppy_read begins: the only task inside is this one, and it is not in a command.
LEMMA StartTransferDisk == ASSUME DiskInv, NEW t \in Task, StartTransfer(t) PROVE DiskInv'
<1> USE DEF DiskInv, HolderInside
<1>1. pc[t] = "transfer" /\ holder = t
  BY DEF StartTransfer, At, Inside
<1>2. ~floppyInUse
  BY <1>1 DEF InUse, Inside
<1>3. /\ UNCHANGED <<holder, queue, then, fault>>
      /\ pc' = [pc EXCEPT ![t] = "command"]
  BY <1>2 DEF StartTransfer, Goto
<1>4. Waiting'
  BY <1>1, <1>3, StillWaiting
<1> QED BY <1>1, <1>3, <1>4 DEF InUse, NotInUse, Inside, Labels

\* floppy_read ends: nobody is in a command any more.
LEMMA EndTransferDisk == ASSUME DiskInv, NEW t \in Task, EndTransfer(t) PROVE DiskInv'
<1> USE DEF DiskInv, HolderInside
<1>1. pc[t] = "command" /\ holder = t
  BY DEF EndTransfer, At, Inside
<1>2. /\ UNCHANGED <<holder, queue, then, fault>>
      /\ floppyInUse' = FALSE
      /\ \E label \in {"transfer", "release"} : pc' = [pc EXCEPT ![t] = label]
  BY DEF EndTransfer, Goto
<1>3. Waiting'
  BY <1>1, <1>2, StillWaiting
<1> QED BY <1>1, <1>2, <1>3 DEF InUse, NotInUse, Inside, Labels

\* release_semaphore: the first task of the queue takes the place of the one that leaves.
LEMMA ReleaseDisk == ASSUME DiskInv, NEW t \in Task, Release(t) PROVE DiskInv'
<1> USE DEF DiskInv, HolderInside
<1>1. pc[t] = "release" /\ holder = t /\ then[t] \in Labels \ Inside
  BY DEF Release, At, Inside
<1>2. UNCHANGED <<then, floppyInUse>> /\ NotInUse'
  BY DEF Release, HandOverFaults, readVars, NotInUse
<1>3. ~floppyInUse
  BY <1>1 DEF InUse, Inside
<1>4. CASE Successor = NULL
  <2>1. holder' = NULL /\ pc' = [pc EXCEPT ![t] = then[t]] /\ UNCHANGED queue
    BY <1>4 DEF Release, Goto
  <2>2. Waiting'
    BY <1>1, <2>1, StillWaiting
  <2> QED BY <1>1, <1>2, <1>3, <2>1, <2>2, ImageAssumption DEF InUse
<1>5. CASE Successor # NULL
  <2>1. queue # <<>> /\ Successor \in Task
    BY <1>5 DEF Successor
  <2>2. /\ holder' = Successor /\ queue' = Tail(queue)
        /\ pc' = [pc EXCEPT ![t] = then[t], ![Successor] = "transfer"]
    BY <1>5 DEF Release
  <2>3. HolderInside'
    <3>1. queue' \in Seq(Task)
      BY <2>1, <2>2
    <3>2. \A u \in Task : pc'[u] \in Inside <=> holder' = u
      BY <1>1, <2>1, <2>2 DEF Inside
    <3>3. pc' \in [Task -> Labels]
      BY <1>1, <2>2 DEF Labels
    <3> QED BY <1>2, <3>1, <3>2, <3>3
  <2>4. Waiting'
    <3>1. /\ Len(queue') = Len(queue) - 1 /\ Successor = queue[1] /\ 1 \in 1..Len(queue)
          /\ \A i \in 1..Len(queue') : queue'[i] = queue[i + 1] /\ i + 1 \in 1..Len(queue)
      BY <2>1, <2>2, <1>5 DEF Successor
    <3>2. ASSUME NEW i \in 1..Len(queue') PROVE pc'[queue'[i]] = "queued"
      <4>1. queue'[i] \in Task /\ pc[queue'[i]] = "queued" /\ queue'[i] # Successor /\ queue'[i] # t
        <5>1. i + 1 \in 1..Len(queue) /\ queue'[i] = queue[i + 1] /\ i + 1 # 1
          BY <3>1
        <5> QED BY <1>1, <3>1, <5>1 DEF Waiting
      <4> QED BY <2>2, <4>1
    <3>3. ASSUME NEW i \in 1..Len(queue'), NEW j \in 1..Len(queue'), i # j
          PROVE  queue'[i] # queue'[j]
      <4>1. /\ i + 1 \in 1..Len(queue) /\ j + 1 \in 1..Len(queue) /\ i + 1 # j + 1
            /\ queue'[i] = queue[i + 1] /\ queue'[j] = queue[j + 1]
        BY <3>1, <3>3
      <4> QED BY <4>1 DEF Waiting
    <3> QED BY <3>2, <3>3 DEF Waiting
  <2> QED BY <1>2, <1>3, <2>3, <2>4 DEF InUse
<1> QED BY <1>4, <1>5

\* Everything else a task does in OPEN, READ and CLOSE happens outside disk0, or stops
\* the machine for another reason.
LEMMA WalkDisk ==
    ASSUME DiskInv, NEW t \in Task,
           \/ ReadDir(t) \/ Hit(t) \/ Miss(t) \/ NotFound(t) \/ Mark(t) \/ Fill(t) \/ Skip(t)
           \/ Descend(t) \/ Found(t) \/ MakeStream(t) \/ Open(t) \/ ReadFile(t) \/ Close(t)
    PROVE  DiskInv'
<1> USE DEF At, Goto, Inside, Labels, diskVars, readVars
<1>0. pc \in [Task -> Labels] /\ then \in [Task -> Labels \ Inside]
  BY DEF DiskInv, HolderInside
<1> DEFINE Stops == \E code \in {"FILE_PASTBOUND", "DOUBLE_FREE"} : Error(code)
<1> SUFFICES Stops \/ Outside(t)
  BY OutsideDisk, ErrorDisk
<1>1. CASE ReadDir(t)   BY <1>0, <1>1 DEF ReadDir, ReadSectors, Outside
<1>2. CASE Hit(t)       BY <1>0, <1>2 DEF Hit, Outside
<1>3. CASE Miss(t)      BY <1>0, <1>3 DEF Miss, ReadSectors, Outside
<1>4. CASE NotFound(t)  BY <1>0, <1>4 DEF NotFound, Outside
<1>5. CASE Mark(t)      BY <1>0, <1>5 DEF Mark, Outside
<1>6. CASE Fill(t)      BY <1>0, <1>6 DEF Fill, Outside
<1>7. CASE Skip(t)      BY <1>0, <1>7 DEF Skip, Outside
<1>8. CASE Descend(t)   BY <1>0, <1>8 DEF Descend, Outside
<1>9. CASE Found(t)     BY <1>0, <1>9 DEF Found, Outside
<1>10. CASE MakeStream(t) BY <1>0, <1>10 DEF MakeStream, Outside
<1>11. CASE Open(t)     BY <1>0, <1>11 DEF Open, Outside
<1>12. CASE ReadFile(t) BY <1>0, <1>12 DEF ReadFile, ReadSectors, Outside
<1>13. CASE Close(t)    BY <1>0, <1>13 DEF Close, Outside
<1> QED BY <1>1, <1>2, <1>3, <1>4, <1>5, <1>6, <1>7, <1>8, <1>9, <1>10, <1>11, <1>12, <1>13

\* Any number of tasks are kept off the controller until a hand-over fails.
LEMMA DiskNext == ASSUME DiskInv, [Next]_vars PROVE DiskInv'
<1>1. CASE UNCHANGED vars
  BY <1>1 DEF vars, diskVars, readVars, DiskInv, HolderInside, Waiting, InUse, NotInUse
<1>2. CASE Halted
  BY <1>1, <1>2 DEF Halted
<1>3. ASSUME NEW t \in Task, Move(t) \/ Open(t) \/ ReadFile(t) \/ Close(t)
      PROVE  DiskInv'
  BY <1>3, AcquireDisk, StartTransferDisk, EndTransferDisk, ReleaseDisk, WalkDisk DEF Move
<1> QED BY <1>1, <1>2, <1>3 DEF Next

\* Of two tasks one is in the queue at most, while the other one has the disk.
LEMMA OneWaits ==
    ASSUME \A t, u, v \in Task : t = u \/ u = v \/ t = v,
           DiskInv, NEW t \in Task, Release(t)
    PROVE  Len(queue) <= 1
<1>1. pc[t] = "release" /\ queue \in Seq(Task)
  BY DEF Release, At, DiskInv, HolderInside
<1> SUFFICES ASSUME Len(queue) >= 2 PROVE FALSE
  BY <1>1
<1>2. 1 \in 1..Len(queue) /\ 2 \in 1..Len(queue)
  BY <1>1
<1>3. queue[1] # queue[2] /\ queue[1] # t /\ queue[2] # t
  BY <1>1, <1>2 DEF DiskInv, Waiting
<1> QED BY <1>1, <1>2, <1>3

\* Every step but a release goes on to no other fault than those of the drivers.
LEMMA NoHandOver ==
    ASSUME NEW t \in Task, Move(t) \/ Open(t) \/ ReadFile(t) \/ Close(t), ~Release(t)
    PROVE  fault' # "TWO_HOLDERS" \/ fault' = fault
BY DEF Move, Acquire, StartTransfer, EndTransfer, ReadDir, Hit, Miss, NotFound, Mark, Fill, Skip,
       Descend, Found, MakeStream, Open, ReadFile, Close, Error

\* With two tasks at the files, whatever they read at once, floppy_in_use of chs.c never
\* stops the machine, and disk0 is never handed to both.
THEOREM OneTransferCorrect ==
    ASSUME \A t, u, v \in Task : t = u \/ u = v \/ t = v
    PROVE  Spec => []OneTransfer
<1>1. Init => OneTransfer
  BY DEF Init, OneTransfer
<1>2. ASSUME DiskInv, OneTransfer, [Next]_vars PROVE OneTransfer'
  <2>1. DiskInv'
    BY <1>2, DiskNext
  <2>2. fault' # "TWO_HOLDERS"
    <3>1. CASE UNCHANGED vars \/ Halted
      BY <1>2, <3>1 DEF vars, Halted, OneTransfer
    <3>2. ASSUME NEW t \in Task, Release(t) PROVE fault' # "TWO_HOLDERS"
      <4>1. Len(queue) <= 1 /\ Len(queue) \in Nat
        BY <1>2, <3>2, OneWaits DEF DiskInv, HolderInside
      <4>2. HandOverFaults = {"none"}
        BY <4>1 DEF HandOverFaults
      <4> QED BY <1>2, <3>2, <4>2 DEF Release, OneTransfer
    <3>3. ASSUME NEW t \in Task, Move(t) \/ Open(t) \/ ReadFile(t) \/ Close(t), ~Release(t)
          PROVE  fault' # "TWO_HOLDERS"
      BY <1>2, <3>3, NoHandOver DEF OneTransfer
    <3> QED BY <1>2, <3>1, <3>2, <3>3 DEF Next
  <2> QED BY <2>1, <2>2 DEF DiskInv, NotInUse, OneTransfer
<1> QED BY InitDisk, DiskNext, <1>1, <1>2, PTL DEF Spec

-----------------------------------------------------------------------------
\* A set of numbers has a least element.
LEMMA Least ==
    ASSUME NEW S \in SUBSET Nat, S # {}
    PROVE  \E b \in S : \A c \in S : b <= c
<1>1. PICK b \in S : \A c \in S : ~(<<c, b>> \in OpToRel(<, Nat))
  BY NatLessThanWellFounded, WFMin
<1>2. \A c \in S : ~(c < b)
  BY <1>1 DEF OpToRel
<1> QED BY <1>2

\* malloc takes a block that it may take.
LEMMA FirstFacts == ASSUME NEW S \in SUBSET Block, S # {} PROVE First(S) \in S
<1>1. S \in SUBSET Nat
  BY ImageAssumption DEF Block
<1> QED BY <1>1, Least DEF First

Below(b) == {c \in Unused : c < b}

\* The blocks not in use are numbers.
LEMMA UnusedNumbers == Unused \in SUBSET Nat /\ \A b \in Unused : b \in Int
BY ImageAssumption DEF Unused, Block

\* There are finitely many blocks, and so finitely many below one of them.
LEMMA UnusedFacts ==
    /\ IsFiniteSet(Unused) /\ Cardinality(Unused) \in Nat
    /\ \A b : IsFiniteSet(Below(b)) /\ Cardinality(Below(b)) \in Nat
<1>1. IsFiniteSet(Block)
  <2>1. 1 \in Int /\ MaxBlocks \in Int
    BY ImageAssumption
  <2> QED BY <2>1, FS_Interval DEF Block
<1>2. IsFiniteSet(Unused)
  BY <1>1, FS_Subset DEF Unused
<1>3. \A b : IsFiniteSet(Below(b))
  BY <1>2, FS_Subset DEF Below
<1> QED BY <1>2, <1>3, FS_CardinalityType

\* The blocks below the least, below the next and below the last.
LEMMA BelowFacts ==
    ASSUME NEW b \in Unused
    PROVE  /\ b \notin Below(b)
           /\ (\A c \in Unused : b <= c) => Below(b) = {}
           /\ \A d \in Unused : b < d /\ (\A c \in Unused : b < c => d <= c) => Below(d) = Below(b) \cup {b}
           /\ (\A c \in Unused : ~(b < c)) => Unused = Below(b) \cup {b}
<1>1. \A c \in Unused : c \in Int
  BY UnusedNumbers
<1>2. \A c : c \in Below(b) <=> c \in Unused /\ c < b
  BY DEF Below
<1>3. b \notin Below(b)
  BY <1>1, <1>2
<1>4. (\A c \in Unused : b <= c) => Below(b) = {}
  BY <1>1, <1>2
<1>5. ASSUME NEW d \in Unused, b < d, \A c \in Unused : b < c => d <= c
      PROVE  Below(d) = Below(b) \cup {b}
  <2>1. \A c \in Unused : c < d <=> c < b \/ c = b
    BY <1>1, <1>5
  <2> QED BY <2>1 DEF Below
<1>6. (\A c \in Unused : ~(b < c)) => Unused = Below(b) \cup {b}
  BY <1>1, <1>2
<1> QED BY <1>3, <1>4, <1>5, <1>6

\* There is a block for each malloc while there are enough of them.
LEMMA Ranks ==
    ASSUME NEW n \in Nat, Cardinality(Unused) >= n
    PROVE  \A k \in 0..n-1 : \E b \in Unused : Cardinality(Below(b)) = k
<1> DEFINE Missing == {k \in 0..n-1 : \A b \in Unused : Cardinality(Below(b)) # k}
<1> SUFFICES ASSUME Missing # {} PROVE FALSE
  OBVIOUS
<1>1. PICK k \in Missing : \A i \in Missing : k <= i
  <2>1. Missing \in SUBSET Nat
    OBVIOUS
  <2> HIDE DEF Missing
  <2> QED BY <2>1, Least
<1>2. k \in 0..n-1 /\ \A b \in Unused : Cardinality(Below(b)) # k
  OBVIOUS
<1> HIDE DEF Missing
<1>3. CASE k = 0
  <2>1. Unused # {}
    BY <1>2, UnusedFacts, FS_EmptySet
  <2>2. PICK b \in Unused : \A c \in Unused : b <= c
    BY <2>1, UnusedNumbers, Least
  <2>3. Below(b) = {}
    BY <2>2, BelowFacts
  <2> QED BY <1>2, <1>3, <2>3, FS_EmptySet
<1>4. CASE k # 0
  <2>1. PICK b \in Unused : Cardinality(Below(b)) = k - 1
    <3>1. k - 1 \in 0..n-1 /\ k - 1 \notin Missing
      BY <1>1, <1>2, <1>4
    <3> QED BY <3>1 DEF Missing
  <2> DEFINE upTo == Below(b) \cup {b}
             above == {c \in Unused : b < c}
  <2>2. IsFiniteSet(upTo) /\ Cardinality(upTo) = k
    <3>1. b \notin Below(b) /\ IsFiniteSet(Below(b))
      BY BelowFacts, UnusedFacts
    <3>2. IsFiniteSet(upTo) /\ Cardinality(upTo) = Cardinality(Below(b)) + 1
      BY <3>1, FS_AddElement
    <3> QED BY <1>2, <2>1, <3>2
  <2>3. above # {}
    <3> SUFFICES ASSUME above = {} PROVE FALSE
      OBVIOUS
    <3>1. Unused = upTo
      BY BelowFacts
    <3> QED BY <1>2, <2>2, <3>1
  <2>4. PICK d \in above : \A c \in above : d <= c
    BY <2>3, UnusedNumbers, Least
  <2>5. Below(d) = upTo
    BY <2>4, BelowFacts
  <2> QED BY <1>2, <2>2, <2>4, <2>5
<1> QED BY <1>3, <1>4

\* The blocks of so many calls of malloc: unused ones, and no two the same.
LEMMA NthFacts ==
    ASSUME NEW n \in Nat, Cardinality(Unused) >= n
    PROVE  /\ \A i \in 1..n : Nth(i) \in Unused
           /\ \A i, j \in 1..n : i # j => Nth(i) # Nth(j)
<1>1. \A i \in 1..n : Nth(i) \in Unused /\ Cardinality(Below(Nth(i))) = i - 1
  <2> SUFFICES ASSUME NEW i \in 1..n
               PROVE  Nth(i) \in Unused /\ Cardinality(Below(Nth(i))) = i - 1
    OBVIOUS
  <2>1. \E b \in Unused : Cardinality(Below(b)) = i - 1
    BY Ranks
  <2> QED BY <2>1 DEF Nth, Below
<1> QED BY <1>1

-----------------------------------------------------------------------------
OnDisk == {"acquire", "queued", "transfer", "command", "release"}

\* Where a task is in its walk, whether it waits for a sector or not.
Place(t) == IF pc[t] \in OnDisk THEN then[t] ELSE pc[t]

\* n is nothing the task will free or read again.
Loose(t) == Place(t) \in {"idle", "open"} \/ (Place(t) \in {"readdir", "list"} /\ AtLastName(t))

\* The blocks a task owns, by what they are to it.
Slots == {"node", "curdir", "strings", "params", "stream"}
Own(t) == [node    |-> IF Loose(t) THEN {} ELSE {node[t]} \ {NULL},
           curdir  |-> {curdir[t]} \ {NULL},
           strings |-> strings[t],
           params  |-> {params[t]} \ {NULL},
           stream  |-> {file[t], arguments[t]} \ {NULL}]

\* What is owned is in use, and owned once.
Alive == \A t \in Task, s \in Slots : Own(t)[s] \subseteq allocated
Apart == \A t, u \in Task, s, r \in Slots : t # u \/ s # r => Own(t)[s] \cap Own(u)[r] = {}

\* The task has a copy of the inode of its entry.
HasNode(t) == pc[t] \in {"mark", "fill", "compare", "found"} \/ (pc[t] = "release" /\ then[t] = "mark")

\* The locals of the walk are what the task's place needs.
Course(t) ==
    /\ pc[t] \in OnDisk => then[t] \in {"list", "mark", "open"}
    /\ pc[t] \in OnDisk \ {"release"} => left[t] >= 1
    /\ Place(t) \notin {"idle", "open"} => path[t] \in Paths /\ level[t] \in 0..Len(path[t].dirs)
    /\ Place(t) \in {"readdir", "list", "compare", "mark", "fill"} => curdir[t] # NULL
    /\ Place(t) \in {"list", "compare", "mark", "fill"} => listing[t] \in Inode
    /\ Place(t) \in {"compare", "mark", "fill"} => entry[t] <= Len(Entries[listing[t]])
    /\ HasNode(t) => node[t] # NULL
    /\ pc[t] = "found" => AtLastName(t)
    /\ pc[t] = "command" => params[t] # NULL
    /\ Place(t) = "open" => file[t] # NULL /\ arguments[t] # NULL
    /\ Place(t) # "open" => file[t] = NULL

WalkInv == TypeOK /\ fault # "DOUBLE_FREE" /\ Alive /\ Apart /\ Waiting /\ \A t \in Task : Course(t)

\* The other tasks keep their places and their locals.
Elsewhere(t) ==
    \A u \in Task \ {t} :
        /\ pc'[u] = pc[u] /\ then'[u] = then[u] /\ left'[u] = left[u]
        /\ path'[u] = path[u] /\ level'[u] = level[u] /\ entry'[u] = entry[u] /\ listing'[u] = listing[u]
        /\ curdir'[u] = curdir[u] /\ node'[u] = node[u] /\ strings'[u] = strings[u]
        /\ params'[u] = params[u] /\ file'[u] = file[u] /\ arguments'[u] = arguments[u]

\* The task gives some of its blocks back, and takes some that are not in use.
Trade(t, freed, taken) ==
    /\ allocated' = (allocated \ freed) \cup taken
    /\ taken \cap (allocated \ freed) = {}
    /\ \A b \in freed : \E s \in Slots : b \in Own(t)[s]
    /\ \A s \in Slots : \A b \in Own(t)'[s] :
           b \in taken \/ (b \notin freed /\ \E r \in Slots : b \in Own(t)[r])
    /\ \A s, r \in Slots : s # r => Own(t)'[s] \cap Own(t)'[r] = {}

\* What a task that does not move owns, and where it is, stay as they are.
LEMMA OthersKeep ==
    ASSUME NEW t \in Task, Elsewhere(t), NEW u \in Task \ {t}
    PROVE  /\ Own(u)' = Own(u) /\ (Course(u) => Course(u)')
<1>1. /\ Place(u)' = Place(u) /\ AtLastName(u)' = AtLastName(u) /\ HasNode(u)' = HasNode(u)
      /\ Loose(u)' = Loose(u)
  BY DEF Elsewhere, Place, AtLastName, HasNode, Loose
<1>2. Own(u)' = Own(u)
  BY <1>1 DEF Own, Elsewhere
<1>3. Course(u) => Course(u)'
  BY <1>1 DEF Course, Elsewhere
<1> QED BY <1>2, <1>3

\* The task gives some of its blocks back, and takes some that are not in use.
LEMMA Exchange ==
    ASSUME Alive, Apart, NEW t \in Task, NEW freed, NEW taken, Elsewhere(t),
           Trade(t, freed, taken)
    PROVE  Alive' /\ Apart'
<1> USE DEF Trade
<1>1. \A u \in Task \ {t} : Own(u)' = Own(u)
  BY OthersKeep
<1>2. \A s \in Slots : \A b \in Own(t)[s] : b \in allocated
  BY DEF Alive
<1>3. \A u \in Task \ {t}, s \in Slots : \A b \in Own(u)[s] :
          b \in allocated /\ \A r \in Slots : b \notin Own(t)[r]
  BY DEF Alive, Apart
<1>4. \A u \in Task \ {t}, s \in Slots : \A b \in Own(u)[s] : b \in allocated \ freed
  BY <1>3
<1>5. \A s \in Slots : \A b \in Own(t)'[s] : b \in allocated'
  BY <1>2
<1>6. Alive'
  <2> SUFFICES ASSUME NEW u \in Task, NEW s \in Slots, NEW b \in Own(u)'[s] PROVE b \in allocated'
    BY DEF Alive
  <2>1. CASE u = t
    BY <1>5, <2>1
  <2>2. CASE u # t
    BY <1>1, <1>4, <2>2
  <2> QED BY <2>1, <2>2
<1>7. \A u \in Task \ {t}, s, r \in Slots : Own(t)'[s] \cap Own(u)'[r] = {}
  <2> SUFFICES ASSUME NEW u \in Task \ {t}, NEW s \in Slots, NEW r \in Slots,
                      NEW b, b \in Own(t)'[s], b \in Own(u)[r]
               PROVE  FALSE
    BY <1>1
  <2>1. b \in allocated \ freed /\ \A q \in Slots : b \notin Own(t)[q]
    BY <1>3, <1>4
  <2> QED BY <2>1
<1>8. \A u, v \in Task \ {t}, s, r \in Slots : u # v \/ s # r => Own(u)'[s] \cap Own(v)'[r] = {}
  BY <1>1 DEF Apart
<1>9. Apart'
  <2> SUFFICES ASSUME NEW u \in Task, NEW v \in Task, NEW s \in Slots, NEW r \in Slots, u # v \/ s # r
               PROVE  Own(u)'[s] \cap Own(v)'[r] = {}
    BY DEF Apart
  <2>1. CASE u = t /\ v = t
    BY <2>1
  <2>2. CASE u = t /\ v # t
    BY <1>7, <2>2
  <2>3. CASE u # t /\ v = t
    BY <1>7, <2>3
  <2>4. CASE u # t /\ v # t
    BY <1>8, <2>4
  <2> QED BY <2>1, <2>2, <2>3, <2>4
<1> QED BY <1>6, <1>9

\* A step of one task that neither queues nor takes it from a queue.
LEMMA StepOf ==
    ASSUME WalkInv, NEW t \in Task, Elsewhere(t), UNCHANGED <<queue, fault>>, pc[t] # "queued",
           TypeOK', Alive', Apart', Course(t)'
    PROVE  WalkInv'
<1>1. Waiting'
  <2>1. \A i \in 1..Len(queue) : queue[i] \in Task
    BY DEF WalkInv, TypeOK
  <2> QED BY <2>1 DEF WalkInv, Waiting, Elsewhere
<1>2. \A u \in Task : Course(u)'
  BY OthersKeep DEF WalkInv
<1> QED BY <1>1, <1>2 DEF WalkInv

\* A step of one task that leaves its blocks alone.
LEMMA SameBlocks ==
    ASSUME WalkInv, NEW t \in Task, Elsewhere(t), UNCHANGED <<queue, fault, allocated>>, pc[t] # "queued",
           TypeOK', Course(t)', \A s \in Slots : Own(t)'[s] \subseteq Own(t)[s]
    PROVE  WalkInv'
<1>1. Alive' /\ Apart'
  <2>1. Trade(t, {}, {})
    BY DEF Trade, WalkInv, Apart
  <2>2. Alive /\ Apart
    BY DEF WalkInv
  <2> QED BY <2>1, <2>2, Exchange
<1> QED BY <1>1, StepOf

\* Where ERROR stops the machine for a reason other than a double free.
LEMMA ErrorWalk ==
    ASSUME WalkInv, NEW code \in {"FDC_INUSE", "FILE_PASTBOUND"}, Error(code)
    PROVE  WalkInv'
<1>1. UNCHANGED <<allocated, content, cache, holder, queue, floppyInUse, pc, path, level, entry, listing, curdir,
                  node, strings, params, left, then, file, arguments, opens>> /\ fault' = code
  BY DEF Error, heapVars, diskVars, walkVars, readVars, fileVars
<1>2. TypeOK' /\ fault' # "DOUBLE_FREE" /\ Waiting'
  BY <1>1 DEF WalkInv, TypeOK, Waiting, BlockOrNull
<1>3. \A t \in Task : Own(t)' = Own(t) /\ Course(t)'
  BY <1>1 DEF WalkInv, Own, Loose, Place, AtLastName, Course, HasNode
<1> QED BY <1>1, <1>2, <1>3 DEF WalkInv, Alive, Apart

\* acquire_semaphore(disk0): a task queues once, and owns the same blocks while it waits.
LEMMA AcquireWalk == ASSUME WalkInv, NEW t \in Task, Acquire(t) PROVE WalkInv'
<1> USE DEF Goto
<1>1. /\ pc[t] = "acquire" /\ pc \in [Task -> Labels] /\ queue \in Seq(Task) /\ Course(t)
      /\ UNCHANGED <<allocated, content, cache, floppyInUse, path, level, entry, listing, curdir,
                     node, strings, params, left, then, file, arguments, opens, fault>>
  BY DEF Acquire, At, WalkInv, TypeOK, heapVars, walkVars, readVars, fileVars
<1>2. \/ holder' = t /\ pc' = [pc EXCEPT ![t] = "transfer"] /\ UNCHANGED queue
      \/ holder' = holder /\ pc' = [pc EXCEPT ![t] = "queued"] /\ queue' = Append(queue, t)
  BY DEF Acquire
<1>3. TypeOK'
  <2>1. queue' \in Seq(Task)
    BY <1>1, <1>2
  <2>2. pc' \in [Task -> Labels]
    BY <1>1, <1>2 DEF Labels
  <2>3. holder' \in Task \cup {NULL}
    BY <1>2 DEF WalkInv, TypeOK
  <2> QED BY <1>1, <2>1, <2>2, <2>3 DEF WalkInv, TypeOK, BlockOrNull
<1>4. /\ Place(t)' = Place(t) /\ AtLastName(t)' = AtLastName(t) /\ ~HasNode(t)'
      /\ pc'[t] \in {"transfer", "queued"}
  BY <1>1, <1>2 DEF Place, OnDisk, AtLastName, HasNode
<1>5. Own(t)' = Own(t) /\ Course(t)' /\ Elsewhere(t)
  BY <1>1, <1>2, <1>4 DEF Own, Loose, Course, Elsewhere, OnDisk
<1>6. Waiting'
  <2>1. CASE UNCHANGED queue
    <3>1. \A i \in 1..Len(queue) : queue[i] # t /\ queue[i] \in Task
      BY <1>1 DEF WalkInv, Waiting
    <3> QED BY <1>5, <2>1, <3>1 DEF WalkInv, Waiting, Elsewhere
  <2>2. CASE queue' = Append(queue, t) /\ pc' = [pc EXCEPT ![t] = "queued"]
    <3>1. \A i \in 1..Len(queue) : queue[i] # t /\ queue[i] \in Task /\ pc[queue[i]] = "queued"
                                   /\ \A j \in 1..Len(queue) : i # j => queue[i] # queue[j]
      BY <1>1 DEF WalkInv, Waiting
    <3>2. Len(queue') = Len(queue) + 1 /\ queue'[Len(queue) + 1] = t /\ Len(queue) \in Nat
          /\ \A i \in 1..Len(queue) : queue'[i] = queue[i]
      BY <1>1, <2>2
    <3>3. pc'[t] = "queued" /\ \A u \in Task \ {t} : pc'[u] = pc[u]
      BY <1>1, <2>2
    <3>4. ASSUME NEW i \in 1..Len(queue') PROVE i \in 1..Len(queue) \/ i = Len(queue) + 1
      BY <3>2
    <3> QED BY <3>1, <3>2, <3>3, <3>4 DEF Waiting
  <2> QED BY <1>2, <2>1, <2>2
<1>7. \A u \in Task : Own(u)' = Own(u) /\ Course(u)'
  BY <1>5, OthersKeep DEF WalkInv
<1> QED BY <1>1, <1>3, <1>6, <1>7 DEF WalkInv, Alive, Apart

\* release_semaphore(disk0): the first of the queue goes on where it was.
LEMMA ReleaseWalk == ASSUME WalkInv, NEW t \in Task, Release(t) PROVE WalkInv'
<1> USE DEF Goto
<1>1. /\ pc[t] = "release" /\ pc \in [Task -> Labels] /\ queue \in Seq(Task) /\ Course(t)
      /\ then[t] \in {"list", "mark", "open"} /\ fault' \in {fault, "none", "TWO_HOLDERS"}
      /\ UNCHANGED <<allocated, content, cache, floppyInUse, path, level, entry, listing, curdir,
                     node, strings, params, left, then, file, arguments, opens>>
  BY DEF Release, HandOverFaults, At, WalkInv, TypeOK, heapVars, walkVars, readVars, fileVars, Course, OnDisk
<1>2. \/ holder' = NULL /\ pc' = [pc EXCEPT ![t] = then[t]] /\ UNCHANGED queue
      \/ /\ queue # <<>> /\ holder' = Head(queue) /\ queue' = Tail(queue)
         /\ pc' = [pc EXCEPT ![t] = then[t], ![Head(queue)] = "transfer"]
  BY DEF Release, Successor
<1>3. queue # <<>> => Head(queue) \in Task /\ pc[Head(queue)] = "queued" /\ Head(queue) # t
  <2> SUFFICES ASSUME queue # <<>> PROVE Head(queue) \in Task /\ pc[Head(queue)] = "queued"
    BY <1>1
  <2>1. Head(queue) = queue[1] /\ 1 \in 1..Len(queue) /\ Head(queue) \in Task
    BY <1>1
  <2> QED BY <2>1 DEF WalkInv, Waiting
<1>4. TypeOK'
  <2>1. queue' \in Seq(Task)
    BY <1>1, <1>2
  <2>2. pc' \in [Task -> Labels]
    BY <1>1, <1>2, <1>3 DEF Labels
  <2>3. holder' \in Task \cup {NULL}
    BY <1>2, <1>3
  <2> QED BY <1>1, <2>1, <2>2, <2>3 DEF WalkInv, TypeOK, BlockOrNull
<1>5. \A u \in Task : /\ Place(u)' = Place(u) /\ AtLastName(u)' = AtLastName(u)
                      /\ pc'[u] = pc[u] \/ (u = t /\ pc'[u] = then[u]) \/ (pc[u] = "queued" /\ pc'[u] = "transfer")
                      /\ HasNode(u)' => HasNode(u)
  BY <1>1, <1>2, <1>3 DEF Place, OnDisk, AtLastName, HasNode
<1>6. \A u \in Task : Own(u)' = Own(u) /\ Course(u)'
  <2>1. \A u \in Task : Own(u)' = Own(u)
    BY <1>1, <1>5 DEF Own, Loose
  <2>2. ASSUME NEW u \in Task PROVE Course(u)'
    <3>1. Course(u)
      BY DEF WalkInv
    <3>2. CASE pc'[u] = pc[u]
      BY <1>1, <1>5, <3>1, <3>2 DEF Course
    <3>3. CASE u = t /\ pc'[u] = then[u]
      BY <1>1, <1>5, <3>1, <3>3 DEF Course, OnDisk
    <3>4. CASE pc[u] = "queued" /\ pc'[u] = "transfer"
      BY <1>1, <1>5, <3>1, <3>4 DEF Course, OnDisk
    <3> QED BY <1>5, <3>2, <3>3, <3>4
  <2> QED BY <2>1, <2>2
<1>7. Waiting'
  <2>1. \A i \in 1..Len(queue) : queue[i] # t /\ queue[i] \in Task /\ pc[queue[i]] = "queued"
                                 /\ \A j \in 1..Len(queue) : i # j => queue[i] # queue[j]
    BY <1>1 DEF WalkInv, Waiting
  <2>2. CASE UNCHANGED queue /\ pc' = [pc EXCEPT ![t] = then[t]]
    BY <1>1, <2>1, <2>2 DEF Waiting
  <2>3. CASE queue # <<>> /\ queue' = Tail(queue) /\ pc' = [pc EXCEPT ![t] = then[t], ![Head(queue)] = "transfer"]
    <3>1. /\ Len(queue') = Len(queue) - 1 /\ Len(queue) \in Nat /\ Head(queue) = queue[1]
          /\ \A i \in 1..Len(queue') : queue'[i] = queue[i + 1]
      BY <1>1, <2>3
    <3>2. \A u \in Task : u # t /\ u # queue[1] => pc'[u] = pc[u]
      BY <1>1, <1>3, <2>3, <3>1
    <3>3. ASSUME NEW i \in 1..Len(queue')
          PROVE  i + 1 \in 1..Len(queue) /\ 1 \in 1..Len(queue) /\ 1 # i + 1
      BY <3>1
    <3>4. \A i \in 1..Len(queue') : pc'[queue'[i]] = "queued"
      BY <2>1, <3>1, <3>2, <3>3
    <3>5. \A i, j \in 1..Len(queue') : i # j => queue'[i] # queue'[j]
      <4> SUFFICES ASSUME NEW i \in 1..Len(queue'), NEW j \in 1..Len(queue'), i # j PROVE queue'[i] # queue'[j]
        OBVIOUS
      <4>1. i + 1 # j + 1
        BY <3>1
      <4> QED BY <2>1, <3>1, <3>3, <4>1
    <3> QED BY <3>4, <3>5 DEF Waiting
  <2> QED BY <1>2, <2>2, <2>3
<1> QED BY <1>1, <1>4, <1>6, <1>7 DEF WalkInv, Alive, Apart

\* What the types say of the task that moves.
LEMMA Typed ==
    ASSUME WalkInv, NEW t \in Task
    PROVE  /\ pc \in [Task -> Labels] /\ then \in [Task -> Labels] /\ left \in [Task -> Nat]
           /\ path \in [Task -> Paths \cup {NULL}] /\ listing \in [Task -> Inode \cup {NULL}]
           /\ level \in [Task -> Nat] /\ entry \in [Task -> Nat \ {0}]
           /\ curdir \in [Task -> BlockOrNull] /\ node \in [Task -> BlockOrNull]
           /\ params \in [Task -> BlockOrNull] /\ file \in [Task -> BlockOrNull]
           /\ arguments \in [Task -> BlockOrNull] /\ strings \in [Task -> SUBSET Block]
           /\ Course(t) /\ Alive /\ Apart /\ fault # "DOUBLE_FREE"
BY DEF WalkInv, TypeOK

\* A task at an entry of a directory.
LEMMA AtEntry ==
    ASSUME WalkInv, NEW t \in Task, Place(t) \in {"compare", "mark", "fill"}
    PROVE  Current(t) \in Inode
<1>1. listing[t] \in Inode /\ entry[t] \in Nat \ {0} /\ entry[t] <= Len(Entries[listing[t]])
  BY Typed DEF Course
<1>2. Entries[listing[t]] \in Seq(Inode)
  BY <1>1, ImageAssumption
<1>3. entry[t] \in 1..Len(Entries[listing[t]])
  BY <1>1, <1>2
<1> QED BY <1>2, <1>3 DEF Current

\* InodeRead of a directory: its block is the task's own.
LEMMA ReadDirWalk == ASSUME WalkInv, NEW t \in Task, ReadDir(t) PROVE WalkInv'
<1> USE Typed
<1>1. CASE ~InBounds(curdir[t])
  BY <1>1, ErrorWalk DEF ReadDir
<1>2. CASE InBounds(curdir[t])
  <2>1. /\ pc[t] = "readdir" /\ content[curdir[t]] # NULL
        /\ listing' = [listing EXCEPT ![t] = content[curdir[t]]]
        /\ entry' = [entry EXCEPT ![t] = 1]
        /\ pc' = [pc EXCEPT ![t] = "acquire"] /\ left' = [left EXCEPT ![t] = 1]
        /\ then' = [then EXCEPT ![t] = "list"]
        /\ UNCHANGED <<allocated, content, cache, holder, queue, floppyInUse, path, level, curdir,
                       node, strings, params, file, arguments, opens, fault>>
    BY <1>2 DEF ReadDir, At, InBounds, ReadSectors, Goto, heapVars, diskVars, fileVars
  <2>2. Place(t) = "readdir" /\ Place(t)' = "list" /\ AtLastName(t)' = AtLastName(t) /\ ~HasNode(t)'
    BY <2>1 DEF Place, OnDisk, AtLastName, HasNode
  <2>3. content[curdir[t]] \in Inode
    <3>1. curdir[t] \in Block
      BY <2>2 DEF Course, BlockOrNull
    <3> QED BY <2>1, <3>1 DEF WalkInv, TypeOK
  <2>4. TypeOK'
    <3>1. /\ listing' \in [Task -> Inode \cup {NULL}] /\ entry' \in [Task -> Nat \ {0}]
          /\ left' \in [Task -> Nat]
      BY <2>1, <2>3
    <3>2. pc' \in [Task -> Labels] /\ then' \in [Task -> Labels]
      BY <2>1 DEF Labels
    <3> QED BY <2>1, <3>1, <3>2 DEF WalkInv, TypeOK, BlockOrNull
  <2>5. Elsewhere(t)
    BY <2>1 DEF Elsewhere
  <2>6. Course(t)'
    BY <2>1, <2>2, <2>3 DEF Course, OnDisk
  <2>7. Own(t)' = Own(t)
    BY <2>1, <2>2 DEF Own, Loose
  <2> QED BY <2>1, <2>4, <2>5, <2>6, <2>7, SameBlocks
<1> QED BY <1>1, <1>2

\* FileReaderStream: the inode of the stream is the task's own.
LEMMA ReadFileWalk == ASSUME WalkInv, NEW t \in Task, ReadFile(t) PROVE WalkInv'
<1> USE Typed
<1>1. CASE ~InBounds(file[t])
  BY <1>1, ErrorWalk DEF ReadFile
<1>2. CASE InBounds(file[t])
  <2>1. /\ pc[t] = "open"
        /\ pc' = [pc EXCEPT ![t] = "acquire"] /\ left' = [left EXCEPT ![t] = 1]
        /\ then' = [then EXCEPT ![t] = "open"]
        /\ UNCHANGED <<allocated, content, cache, holder, queue, floppyInUse, path, level, entry, listing, curdir,
                       node, strings, params, file, arguments, opens, fault>>
    BY <1>2 DEF ReadFile, At, ReadSectors, Goto, heapVars, diskVars, walkVars, fileVars
  <2>2. Place(t) = "open" /\ Place(t)' = "open" /\ AtLastName(t)' = AtLastName(t) /\ ~HasNode(t)'
    BY <2>1 DEF Place, OnDisk, AtLastName, HasNode
  <2>4. TypeOK'
    BY <2>1 DEF WalkInv, TypeOK, Labels, BlockOrNull
  <2>5. Elsewhere(t)
    BY <2>1 DEF Elsewhere
  <2>6. Course(t)'
    BY <2>1, <2>2 DEF Course, OnDisk
  <2>7. Own(t)' = Own(t)
    BY <2>1, <2>2 DEF Own, Loose
  <2> QED BY <2>1, <2>4, <2>5, <2>6, <2>7, SameBlocks
<1> QED BY <1>1, <1>2

\* kINb_ad touches no block of the heap.
LEMMA CacheWalk == ASSUME WalkInv, NEW t \in Task, Mark(t) \/ Fill(t) PROVE WalkInv'
<1> USE Typed
<1>1. /\ pc[t] \in {"mark", "fill"} /\ \E label \in {"fill", "compare"} : pc' = [pc EXCEPT ![t] = label]
      /\ UNCHANGED <<allocated, content, holder, queue, floppyInUse, path, level, entry, listing, curdir,
                     node, strings, params, left, then, file, arguments, opens, fault>>
  BY DEF Mark, Fill, At, Goto, heapVars, diskVars, walkVars, readVars, fileVars
<1>2. PICK label \in {"fill", "compare"} : pc' = [pc EXCEPT ![t] = label]
  BY <1>1
<1>3. /\ Place(t) = pc[t] /\ Place(t)' = label /\ AtLastName(t)' = AtLastName(t)
      /\ HasNode(t) /\ HasNode(t)' /\ pc'[t] = label
  BY <1>1, <1>2 DEF Place, OnDisk, AtLastName, HasNode
<1>4. cache' \in [Inode -> {"absent", "marked", "filled"}]
  <2>1. Current(t) \in Inode
    BY <1>1, <1>3, AtEntry
  <2> QED BY <2>1 DEF Mark, Fill, WalkInv, TypeOK
<1>5. TypeOK'
  BY <1>1, <1>2, <1>4 DEF WalkInv, TypeOK, Labels, BlockOrNull
<1>6. Elsewhere(t)
  BY <1>1, <1>2 DEF Elsewhere
<1>7. Course(t)'
  BY <1>1, <1>3 DEF Course, OnDisk
<1>8. Own(t)' = Own(t)
  BY <1>1, <1>3 DEF Own, Loose
<1> QED BY <1>1, <1>5, <1>6, <1>7, <1>8, SameBlocks

\* A name that is not there: the blocks of the walk are left behind, in use and nobody's.
LEMMA NotFoundWalk == ASSUME WalkInv, NEW t \in Task, NotFound(t) PROVE WalkInv'
<1> USE Typed
<1>1. /\ pc[t] = "list" /\ pc' = [pc EXCEPT ![t] = "idle"]
      /\ curdir' = [curdir EXCEPT ![t] = NULL] /\ node' = [node EXCEPT ![t] = NULL]
      /\ strings' = [strings EXCEPT ![t] = {}] /\ path' = [path EXCEPT ![t] = NULL]
      /\ level' = [level EXCEPT ![t] = 0] /\ entry' = [entry EXCEPT ![t] = 1]
      /\ listing' = [listing EXCEPT ![t] = NULL]
      /\ UNCHANGED <<allocated, content, cache, holder, queue, floppyInUse,
                     params, left, then, file, arguments, opens, fault>>
  BY DEF NotFound, EndWalk, At, Goto, heapVars, diskVars, readVars, fileVars
<1>2. Place(t) = "list" /\ Place(t)' = "idle" /\ ~HasNode(t)' /\ pc'[t] = "idle"
  BY <1>1 DEF Place, OnDisk, HasNode
<1>3. TypeOK'
  <2>1. pc' \in [Task -> Labels]
    BY <1>1 DEF WalkInv, TypeOK, Labels
  <2>2. curdir' \in [Task -> BlockOrNull] /\ node' \in [Task -> BlockOrNull]
    BY <1>1 DEF WalkInv, TypeOK, BlockOrNull
  <2> QED BY <1>1, <2>1, <2>2 DEF WalkInv, TypeOK
<1>4. Elsewhere(t)
  BY <1>1 DEF Elsewhere
<1>5. Course(t)'
  BY <1>1, <1>2 DEF Course, OnDisk
<1>6. \A s \in Slots : Own(t)'[s] \subseteq Own(t)[s]
  BY <1>1, <1>2 DEF Own, Slots, Loose
<1> QED BY <1>1, <1>3, <1>4, <1>5, <1>6, SameBlocks

\* A step of one task that gives blocks back or takes some.
LEMMA Traded ==
    ASSUME WalkInv, NEW t \in Task, Elsewhere(t), UNCHANGED <<queue, fault>>, pc[t] # "queued",
           TypeOK', Course(t)', NEW freed, NEW taken, Trade(t, freed, taken)
    PROVE  WalkInv'
<1>1. Alive /\ Apart
  BY DEF WalkInv
<1>2. Alive' /\ Apart'
  BY <1>1, Exchange
<1> QED BY <1>2, StepOf

\* What one task owns is in use, and owned for one purpose.
LEMMA OwnApart ==
    ASSUME WalkInv, NEW t \in Task
    PROVE  /\ \A s, r \in Slots : s # r => Own(t)[s] \cap Own(t)[r] = {}
           /\ \A s \in Slots : Own(t)[s] \subseteq allocated
BY DEF WalkInv, Alive, Apart

\* The block of one malloc.
LEMMA NthOne ==
    ASSUME Cardinality(Unused) >= 1
    PROVE  Nth(1) \in Block /\ Nth(1) \notin allocated /\ Nth(1) # NULL /\ Fresh(1) = {Nth(1)}
<1>1. Nth(1) \in Unused
  BY NthFacts
<1>2. 1..1 = {1}
  OBVIOUS
<1>3. Fresh(1) = {Nth(1)}
  BY <1>2 DEF Fresh
<1> QED BY <1>1, <1>3, ImageAssumption DEF Unused, Block

\* floppy_read takes the block of its parameters from those not in use.
LEMMA StartTransferWalk == ASSUME WalkInv, NEW t \in Task, StartTransfer(t) PROVE WalkInv'
<1> USE Typed
<1>1. CASE floppyInUse
  BY <1>1, ErrorWalk DEF StartTransfer
<1>2. CASE ~floppyInUse
  <2> DEFINE block == Nth(1)
  <2>1. /\ pc[t] = "transfer" /\ floppyInUse' = TRUE
        /\ allocated' = allocated \cup {block}
        /\ content' = [b \in Block |-> IF b = block THEN NULL ELSE content[b]]
        /\ block \in Block /\ block \notin allocated /\ block # NULL
        /\ params' = [params EXCEPT ![t] = block] /\ pc' = [pc EXCEPT ![t] = "command"]
        /\ UNCHANGED <<cache, holder, queue, path, level, entry, listing, curdir,
                       node, strings, left, then, file, arguments, opens, fault>>
    BY <1>2, NthOne DEF StartTransfer, At, Malloc, Goto, walkVars, fileVars
  <2> HIDE DEF block
  <2>2. Place(t)' = Place(t) /\ AtLastName(t)' = AtLastName(t) /\ ~HasNode(t)' /\ pc'[t] = "command"
    BY <2>1 DEF Place, OnDisk, AtLastName, HasNode
  <2>3. TypeOK'
    <3>1. /\ allocated' \subseteq Block /\ content' \in [Block -> Inode \cup {NULL}]
      BY <2>1 DEF WalkInv, TypeOK
    <3>2. /\ params' \in [Task -> BlockOrNull] /\ pc' \in [Task -> Labels]
      BY <2>1 DEF BlockOrNull, Labels
    <3> QED BY <2>1, <3>1, <3>2 DEF WalkInv, TypeOK, BlockOrNull
  <2>4. Elsewhere(t)
    BY <2>1 DEF Elsewhere
  <2>5. Course(t)'
    BY <2>1, <2>2 DEF Course, OnDisk
  <2>6. /\ Own(t)'["params"] = {block}
        /\ \A s \in Slots \ {"params"} : Own(t)'[s] = Own(t)[s]
    <3>1. Own(t)'["params"] = {block}
      BY <2>1 DEF Own
    <3>2. Own(t)'["node"] = Own(t)["node"]
      BY <2>1, <2>2 DEF Own, Loose
    <3>3. /\ Own(t)'["curdir"] = Own(t)["curdir"] /\ Own(t)'["strings"] = Own(t)["strings"]
          /\ Own(t)'["stream"] = Own(t)["stream"]
      BY <2>1 DEF Own
    <3> QED BY <3>1, <3>2, <3>3 DEF Slots
  <2> DEFINE none == {}
             some == {block}
  <2>7. /\ allocated' = (allocated \ none) \cup some /\ some \cap (allocated \ none) = {}
        /\ \A b \in none : \E s \in Slots : b \in Own(t)[s]
    BY <2>1
  <2>8. \A s \in Slots : \A b \in Own(t)'[s] :
            b \in some \/ (b \notin none /\ \E r \in Slots : b \in Own(t)[r])
    BY <2>6
  <2>9. \A s, r \in Slots : s # r => Own(t)'[s] \cap Own(t)'[r] = {}
    BY <2>1, <2>6, OwnApart
  <2>10. Trade(t, none, some)
    BY <2>7, <2>8, <2>9 DEF Trade
  <2> HIDE DEF none, some
  <2> QED BY <2>1, <2>3, <2>4, <2>5, <2>10, Traded
<1> QED BY <1>1, <1>2

\* floppy_read gives the block of its parameters back, and the inode it read may take it at
\* once, or one that was not in use.
LEMMA EndTransferWalk == ASSUME WalkInv, NEW t \in Task, EndTransfer(t) PROVE WalkInv'
<1> USE Typed
<1> DEFINE block == params[t]
           first == First(Unused \cup {params[t]})
           last == left[t] = 1 /\ then[t] = "mark"
<1>1. /\ pc[t] = "command" /\ floppyInUse' = FALSE
      /\ left' = [left EXCEPT ![t] = @ - 1]
      /\ pc' = [pc EXCEPT ![t] = IF left[t] > 1 THEN "transfer" ELSE "release"]
      /\ params' = [params EXCEPT ![t] = NULL]
      /\ last => /\ allocated' = (allocated \ {block}) \cup {first}
                 /\ content' = [content EXCEPT ![first] = Current(t)]
                 /\ node' = [node EXCEPT ![t] = first]
      /\ ~last => allocated' = allocated \ {block} /\ UNCHANGED <<content, node>>
      /\ UNCHANGED <<cache, holder, queue, path, level, entry, listing, curdir,
                     strings, then, file, arguments, opens, fault>>
  BY DEF EndTransfer, At, Goto, fileVars
<1>2. /\ left[t] >= 1 /\ left[t] \in Nat /\ then[t] \in {"list", "mark", "open"}
      /\ block \in Block /\ block # NULL /\ Place(t) = then[t]
  BY <1>1 DEF Course, OnDisk, BlockOrNull, Place
<1>3. first \in Block /\ first \in Unused \cup {block} /\ first # NULL
  <2>1. Unused \cup {block} \in SUBSET Block /\ Unused \cup {block} # {}
    BY <1>2 DEF Unused
  <2> QED BY <2>1, FirstFacts, ImageAssumption DEF Block
<1> HIDE DEF block, first, last
<1>4. /\ Place(t)' = Place(t) /\ AtLastName(t)' = AtLastName(t)
      /\ pc'[t] \in {"transfer", "release"} /\ (pc'[t] = "transfer" => left'[t] >= 1)
      /\ (HasNode(t)' => last)
  BY <1>1, <1>2 DEF Place, OnDisk, AtLastName, HasNode, last
<1>5. TypeOK'
  <2>1. allocated' \subseteq Block
    BY <1>1, <1>3 DEF WalkInv, TypeOK
  <2>2. content' \in [Block -> Inode \cup {NULL}] /\ node' \in [Task -> BlockOrNull]
    <3>1. last => Current(t) \in Inode
      BY <1>2, AtEntry DEF last
    <3>2. CASE last
      <4>1. content' \in [Block -> Inode \cup {NULL}]
        BY <1>1, <1>3, <3>1, <3>2 DEF WalkInv, TypeOK
      <4>2. node' \in [Task -> BlockOrNull]
        BY <1>1, <1>3, <3>2 DEF BlockOrNull
      <4> QED BY <4>1, <4>2
    <3>3. CASE ~last
      BY <1>1, <3>3 DEF WalkInv, TypeOK
    <3> QED BY <3>2, <3>3
  <2>3. left' \in [Task -> Nat]
    BY <1>1, <1>2
  <2>4. pc' \in [Task -> Labels] /\ params' \in [Task -> BlockOrNull]
    BY <1>1 DEF Labels, BlockOrNull
  <2> QED BY <1>1, <2>1, <2>2, <2>3, <2>4 DEF WalkInv, TypeOK, BlockOrNull
<1>6. Elsewhere(t)
  BY <1>1 DEF Elsewhere
<1>7. Course(t)'
  <2>1. HasNode(t)' => node'[t] # NULL
    BY <1>1, <1>3, <1>4
  <2> QED BY <1>1, <1>2, <1>4, <2>1 DEF Course, OnDisk
<1> DEFINE freed == {block}
           taken == IF last THEN {first} ELSE {}
<1>8. /\ Own(t)["params"] = {block} /\ Own(t)'["params"] = {}
      /\ Own(t)'["node"] = (IF last THEN {first} ELSE Own(t)["node"])
      /\ \A s \in Slots \ {"params", "node"} : Own(t)'[s] = Own(t)[s]
  <2>1. Own(t)["params"] = {block} /\ Own(t)'["params"] = {}
    BY <1>1, <1>2 DEF Own, block
  <2>2. Own(t)'["node"] = (IF last THEN {first} ELSE Own(t)["node"])
    <3>1. last => ~Loose(t) /\ ~Loose(t)'
      BY <1>2, <1>4 DEF Loose, last
    <3>2. Loose(t)' = Loose(t)
      BY <1>4 DEF Loose
    <3>3. Own(t)["node"] = (IF Loose(t) THEN {} ELSE {node[t]} \ {NULL})
      BY DEF Own
    <3>4. Own(t)'["node"] = (IF Loose(t)' THEN {} ELSE {node'[t]} \ {NULL})
      BY DEF Own
    <3>5. node'[t] = IF last THEN first ELSE node[t]
      BY <1>1
    <3> QED BY <1>3, <3>1, <3>2, <3>3, <3>4, <3>5
  <2>3. \A s \in Slots \ {"params", "node"} : Own(t)'[s] = Own(t)[s]
    <3>1. /\ Own(t)'["curdir"] = Own(t)["curdir"] /\ Own(t)'["strings"] = Own(t)["strings"]
          /\ Own(t)'["stream"] = Own(t)["stream"]
      BY <1>1 DEF Own
    <3> QED BY <3>1 DEF Slots
  <2> QED BY <2>1, <2>2, <2>3
<1>9. allocated' = (allocated \ freed) \cup taken /\ taken \cap (allocated \ freed) = {}
  BY <1>1, <1>3 DEF Unused
<1>10. \A b \in freed : \E s \in Slots : b \in Own(t)[s]
  BY <1>8 DEF Slots
<1>11. \A s \in Slots : \A b \in Own(t)'[s] :
           b \in taken \/ (b \notin freed /\ \E r \in Slots : b \in Own(t)[r])
  BY <1>8, OwnApart DEF Slots
<1>12. \A s, r \in Slots : s # r => Own(t)'[s] \cap Own(t)'[r] = {}
  <2>1. \A s \in Slots \ {"params", "node"} : first \notin Own(t)[s]
    <3>1. first = block \/ first \notin allocated
      BY <1>3 DEF Unused
    <3> QED BY <1>8, <3>1, OwnApart DEF Slots
  <2> QED BY <1>8, <2>1, OwnApart DEF Slots
<1>13. Trade(t, freed, taken)
  BY <1>9, <1>10, <1>11, <1>12 DEF Trade
<1> HIDE DEF freed, taken
<1> QED BY <1>1, <1>5, <1>6, <1>7, <1>13, Traded

\* What the loops drop is the n they own, if they own one.
LEMMA DroppedOwn ==
    ASSUME WalkInv, NEW t \in Task, pc[t] = "list"
    PROVE  Dropped(t) = Own(t)["node"] /\ Freeable(Dropped(t))
<1>1. Place(t) = "list"
  BY DEF Place, OnDisk
<1>2. Dropped(t) = Own(t)["node"]
  BY <1>1 DEF Dropped, Own, Loose
<1> QED BY <1>2, OwnApart DEF Freeable, Slots

\* GrabInode from the cache: the n dropped before may come back as the next one.
LEMMA HitWalk == ASSUME WalkInv, NEW t \in Task, Hit(t) PROVE WalkInv'
<1> USE Typed
<1> DEFINE freed == Dropped(t)
           first == First(Unused \cup Dropped(t))
           taken == {first}
           bytes == IF cache[Current(t)] = "filled" THEN Current(t) ELSE NULL
<1>drop. freed = Own(t)["node"] /\ Freeable(freed) /\ pc[t] = "list"
  BY DroppedOwn DEF Hit, At
<1>1. /\ pc[t] = "list" /\ entry[t] <= Len(Entries[listing[t]])
      /\ Unused \cup freed # {}
      /\ allocated' = (allocated \ freed) \cup taken
      /\ content' = [content EXCEPT ![first] = bytes]
      /\ node' = [node EXCEPT ![t] = first] /\ pc' = [pc EXCEPT ![t] = "compare"]
      /\ UNCHANGED <<cache, holder, queue, floppyInUse, path, level, entry, listing, curdir,
                     strings, params, left, then, file, arguments, opens, fault>>
  BY <1>drop DEF Hit, At, Goto, diskVars, readVars, fileVars
<1>2. freed \subseteq allocated /\ allocated \subseteq Block
  BY <1>drop DEF Freeable, WalkInv, TypeOK
<1>3. first \in Block /\ first \in Unused \cup freed /\ first # NULL
  <2>1. Unused \cup freed \in SUBSET Block
    BY <1>2 DEF Unused
  <2> QED BY <1>1, <2>1, FirstFacts, ImageAssumption DEF Block
<1> HIDE DEF freed, first
<1>4. /\ Place(t) = "list" /\ Place(t)' = "compare" /\ AtLastName(t)' = AtLastName(t)
      /\ pc'[t] = "compare"
  BY <1>1 DEF Place, OnDisk, AtLastName
<1>5. TypeOK'
  <2>1. allocated' \subseteq Block
    BY <1>1, <1>2, <1>3
  <2>2. bytes \in Inode \cup {NULL}
    <3>1. listing[t] \in Inode /\ entry[t] \in Nat \ {0}
      BY <1>4 DEF Course
    <3>2. Entries[listing[t]] \in Seq(Inode)
      BY <3>1, ImageAssumption
    <3>3. entry[t] \in 1..Len(Entries[listing[t]])
      BY <1>1, <3>1, <3>2
    <3> QED BY <3>2, <3>3 DEF Current
  <2> HIDE DEF bytes
  <2>3. content' \in [Block -> Inode \cup {NULL}]
    BY <1>1, <1>3, <2>2 DEF WalkInv, TypeOK
  <2>4. node' \in [Task -> BlockOrNull] /\ pc' \in [Task -> Labels]
    BY <1>1, <1>3 DEF Labels, BlockOrNull
  <2> QED BY <1>1, <2>1, <2>3, <2>4 DEF WalkInv, TypeOK, BlockOrNull
<1>6. Elsewhere(t)
  BY <1>1 DEF Elsewhere
<1>7. Course(t)'
  <2>1. node'[t] # NULL
    BY <1>1, <1>3
  <2> QED BY <1>1, <1>4, <2>1 DEF Course, OnDisk
<1>8. /\ Own(t)'["node"] = {first}
      /\ \A s \in Slots \ {"node"} : Own(t)'[s] = Own(t)[s]
  <2>1. Own(t)'["node"] = {first}
    <3>1. ~Loose(t)'
      BY <1>4 DEF Loose
    <3> QED BY <1>1, <1>3, <3>1 DEF Own
  <2>2. /\ Own(t)'["curdir"] = Own(t)["curdir"] /\ Own(t)'["strings"] = Own(t)["strings"]
        /\ Own(t)'["stream"] = Own(t)["stream"] /\ Own(t)'["params"] = Own(t)["params"]
    BY <1>1 DEF Own
  <2> QED BY <2>1, <2>2 DEF Slots
<1>9. taken \cap (allocated \ freed) = {}
  BY <1>3 DEF Unused
<1>10. \A b \in freed : \E s \in Slots : b \in Own(t)[s]
  BY <1>drop DEF Slots
<1>11. \A s \in Slots : \A b \in Own(t)'[s] :
           b \in taken \/ (b \notin freed /\ \E r \in Slots : b \in Own(t)[r])
  BY <1>drop, <1>8, OwnApart DEF Slots
<1>12. \A s, r \in Slots : s # r => Own(t)'[s] \cap Own(t)'[r] = {}
  <2>1. \A s \in Slots \ {"node"} : first \notin Own(t)[s]
    BY <1>drop, <1>3, OwnApart DEF Slots, Unused
  <2> QED BY <1>8, <2>1, OwnApart DEF Slots
<1>13. Trade(t, freed, taken)
  BY <1>1, <1>9, <1>10, <1>11, <1>12 DEF Trade
<1> HIDE DEF taken, bytes
<1> QED BY <1>1, <1>5, <1>6, <1>7, <1>13, Traded

\* GrabInode from the disk: the task has no n while it reads.
LEMMA MissWalk == ASSUME WalkInv, NEW t \in Task, Miss(t) PROVE WalkInv'
<1> USE Typed
<1> DEFINE freed == Dropped(t)
<1>drop. freed = Own(t)["node"] /\ Freeable(freed) /\ pc[t] = "list"
  BY DroppedOwn DEF Miss, At
<1>1. /\ pc[t] = "list" /\ entry[t] <= Len(Entries[listing[t]])
      /\ allocated' = allocated \ freed
      /\ node' = [node EXCEPT ![t] = NULL] /\ pc' = [pc EXCEPT ![t] = "acquire"]
      /\ left' = [left EXCEPT ![t] = Sectors(Current(t))] /\ then' = [then EXCEPT ![t] = "mark"]
      /\ UNCHANGED <<content, cache, holder, queue, floppyInUse, path, level, entry, listing, curdir,
                     strings, params, file, arguments, opens, fault>>
  BY <1>drop DEF Miss, ReadSectors, At, Goto, diskVars, fileVars
<1> HIDE DEF freed
<1>2. /\ Place(t) = "list" /\ Place(t)' = "mark" /\ ~HasNode(t)'
      /\ pc'[t] = "acquire" /\ then'[t] = "mark" /\ left'[t] >= 1
  BY <1>1 DEF Place, OnDisk, HasNode, Sectors
<1>3. TypeOK'
  <2>1. allocated' \subseteq Block
    BY <1>1 DEF WalkInv, TypeOK
  <2>2. left' \in [Task -> Nat]
    BY <1>1 DEF Sectors
  <2>3. pc' \in [Task -> Labels] /\ then' \in [Task -> Labels] /\ node' \in [Task -> BlockOrNull]
    BY <1>1 DEF Labels, BlockOrNull
  <2> QED BY <1>1, <2>1, <2>2, <2>3 DEF WalkInv, TypeOK, BlockOrNull
<1>4. Elsewhere(t)
  BY <1>1 DEF Elsewhere
<1>5. Course(t)'
  BY <1>1, <1>2 DEF Course, OnDisk
<1>6. /\ Own(t)'["node"] = {}
      /\ \A s \in Slots \ {"node"} : Own(t)'[s] = Own(t)[s]
  <2>1. Own(t)'["node"] = {}
    BY <1>1 DEF Own
  <2>2. /\ Own(t)'["curdir"] = Own(t)["curdir"] /\ Own(t)'["strings"] = Own(t)["strings"]
        /\ Own(t)'["stream"] = Own(t)["stream"] /\ Own(t)'["params"] = Own(t)["params"]
    BY <1>1 DEF Own
  <2> QED BY <2>1, <2>2 DEF Slots
<1>7. \A b \in freed : \E s \in Slots : b \in Own(t)[s]
  BY <1>drop DEF Slots
<1>8. \A s \in Slots : \A b \in Own(t)'[s] : b \notin freed /\ \E r \in Slots : b \in Own(t)[r]
  BY <1>drop, <1>6, OwnApart DEF Slots
<1>9. \A s, r \in Slots : s # r => Own(t)'[s] \cap Own(t)'[r] = {}
  BY <1>6, OwnApart DEF Slots
<1>10. Trade(t, freed, {})
  BY <1>1, <1>7, <1>8, <1>9 DEF Trade
<1> QED BY <1>1, <1>3, <1>4, <1>5, <1>10, Traded

\* The last loop frees n at once, and reads it no more; the others free it at the next entry.
LEMMA SkipWalk == ASSUME WalkInv, NEW t \in Task, Skip(t) PROVE WalkInv'
<1> USE Typed
<1>1. pc[t] = "compare" /\ Place(t) = "compare" /\ node[t] # NULL
  BY DEF Skip, At, Place, OnDisk, Course, HasNode
<1>2. Own(t)["node"] = {node[t]} /\ Freeable({node[t]})
  <2>1. Own(t)["node"] = {node[t]}
    BY <1>1 DEF Own, Loose
  <2> QED BY <2>1, OwnApart DEF Freeable, Slots
<1> DEFINE freed == IF AtLastName(t) THEN {node[t]} ELSE {}
<1>3. /\ entry' = [entry EXCEPT ![t] = @ + 1] /\ allocated' = allocated \ freed
      /\ pc' = [pc EXCEPT ![t] = "list"]
      /\ UNCHANGED <<content, cache, holder, queue, floppyInUse, path, level, listing, curdir, node,
                     strings, params, left, then, file, arguments, opens, fault>>
  BY <1>2 DEF Skip, Goto, diskVars, readVars, fileVars
<1>4. /\ Place(t)' = "list" /\ ~HasNode(t)' /\ pc'[t] = "list" /\ AtLastName(t)' = AtLastName(t)
  BY <1>1, <1>3 DEF Place, OnDisk, HasNode, AtLastName
<1>5. TypeOK'
  <2>1. allocated' \subseteq Block
    BY <1>3 DEF WalkInv, TypeOK
  <2>2. entry' \in [Task -> Nat \ {0}] /\ pc' \in [Task -> Labels]
    BY <1>3 DEF Labels
  <2> QED BY <1>3, <2>1, <2>2 DEF WalkInv, TypeOK, BlockOrNull
<1>6. Elsewhere(t)
  BY <1>3 DEF Elsewhere
<1>7. Course(t)'
  BY <1>1, <1>3, <1>4 DEF Course, OnDisk
<1>8. /\ Own(t)'["node"] = (IF AtLastName(t) THEN {} ELSE Own(t)["node"])
      /\ \A s \in Slots \ {"node"} : Own(t)'[s] = Own(t)[s]
  <2>1. Own(t)'["node"] = (IF AtLastName(t) THEN {} ELSE {node[t]} \ {NULL})
    BY <1>3, <1>4 DEF Own, Loose
  <2>2. /\ Own(t)'["curdir"] = Own(t)["curdir"] /\ Own(t)'["strings"] = Own(t)["strings"]
        /\ Own(t)'["stream"] = Own(t)["stream"] /\ Own(t)'["params"] = Own(t)["params"]
    BY <1>3 DEF Own
  <2> QED BY <1>1, <1>2, <2>1, <2>2 DEF Slots
<1>9. \A b \in freed : \E s \in Slots : b \in Own(t)[s]
  BY <1>2 DEF Slots
<1>10. \A s \in Slots : \A b \in Own(t)'[s] : b \notin freed /\ \E r \in Slots : b \in Own(t)[r]
  BY <1>2, <1>8, OwnApart DEF Slots
<1>11. \A s, r \in Slots : s # r => Own(t)'[s] \cap Own(t)'[r] = {}
  BY <1>8, OwnApart DEF Slots
<1>12. Trade(t, freed, {})
  BY <1>3, <1>9, <1>10, <1>11 DEF Trade
<1> HIDE DEF freed
<1> QED BY <1>1, <1>3, <1>5, <1>6, <1>7, <1>12, Traded

\* A directory becomes curdir: with one directory the task is then at the last name, where n
\* is neither freed nor read until it is another block.
LEMMA DescendWalk == ASSUME Shallow, WalkInv, NEW t \in Task, Descend(t) PROVE WalkInv'
<1> USE Typed
<1>1. /\ pc[t] = "compare" /\ Place(t) = "compare" /\ node[t] # NULL /\ curdir[t] # NULL
      /\ path[t] \in Paths /\ Len(path[t].dirs) = 1 /\ level[t] = 0
  <2>1. pc[t] = "compare" /\ Place(t) = "compare" /\ HasNode(t) /\ ~AtLastName(t)
    BY DEF Descend, At, Place, OnDisk, HasNode
  <2>2. path[t] \in Paths /\ level[t] \in 0..Len(path[t].dirs) /\ node[t] # NULL /\ curdir[t] # NULL
    BY <2>1 DEF Course
  <2>3. Len(path[t].dirs) \in 0..1 /\ level[t] # Len(path[t].dirs)
    BY <2>1, <2>2 DEF Shallow, AtLastName
  <2>4. Len(path[t].dirs) = 1 /\ level[t] = 0
    <3> DEFINE n == Len(path[t].dirs)
               j == level[t]
    <3>1. n \in 0..1 /\ j \in 0..n /\ j # n
      BY <2>2, <2>3
    <3> HIDE DEF n, j
    <3>2. n = 1 /\ j = 0
      BY <3>1
    <3> QED BY <3>2 DEF n, j
  <2> QED BY <2>1, <2>2, <2>4
<1> DEFINE freed == {curdir[t]}
<1>2. Own(t)["curdir"] = freed /\ Own(t)["node"] = {node[t]} /\ Freeable(freed)
  <2>1. Own(t)["curdir"] = freed /\ Own(t)["node"] = {node[t]}
    BY <1>1 DEF Own, Loose
  <2> QED BY <2>1, OwnApart DEF Freeable, Slots
<1>3. /\ allocated' = allocated \ freed
      /\ curdir' = [curdir EXCEPT ![t] = node[t]]
      /\ level' = [level EXCEPT ![t] = @ + 1] /\ pc' = [pc EXCEPT ![t] = "readdir"]
      /\ UNCHANGED <<content, cache, holder, queue, floppyInUse, path, entry, listing, node,
                     strings, params, left, then, file, arguments, opens, fault>>
  BY <1>2 DEF Descend, Goto, diskVars, readVars, fileVars
<1> HIDE DEF freed
<1>4. /\ Place(t)' = "readdir" /\ ~HasNode(t)' /\ pc'[t] = "readdir"
      /\ level'[t] = 1 /\ AtLastName(t)'
  <2>1. level'[t] = level[t] + 1 /\ path'[t] = path[t]
    BY <1>3
  <2>2. level'[t] = 1
    BY <1>1, <2>1
  <2> QED BY <1>1, <1>3, <2>1, <2>2 DEF Place, OnDisk, HasNode, AtLastName
<1>5. TypeOK'
  <2>1. allocated' \subseteq Block
    BY <1>3 DEF WalkInv, TypeOK
  <2>2. level' \in [Task -> Nat]
    BY <1>1, <1>3
  <2>3. pc' \in [Task -> Labels] /\ curdir' \in [Task -> BlockOrNull]
    BY <1>3 DEF Labels
  <2> QED BY <1>3, <2>1, <2>2, <2>3 DEF WalkInv, TypeOK, BlockOrNull
<1>6. Elsewhere(t)
  BY <1>3 DEF Elsewhere
<1>7. Course(t)'
  <2>1. path'[t] = path[t] /\ level'[t] = 1 /\ curdir'[t] = node[t]
    BY <1>1, <1>3
  <2>2. Len(path[t].dirs) = 1
    BY <1>1
  <2>3. level'[t] \in 0..Len(path'[t].dirs)
    BY <2>1, <2>2
  <2>4. curdir'[t] # NULL
    BY <1>1, <2>1
  <2> QED BY <1>1, <1>3, <1>4, <2>3, <2>4 DEF Course, OnDisk
<1>8. /\ Own(t)'["node"] = {} /\ Own(t)'["curdir"] = Own(t)["node"]
      /\ Own(t)'["strings"] = Own(t)["strings"]
      /\ Own(t)'["stream"] = Own(t)["stream"] /\ Own(t)'["params"] = Own(t)["params"]
  <2>1. Own(t)'["node"] = {}
    BY <1>4 DEF Own, Loose
  <2>2. Own(t)'["curdir"] = {node[t]} \ {NULL}
    BY <1>3 DEF Own
  <2>3. /\ Own(t)'["strings"] = Own(t)["strings"]
        /\ Own(t)'["stream"] = Own(t)["stream"] /\ Own(t)'["params"] = Own(t)["params"]
    BY <1>3 DEF Own
  <2> QED BY <1>1, <1>2, <2>1, <2>2, <2>3
<1>9. \A b \in freed : \E s \in Slots : b \in Own(t)[s]
  BY <1>2 DEF Slots
<1>10. \A s \in Slots : \A b \in Own(t)'[s] : b \notin freed /\ \E r \in Slots : b \in Own(t)[r]
  BY <1>2, <1>8, OwnApart DEF Slots
<1>11. \A s, r \in Slots : s # r => Own(t)'[s] \cap Own(t)'[r] = {}
  BY <1>8, OwnApart DEF Slots
<1>12. Trade(t, freed, {})
  BY <1>3, <1>9, <1>10, <1>11 DEF Trade
<1> QED BY <1>1, <1>3, <1>5, <1>6, <1>7, <1>12, Traded

\* The end of the walk frees the strings and curdir, and keeps n.
LEMMA FoundWalk == ASSUME WalkInv, NEW t \in Task, Found(t) PROVE WalkInv'
<1> USE Typed
<1>1. /\ pc[t] = "compare" /\ Place(t) = "compare" /\ node[t] # NULL /\ curdir[t] # NULL
      /\ AtLastName(t)
  BY DEF Found, At, Place, OnDisk, HasNode, Course
<1> DEFINE freed == strings[t] \cup {curdir[t]}
<1>2. Own(t)["curdir"] \cup Own(t)["strings"] = freed /\ Freeable(freed)
  <2>1. Own(t)["curdir"] \cup Own(t)["strings"] = freed
    BY <1>1 DEF Own
  <2> QED BY <2>1, OwnApart DEF Freeable, Slots
<1>3. /\ allocated' = allocated \ freed
      /\ curdir' = [curdir EXCEPT ![t] = NULL] /\ strings' = [strings EXCEPT ![t] = {}]
      /\ pc' = [pc EXCEPT ![t] = "found"]
      /\ UNCHANGED <<content, cache, holder, queue, floppyInUse, path, level, entry, listing, node,
                     params, left, then, file, arguments, opens, fault>>
  BY <1>2 DEF Found, Goto, diskVars, readVars, fileVars
<1> HIDE DEF freed
<1>4. /\ Place(t)' = "found" /\ pc'[t] = "found" /\ AtLastName(t)'
  BY <1>1, <1>3 DEF Place, OnDisk, AtLastName
<1>5. TypeOK'
  <2>1. allocated' \subseteq Block
    BY <1>3 DEF WalkInv, TypeOK
  <2>2. strings' \in [Task -> SUBSET Block]
    BY <1>3
  <2>3. pc' \in [Task -> Labels] /\ curdir' \in [Task -> BlockOrNull]
    BY <1>3 DEF Labels, BlockOrNull
  <2> QED BY <1>3, <2>1, <2>2, <2>3 DEF WalkInv, TypeOK, BlockOrNull
<1>6. Elsewhere(t)
  BY <1>3 DEF Elsewhere
<1>7. Course(t)'
  BY <1>1, <1>3, <1>4 DEF Course, OnDisk
<1>8. /\ Own(t)'["node"] = Own(t)["node"] /\ Own(t)'["curdir"] = {}
      /\ Own(t)'["strings"] = {}
      /\ Own(t)'["stream"] = Own(t)["stream"] /\ Own(t)'["params"] = Own(t)["params"]
  <2>1. Own(t)'["node"] = Own(t)["node"]
    BY <1>1, <1>3, <1>4 DEF Own, Loose
  <2>2. Own(t)'["curdir"] = {} /\ Own(t)'["strings"] = {}
    BY <1>3 DEF Own
  <2>3. Own(t)'["stream"] = Own(t)["stream"] /\ Own(t)'["params"] = Own(t)["params"]
    BY <1>3 DEF Own
  <2> QED BY <2>1, <2>2, <2>3
<1>9. \A b \in freed : \E s \in Slots : b \in Own(t)[s]
  BY <1>2 DEF Slots
<1>10. \A s \in Slots : \A b \in Own(t)'[s] : b \notin freed /\ \E r \in Slots : b \in Own(t)[r]
  BY <1>2, <1>8, OwnApart DEF Slots
<1>11. \A s, r \in Slots : s # r => Own(t)'[s] \cap Own(t)'[r] = {}
  BY <1>8, OwnApart DEF Slots
<1>12. Trade(t, freed, {})
  BY <1>3, <1>9, <1>10, <1>11 DEF Trade
<1> QED BY <1>1, <1>3, <1>5, <1>6, <1>7, <1>12, Traded

\* CLOSE frees the arguments of the stream.
LEMMA CloseWalk == ASSUME WalkInv, NEW t \in Task, Close(t) PROVE WalkInv'
<1> USE Typed
<1>1. /\ pc[t] = "open" /\ Place(t) = "open" /\ file[t] # NULL /\ arguments[t] # NULL
  BY DEF Close, At, Place, OnDisk, Course
<1> DEFINE freed == {arguments[t]}
<1>2. freed \subseteq Own(t)["stream"] /\ Freeable(freed)
  <2>1. freed \subseteq Own(t)["stream"]
    BY <1>1 DEF Own
  <2> QED BY <2>1, OwnApart DEF Freeable, Slots
<1>3. /\ allocated' = allocated \ freed
      /\ file' = [file EXCEPT ![t] = NULL] /\ arguments' = [arguments EXCEPT ![t] = NULL]
      /\ path' = [path EXCEPT ![t] = NULL] /\ level' = [level EXCEPT ![t] = 0]
      /\ entry' = [entry EXCEPT ![t] = 1] /\ listing' = [listing EXCEPT ![t] = NULL]
      /\ pc' = [pc EXCEPT ![t] = "idle"]
      /\ UNCHANGED <<content, cache, holder, queue, floppyInUse, curdir, strings, node,
                     params, left, then, opens, fault>>
  BY <1>2 DEF Close, EndWalk, Goto, diskVars, readVars
<1> HIDE DEF freed
<1>4. /\ Place(t)' = "idle" /\ pc'[t] = "idle" /\ ~HasNode(t)'
  BY <1>1, <1>3 DEF Place, OnDisk, HasNode
<1>5. TypeOK'
  <2>1. allocated' \subseteq Block
    BY <1>3 DEF WalkInv, TypeOK
  <2>2. /\ path' \in [Task -> Paths \cup {NULL}] /\ listing' \in [Task -> Inode \cup {NULL}]
        /\ level' \in [Task -> Nat] /\ entry' \in [Task -> Nat \ {0}]
    BY <1>3
  <2>3. /\ pc' \in [Task -> Labels] /\ file' \in [Task -> BlockOrNull] /\ arguments' \in [Task -> BlockOrNull]
    BY <1>3 DEF Labels, BlockOrNull
  <2> QED BY <1>3, <2>1, <2>2, <2>3 DEF WalkInv, TypeOK, BlockOrNull
<1>6. Elsewhere(t)
  BY <1>3 DEF Elsewhere
<1>7. Course(t)'
  BY <1>1, <1>3, <1>4 DEF Course, OnDisk
<1>8. /\ Own(t)'["node"] = {} /\ Own(t)'["curdir"] = Own(t)["curdir"]
      /\ Own(t)'["strings"] = Own(t)["strings"]
      /\ Own(t)'["stream"] = {} /\ Own(t)'["params"] = Own(t)["params"]
  <2>1. Own(t)'["node"] = {}
    BY <1>4 DEF Own, Loose
  <2>2. Own(t)'["curdir"] = Own(t)["curdir"] /\ Own(t)'["strings"] = Own(t)["strings"]
    BY <1>3 DEF Own
  <2>3. Own(t)'["stream"] = {} /\ Own(t)'["params"] = Own(t)["params"]
    BY <1>3 DEF Own
  <2> QED BY <2>1, <2>2, <2>3
<1>9. \A b \in freed : \E s \in Slots : b \in Own(t)[s]
  BY <1>2 DEF Slots
<1>10. \A s \in Slots : \A b \in Own(t)'[s] : b \notin freed /\ \E r \in Slots : b \in Own(t)[r]
  BY <1>2, <1>8, OwnApart DEF Slots
<1>11. \A s, r \in Slots : s # r => Own(t)'[s] \cap Own(t)'[r] = {}
  BY <1>8, OwnApart DEF Slots
<1>12. Trade(t, freed, {})
  BY <1>3, <1>9, <1>10, <1>11 DEF Trade
<1> QED BY <1>1, <1>3, <1>5, <1>6, <1>7, <1>12, Traded

\* OPEN hands n over to the stream, which takes the second of two blocks.
LEMMA MakeStreamWalk == ASSUME WalkInv, NEW t \in Task, MakeStream(t) PROVE WalkInv'
<1> USE Typed
<1> DEFINE one == Nth(1)
           two == Nth(2)
<1>1. one \in Unused /\ two \in Unused /\ two \in Block /\ two # NULL /\ two \notin allocated
  <2>1. Nth(1) \in Unused /\ Nth(2) \in Unused
    BY NthFacts DEF MakeStream
  <2> QED BY <2>1, ImageAssumption DEF Unused, Block
<1>2. /\ pc[t] = "found" /\ allocated' = allocated \cup {two}
      /\ content' = [content EXCEPT ![one] = NULL, ![two] = NULL]
      /\ arguments' = [arguments EXCEPT ![t] = two]
      /\ file' = [file EXCEPT ![t] = node[t]] /\ node' = [node EXCEPT ![t] = NULL]
      /\ path' = [path EXCEPT ![t] = path[t]] /\ level' = [level EXCEPT ![t] = 0]
      /\ entry' = [entry EXCEPT ![t] = 1] /\ listing' = [listing EXCEPT ![t] = NULL]
      /\ pc' = [pc EXCEPT ![t] = "open"]
      /\ UNCHANGED <<cache, holder, queue, floppyInUse, curdir, strings,
                     params, left, then, opens, fault>>
  BY DEF MakeStream, EndWalk, At, Goto, diskVars, readVars
<1> HIDE DEF one, two
<1>3. /\ Place(t) = "found" /\ node[t] # NULL /\ file[t] = NULL
      /\ Place(t)' = "open" /\ pc'[t] = "open" /\ ~HasNode(t)'
  BY <1>2 DEF Place, OnDisk, HasNode, Course
<1>5. TypeOK'
  <2>1. allocated' \subseteq Block /\ content' \in [Block -> Inode \cup {NULL}]
    BY <1>1, <1>2 DEF WalkInv, TypeOK, Unused
  <2>2. /\ path' \in [Task -> Paths \cup {NULL}] /\ listing' \in [Task -> Inode \cup {NULL}]
        /\ level' \in [Task -> Nat] /\ entry' \in [Task -> Nat \ {0}]
    BY <1>2
  <2>3. pc' \in [Task -> Labels] /\ file' \in [Task -> BlockOrNull] /\ node' \in [Task -> BlockOrNull]
    BY <1>2 DEF Labels, BlockOrNull
  <2>4. arguments' \in [Task -> BlockOrNull]
    BY <1>1, <1>2 DEF BlockOrNull
  <2> QED BY <1>2, <2>1, <2>2, <2>3, <2>4 DEF WalkInv, TypeOK, BlockOrNull
<1>6. Elsewhere(t)
  BY <1>2 DEF Elsewhere
<1>7. Course(t)'
  <2>1. file'[t] # NULL /\ arguments'[t] # NULL
    BY <1>1, <1>2, <1>3
  <2> QED BY <1>2, <1>3, <2>1 DEF Course, OnDisk
<1> DEFINE taken == {two}
<1>8. /\ Own(t)'["node"] = {} /\ Own(t)'["curdir"] = Own(t)["curdir"]
      /\ Own(t)'["strings"] = Own(t)["strings"]
      /\ Own(t)'["stream"] = Own(t)["node"] \cup taken /\ Own(t)'["params"] = Own(t)["params"]
  <2>1. Own(t)'["node"] = {}
    BY <1>3 DEF Own, Loose
  <2>2. Own(t)["node"] = {node[t]}
    BY <1>3 DEF Own, Loose
  <2>3. Own(t)'["curdir"] = Own(t)["curdir"] /\ Own(t)'["strings"] = Own(t)["strings"]
    BY <1>2 DEF Own
  <2>4. Own(t)'["stream"] = {node[t], two} /\ Own(t)'["params"] = Own(t)["params"]
    <3>1. file'[t] = node[t] /\ arguments'[t] = two
      BY <1>2
    <3>2. Own(t)'["stream"] = {file'[t], arguments'[t]} \ {NULL}
      BY DEF Own
    <3> QED BY <1>1, <1>2, <1>3, <3>1, <3>2 DEF Own
  <2> QED BY <2>1, <2>2, <2>3, <2>4
<1>9. allocated' = (allocated \ {}) \cup taken /\ taken \cap (allocated \ {}) = {}
  BY <1>1, <1>2
<1>10. \A s \in Slots : \A b \in Own(t)'[s] : b \in taken \/ \E r \in Slots : b \in Own(t)[r]
  BY <1>8 DEF Slots
<1>11. \A s, r \in Slots : s # r => Own(t)'[s] \cap Own(t)'[r] = {}
  <2>1. \A s \in Slots : two \notin Own(t)[s]
    BY <1>1, OwnApart
  <2> QED BY <1>8, <2>1, OwnApart DEF Slots
<1>12. Trade(t, {}, taken)
  BY <1>9, <1>10, <1>11 DEF Trade
<1> HIDE DEF taken
<1> QED BY <1>2, <1>5, <1>6, <1>7, <1>12, Traded

\* OPEN takes the blocks of the strings and of the root from those not in use.
LEMMA OpenWalk == ASSUME Shallow, WalkInv, NEW t \in Task, Open(t) PROVE WalkInv'
<1> USE Typed
<1>1. PICK p \in Paths :
          LET dirs == Len(p.dirs)
              strs == IF dirs = 0 THEN 1 ELSE dirs + 2
          IN  /\ path' = [path EXCEPT ![t] = p]
              /\ Malloc(strs + 2, Root)
              /\ strings' = [strings EXCEPT ![t] = {Nth(i + 1) : i \in 1..strs}]
              /\ curdir' = [curdir EXCEPT ![t] = Nth(strs + 2)]
  BY DEF Open
<1> DEFINE dirs == Len(p.dirs)
           strs == IF dirs = 0 THEN 1 ELSE dirs + 2
           taken == Fresh(strs + 2)
           names == {Nth(i + 1) : i \in 1..strs}
           root == Nth(strs + 2)
<1>2. dirs \in 0..1 /\ strs \in Nat /\ Cardinality(Unused) >= strs + 2
  BY <1>1 DEF Shallow, Malloc
<1>3. /\ \A i \in 1..strs+2 : Nth(i) \in Unused
      /\ \A i, j \in 1..strs+2 : i # j => Nth(i) # Nth(j)
  BY <1>2, NthFacts
<1>4. /\ pc[t] = "idle" /\ opens[t] < MaxOpens
      /\ path' = [path EXCEPT ![t] = p] /\ strings' = [strings EXCEPT ![t] = names]
      /\ curdir' = [curdir EXCEPT ![t] = root]
      /\ allocated' = allocated \cup taken
      /\ content' = [b \in Block |-> IF b \notin taken THEN content[b] ELSE IF b = root THEN Root ELSE NULL]
      /\ level' = [level EXCEPT ![t] = 0] /\ node' = [node EXCEPT ![t] = NULL]
      /\ opens' = [opens EXCEPT ![t] = @ + 1] /\ pc' = [pc EXCEPT ![t] = "readdir"]
      /\ UNCHANGED <<cache, holder, queue, floppyInUse, entry, listing, left, then, params,
                     file, arguments, fault>>
  BY <1>1 DEF Open, At, Malloc, Goto, diskVars, readVars
<1>5. /\ taken \subseteq Unused /\ names \subseteq taken /\ root \in taken /\ root \notin names
  <2> HIDE DEF strs
  <2>1. taken \subseteq Unused
    BY <1>3 DEF Fresh
  <2>2. \A i \in 1..strs : i + 1 \in 1..strs+2 /\ i + 1 # strs + 2
    BY <1>2
  <2>3. strs + 2 \in 1..strs+2
    BY <1>2
  <2>4. names \subseteq taken /\ root \in taken
    BY <2>2, <2>3 DEF Fresh
  <2>5. root \notin names
    BY <1>3, <2>2, <2>3
  <2> QED BY <2>1, <2>4, <2>5
<1>6. taken \subseteq Block /\ taken \cap allocated = {} /\ NULL \notin taken
  BY <1>5, ImageAssumption DEF Unused, Block
<1>7. p \in Paths /\ Len(p.dirs) \in Nat
  BY <1>2
<1> HIDE DEF taken, names, root, strs, dirs
<1>8. Place(t) = "idle" /\ Place(t)' = "readdir" /\ pc'[t] = "readdir" /\ ~HasNode(t)'
  BY <1>4 DEF Place, OnDisk, HasNode
<1>9. TypeOK'
  <2>1. allocated' \subseteq Block /\ content' \in [Block -> Inode \cup {NULL}]
    BY <1>4, <1>6, ImageAssumption DEF WalkInv, TypeOK
  <2>2. path' \in [Task -> Paths \cup {NULL}] /\ level' \in [Task -> Nat]
    BY <1>4
  <2>3. pc' \in [Task -> Labels] /\ node' \in [Task -> BlockOrNull]
    BY <1>4 DEF Labels, BlockOrNull
  <2>4. curdir' \in [Task -> BlockOrNull] /\ strings' \in [Task -> SUBSET Block]
    BY <1>4, <1>5, <1>6 DEF BlockOrNull
  <2>5. opens' \in [Task -> 0..MaxOpens]
    BY <1>4, ImageAssumption DEF WalkInv, TypeOK
  <2> QED BY <1>4, <2>1, <2>2, <2>3, <2>4, <2>5 DEF WalkInv, TypeOK, BlockOrNull
<1>10. Elsewhere(t)
  BY <1>4 DEF Elsewhere
<1>11. Course(t)'
  <2>1. path'[t] \in Paths /\ level'[t] \in 0..Len(path'[t].dirs) /\ curdir'[t] # NULL /\ file'[t] = NULL
    BY <1>4, <1>5, <1>6, <1>7, <1>8 DEF Course
  <2> QED BY <1>4, <1>8, <2>1 DEF Course, OnDisk
<1>12. /\ Own(t)'["node"] = {} /\ Own(t)'["curdir"] = {root}
       /\ Own(t)'["strings"] = names
       /\ Own(t)'["stream"] = Own(t)["stream"] /\ Own(t)'["params"] = Own(t)["params"]
  <2>1. Own(t)'["node"] = {} /\ Own(t)'["curdir"] = {root}
    BY <1>4, <1>5, <1>6 DEF Own
  <2>2. /\ Own(t)'["strings"] = names
        /\ Own(t)'["stream"] = Own(t)["stream"] /\ Own(t)'["params"] = Own(t)["params"]
    BY <1>4 DEF Own
  <2> QED BY <2>1, <2>2
<1>13. allocated' = (allocated \ {}) \cup taken /\ taken \cap (allocated \ {}) = {}
  BY <1>4, <1>6
<1>14. \A s \in Slots : \A b \in Own(t)'[s] : b \in taken \/ \E r \in Slots : b \in Own(t)[r]
  BY <1>5, <1>12 DEF Slots
<1>15. \A s, r \in Slots : s # r => Own(t)'[s] \cap Own(t)'[r] = {}
  <2>1. \A s \in Slots : \A b \in taken : b \notin Own(t)[s]
    BY <1>6, OwnApart
  <2> QED BY <1>5, <1>12, <2>1, OwnApart DEF Slots
<1>16. Trade(t, {}, taken)
  BY <1>13, <1>14, <1>15 DEF Trade
<1> QED BY <1>4, <1>9, <1>10, <1>11, <1>16, Traded

\* Before the first OPEN nobody owns a block.
LEMMA InitWalk == Init => WalkInv
<1> SUFFICES ASSUME Init PROVE WalkInv
  OBVIOUS
<1>1. TypeOK
  <2>1. /\ allocated \subseteq Block /\ content \in [Block -> Inode \cup {NULL}]
        /\ holder \in Task \cup {NULL} /\ floppyInUse \in BOOLEAN
    BY DEF Init
  <2>5. cache \in [Inode -> {"absent", "marked", "filled"}]
    BY DEF Init
  <2>6. queue \in Seq(Task)
    BY DEF Init
  <2>2. /\ pc \in [Task -> Labels] /\ then \in [Task -> Labels] /\ left \in [Task -> Nat]
        /\ path \in [Task -> Paths \cup {NULL}] /\ listing \in [Task -> Inode \cup {NULL}]
        /\ level \in [Task -> Nat] /\ entry \in [Task -> Nat \ {0}]
    BY DEF Init, Labels
  <2>3. /\ curdir \in [Task -> BlockOrNull] /\ node \in [Task -> BlockOrNull]
        /\ params \in [Task -> BlockOrNull] /\ file \in [Task -> BlockOrNull]
        /\ arguments \in [Task -> BlockOrNull] /\ strings \in [Task -> SUBSET Block]
    BY DEF Init, BlockOrNull
  <2>4. opens \in [Task -> 0..MaxOpens]
    BY ImageAssumption DEF Init
  <2> QED BY <2>1, <2>2, <2>3, <2>4, <2>5, <2>6 DEF Init, TypeOK
<1>2. \A t \in Task : Course(t) /\ Place(t) = "idle"
  BY DEF Init, Course, Place, OnDisk, HasNode
<1>3. \A t \in Task, s \in Slots : Own(t)[s] = {}
  BY <1>2 DEF Init, Own, Slots, Loose
<1> QED BY <1>1, <1>2, <1>3 DEF Init, WalkInv, Alive, Apart, Waiting

\* Every step keeps the owners of the blocks apart, if no path has two directories.
LEMMA WalkNext == ASSUME Shallow, WalkInv, [Next]_vars PROVE WalkInv'
<1>1. CASE UNCHANGED vars
  <2>1. TypeOK'
    BY <1>1 DEF WalkInv, TypeOK, vars, heapVars, diskVars, walkVars, readVars, fileVars, BlockOrNull
  <2>2. \A t \in Task : Own(t)' = Own(t) /\ (Course(t) => Course(t)')
    BY <1>1 DEF Own, Loose, Place, AtLastName, Course, HasNode, vars, walkVars, readVars, fileVars
  <2> QED BY <1>1, <2>1, <2>2 DEF WalkInv, Alive, Apart, Waiting, vars, heapVars, diskVars
<1>2. CASE Halted
  BY <1>1, <1>2 DEF Halted
<1>3. ASSUME NEW t \in Task, Move(t) \/ Open(t) \/ ReadFile(t) \/ Close(t)
      PROVE  WalkInv'
  BY <1>3, AcquireWalk, StartTransferWalk, EndTransferWalk, ReleaseWalk, ReadDirWalk, HitWalk, MissWalk,
     NotFoundWalk, CacheWalk, SkipWalk, DescendWalk, FoundWalk, MakeStreamWalk, OpenWalk, ReadFileWalk,
     CloseWalk DEF Move
<1> QED BY <1>1, <1>2, <1>3 DEF Next

\* The blocks a task will still use or free are in use and are no other task's, for any number
\* of tasks and any image, as long as no path has two directories.
THEOREM BlocksAliveCorrect == ASSUME Shallow PROVE Spec => []BlocksAlive
<1>1. WalkInv => BlocksAlive
  <2> SUFFICES ASSUME WalkInv PROVE BlocksAlive
    OBVIOUS
  <2>1. \A t \in Task : \A b \in Live(t) : \E s \in Slots : b \in Own(t)[s]
    <3> SUFFICES ASSUME NEW t \in Task, NEW b \in Live(t) PROVE \E s \in Slots : b \in Own(t)[s]
      OBVIOUS
    <3>1. CASE pc[t] \in {"compare", "found"} /\ b = node[t]
      <4>1. node[t] # NULL /\ ~Loose(t)
        BY <3>1, Typed DEF Course, HasNode, Loose, Place, OnDisk
      <4>2. b \in Own(t)["node"]
        BY <3>1, <4>1 DEF Own
      <4> QED BY <4>2 DEF Slots
    <3>2. CASE b = curdir[t] /\ b # NULL
      <4>1. b \in Own(t)["curdir"]
        BY <3>2 DEF Own
      <4> QED BY <4>1 DEF Slots
    <3>3. CASE b = params[t] /\ b # NULL
      <4>1. b \in Own(t)["params"]
        BY <3>3 DEF Own
      <4> QED BY <4>1 DEF Slots
    <3>4. CASE b \in {file[t], arguments[t]} /\ b # NULL
      <4>1. b \in Own(t)["stream"]
        BY <3>4 DEF Own
      <4> QED BY <4>1 DEF Slots
    <3>5. CASE b \in strings[t]
      <4>1. b \in Own(t)["strings"]
        BY <3>5 DEF Own
      <4> QED BY <4>1 DEF Slots
    <3> QED BY <3>1, <3>2, <3>3, <3>4, <3>5 DEF Live
  <2>2. \A t \in Task : Live(t) \subseteq allocated
    BY <2>1, OwnApart
  <2>3. \A t, u \in Task : t # u => Live(t) \cap Live(u) = {}
    BY <2>1 DEF WalkInv, Apart
  <2> QED BY <2>2, <2>3 DEF WalkInv, BlocksAlive
<1>2. WalkInv /\ [Next]_vars => WalkInv'
  BY WalkNext
<1> QED BY InitWalk, <1>1, <1>2, PTL DEF Spec

-----------------------------------------------------------------------------
\* What the task has read so far is what its path leads to.
Right(t) ==
    /\ Place(t) = "readdir" => OnPath(path[t], level[t], content[curdir[t]])
    /\ Place(t) \in {"list", "compare", "mark", "fill"} => OnPath(path[t], level[t], listing[t])
    /\ HasNode(t) /\ pc[t] # "found" => content[node[t]] \in {Current(t), NULL}
    /\ pc[t] = "found" => content[node[t]] # NULL /\ Data[content[node[t]]] = Contents[path[t]]
    /\ file[t] # NULL => content[file[t]] # NULL /\ Data[content[file[t]]] = Contents[path[t]]

RightInv == \A t \in Task : Right(t)

\* The task stays where it is in its walk, and its blocks keep their bytes.
Steady(t) ==
    /\ Place(t)' = Place(t) /\ HasNode(t)' = HasNode(t) /\ (pc'[t] = "found" <=> pc[t] = "found")
    /\ path'[t] = path[t] /\ level'[t] = level[t] /\ entry'[t] = entry[t] /\ listing'[t] = listing[t]
    /\ curdir'[t] = curdir[t] /\ node'[t] = node[t] /\ file'[t] = file[t]
    /\ \A s \in Slots : \A b \in Own(t)[s] : content'[b] = content[b]

\* The bytes that change are the task's, or nobody's.
Writes(t) ==
    \A b \in Block : content'[b] = content[b] \/ b \notin allocated \/ \E s \in Slots : b \in Own(t)[s]

\* The blocks whose bytes the invariant speaks of are among those the task owns.
LEMMA Reads ==
    ASSUME WalkInv, NEW t \in Task
    PROVE  /\ Place(t) = "readdir" => curdir[t] \in Own(t)["curdir"]
           /\ HasNode(t) => node[t] \in Own(t)["node"]
           /\ file[t] # NULL => file[t] \in Own(t)["stream"]
<1>1. Course(t)
  BY DEF WalkInv
<1>2. Place(t) = "readdir" => curdir[t] \in Own(t)["curdir"]
  BY <1>1 DEF Course, Own
<1>3. HasNode(t) => node[t] \in Own(t)["node"]
  BY <1>1 DEF Course, Own, HasNode, Loose, Place, OnDisk
<1>4. file[t] # NULL => file[t] \in Own(t)["stream"]
  BY DEF Own
<1> QED BY <1>2, <1>3, <1>4

\* A task that is steady has still read what its path leads to.
LEMMA SteadyRight == ASSUME WalkInv, NEW t \in Task, Right(t), Steady(t) PROVE Right(t)'
<1>1. Current(t)' = Current(t)
  BY DEF Steady, Current
<1>2. /\ Place(t) = "readdir" => content'[curdir[t]] = content[curdir[t]]
      /\ HasNode(t) => content'[node[t]] = content[node[t]]
      /\ file[t] # NULL => content'[file[t]] = content[file[t]]
  BY Reads DEF Steady, Slots
<1>3. pc[t] = "found" => HasNode(t)
  BY DEF HasNode
<1>4. /\ Place(t)' = "readdir" => OnPath(path'[t], level'[t], content'[curdir'[t]])
      /\ Place(t)' \in {"list", "compare", "mark", "fill"} => OnPath(path'[t], level'[t], listing'[t])
  BY <1>2 DEF Right, Steady
<1>5. HasNode(t)' /\ pc'[t] # "found" => content'[node'[t]] \in {Current(t)', NULL}
  BY <1>1, <1>2 DEF Right, Steady
<1>6. /\ pc'[t] = "found" => content'[node'[t]] # NULL /\ Data[content'[node'[t]]] = Contents[path'[t]]
      /\ file'[t] # NULL => content'[file'[t]] # NULL /\ Data[content'[file'[t]]] = Contents[path'[t]]
  BY <1>2, <1>3 DEF Right, Steady
<1>7. OnPath(path[t], level[t], content[curdir[t]])' <=> OnPath(path'[t], level'[t], content'[curdir'[t]])
  BY DEF OnPath
<1>8. OnPath(path[t], level[t], listing[t])' <=> OnPath(path'[t], level'[t], listing'[t])
  BY DEF OnPath
<1> QED BY <1>4, <1>5, <1>6, <1>7, <1>8 DEF Right

\* A step of one task leaves the others steady: it writes no block of theirs.
LEMMA OthersSteady ==
    ASSUME WalkInv, NEW t \in Task, Elsewhere(t), Writes(t), NEW u \in Task \ {t}
    PROVE  Steady(u)
<1>1. /\ Place(u)' = Place(u) /\ HasNode(u)' = HasNode(u)
  BY DEF Elsewhere, Place, HasNode
<1>2. ASSUME NEW s \in Slots, NEW b \in Own(u)[s] PROVE content'[b] = content[b]
  <2>1. b \in allocated /\ b \in Block
    BY DEF WalkInv, Alive, TypeOK
  <2>2. \A r \in Slots : b \notin Own(t)[r]
    BY DEF WalkInv, Apart
  <2> QED BY <2>1, <2>2 DEF Writes
<1> QED BY <1>1, <1>2 DEF Steady, Elsewhere

\* A step of one task has to be looked at for that task only.
LEMMA RightStep ==
    ASSUME WalkInv, RightInv, NEW t \in Task, Elsewhere(t), Writes(t), Right(t)'
    PROVE  RightInv'
<1>1. ASSUME NEW u \in Task \ {t} PROVE Right(u)'
  BY OthersSteady, SteadyRight DEF RightInv
<1> QED BY <1>1 DEF RightInv

\* A step at the disk: the task stays where it is in its walk.
LEMMA SteadyStep ==
    ASSUME WalkInv, RightInv, NEW t \in Task, Elsewhere(t), Writes(t), Steady(t)
    PROVE  RightInv'
BY SteadyRight, RightStep DEF RightInv

\* ERROR stops the machine and changes nothing else.
LEMMA ErrorRight == ASSUME WalkInv, RightInv, NEW code, Error(code) PROVE RightInv'
<1>1. ASSUME NEW t \in Task PROVE Steady(t)
  BY DEF Error, heapVars, walkVars, readVars, fileVars, Steady, Place, HasNode
<1> QED BY <1>1, SteadyRight DEF RightInv

\* Waiting for disk0 changes nothing a task has read.
LEMMA AcquireRight == ASSUME WalkInv, RightInv, NEW t \in Task, Acquire(t) PROVE RightInv'
<1> USE Typed
<1>1. /\ pc[t] = "acquire"
      /\ pc' = [pc EXCEPT ![t] = "transfer"] \/ pc' = [pc EXCEPT ![t] = "queued"]
      /\ UNCHANGED <<content, path, level, entry, listing, curdir, node, strings, params, left, then,
                     file, arguments>>
  BY DEF Acquire, At, Goto, heapVars, walkVars, readVars, fileVars
<1>2. Elsewhere(t) /\ Writes(t)
  BY <1>1 DEF Elsewhere, Writes
<1>3. Steady(t)
  BY <1>1 DEF Steady, Place, OnDisk, HasNode
<1> QED BY <1>2, <1>3, SteadyStep

\* The parameters of floppy_read are in a block that nobody reads.
LEMMA StartTransferRight == ASSUME WalkInv, RightInv, NEW t \in Task, StartTransfer(t) PROVE RightInv'
<1> USE Typed
<1>1. CASE floppyInUse
  BY <1>1, ErrorRight DEF StartTransfer
<1>2. CASE ~floppyInUse
  <2> DEFINE block == Nth(1)
  <2>1. /\ pc[t] = "transfer" /\ pc' = [pc EXCEPT ![t] = "command"]
        /\ content' = [b \in Block |-> IF b = block THEN NULL ELSE content[b]] /\ block \notin allocated
        /\ params' = [params EXCEPT ![t] = block]
        /\ UNCHANGED <<path, level, entry, listing, curdir, node, strings, left, then, file, arguments>>
    BY <1>2, NthOne DEF StartTransfer, At, Malloc, Goto, walkVars, fileVars
  <2> HIDE DEF block
  <2>2. Elsewhere(t) /\ Writes(t)
    BY <2>1 DEF Elsewhere, Writes
  <2>3. \A s \in Slots : \A b \in Own(t)[s] : content'[b] = content[b]
    <3>1. \A s \in Slots : \A b \in Own(t)[s] : b \in allocated /\ b \in Block
      BY DEF WalkInv, Alive, TypeOK
    <3> QED BY <2>1, <3>1
  <2>4. Steady(t)
    BY <2>1, <2>3 DEF Steady, Place, OnDisk, HasNode
  <2> QED BY <2>2, <2>4, SteadyStep
<1> QED BY <1>1, <1>2

\* The inode that readPLUS copies is that of the entry the task is at.
LEMMA EndTransferRight == ASSUME WalkInv, RightInv, NEW t \in Task, EndTransfer(t) PROVE RightInv'
<1> USE Typed
<1> DEFINE block == params[t]
           first == First(Unused \cup {params[t]})
           last == left[t] = 1 /\ then[t] = "mark"
<1>1. /\ pc[t] = "command"
      /\ left' = [left EXCEPT ![t] = @ - 1]
      /\ pc' = [pc EXCEPT ![t] = IF left[t] > 1 THEN "transfer" ELSE "release"]
      /\ params' = [params EXCEPT ![t] = NULL]
      /\ last => /\ content' = [content EXCEPT ![first] = Current(t)]
                 /\ node' = [node EXCEPT ![t] = first]
      /\ ~last => UNCHANGED <<content, node>>
      /\ UNCHANGED <<path, level, entry, listing, curdir, strings, then, file, arguments>>
  BY DEF EndTransfer, At, Goto, fileVars
<1>2. /\ left[t] >= 1 /\ left[t] \in Nat /\ Place(t) = then[t]
      /\ block \in Block /\ block # NULL
  BY <1>1 DEF Course, OnDisk, BlockOrNull, Place
<1>3. first \in Unused \cup {block} /\ first \in Block
  <2>1. Unused \cup {block} \in SUBSET Block /\ Unused \cup {block} # {}
    BY <1>2 DEF Unused
  <2> QED BY <2>1, FirstFacts
<1>4. block \in Own(t)["params"]
  BY <1>2 DEF Own
<1>5. \A s \in Slots \ {"params"} : first \notin Own(t)[s]
  BY <1>3, <1>4, OwnApart DEF Unused, Slots
<1> HIDE DEF block, first
<1>6. Elsewhere(t)
  BY <1>1 DEF Elsewhere
<1>7. Writes(t)
  <2>1. content \in [Block -> Inode \cup {NULL}]
    BY DEF WalkInv, TypeOK
  <2> QED BY <1>1, <1>3, <1>4, <2>1 DEF Writes, Unused, Slots
<1>8. Place(t)' = Place(t) /\ ~HasNode(t) /\ pc[t] # "found" /\ pc'[t] # "found"
  BY <1>1 DEF Place, OnDisk, HasNode
<1>9. CASE ~last
  <2>1. ~HasNode(t)'
    BY <1>1, <1>2, <1>9 DEF HasNode
  <2>2. Steady(t)
    <3>1. content' = content /\ node' = node
      BY <1>1, <1>9
    <3>2. HasNode(t)' = HasNode(t)
      BY <1>8, <2>1 DEF HasNode
    <3> QED BY <1>1, <1>8, <3>1, <3>2 DEF Steady
  <2> QED BY <1>6, <1>7, <2>2, SteadyStep
<1>10. CASE last
  <2>1. Place(t)' = "mark"
    BY <1>2, <1>8, <1>10
  <2>2. content'[node'[t]] = Current(t) /\ Current(t)' = Current(t)
    <3>1. content \in [Block -> Inode \cup {NULL}] /\ node'[t] = first
      BY <1>1, <1>10 DEF WalkInv, TypeOK
    <3>2. content'[first] = Current(t)
      BY <1>1, <1>3, <1>10, <3>1
    <3>3. Current(t)' = Current(t)
      BY <1>1 DEF Current
    <3> QED BY <3>1, <3>2, <3>3
  <2>3. file[t] = NULL
    BY <1>2, <1>10 DEF Course
  <2>4. OnPath(path[t], level[t], listing[t])
    BY <1>2, <1>10 DEF RightInv, Right
  <2>5. OnPath(path[t], level[t], listing[t])'
    BY <1>1, <2>4 DEF OnPath
  <2>6. Right(t)'
    BY <1>1, <1>8, <2>1, <2>2, <2>3, <2>5 DEF Right
  <2> QED BY <1>6, <1>7, <2>6, RightStep
<1> QED BY <1>9, <1>10

\* Where a task waits for the disk it has no copy of an inode yet.
LEMMA ReleaseRight == ASSUME WalkInv, RightInv, NEW t \in Task, Release(t) PROVE RightInv'
<1> USE Typed
<1>1. /\ pc[t] = "release" /\ then[t] \in {"list", "mark", "open"} /\ queue \in Seq(Task)
      /\ UNCHANGED <<content, path, level, entry, listing, curdir, node, strings, params, left, then,
                     file, arguments>>
  BY DEF Release, At, heapVars, walkVars, readVars, fileVars, Course, OnDisk, WalkInv, TypeOK
<1>2. \/ pc' = [pc EXCEPT ![t] = then[t]]
      \/ queue # <<>> /\ pc' = [pc EXCEPT ![t] = then[t], ![Head(queue)] = "transfer"]
  BY DEF Release, Successor, Goto
<1>3. queue # <<>> => Head(queue) \in Task /\ pc[Head(queue)] = "queued" /\ Head(queue) # t
  <2> SUFFICES ASSUME queue # <<>> PROVE Head(queue) \in Task /\ pc[Head(queue)] = "queued"
    BY <1>1
  <2>1. Head(queue) = queue[1] /\ 1 \in 1..Len(queue) /\ Head(queue) \in Task
    BY <1>1
  <2> QED BY <2>1 DEF WalkInv, Waiting
<1>4. ASSUME NEW u \in Task PROVE Steady(u)
  <2>1. \/ pc'[u] = pc[u]
        \/ u = t /\ pc'[u] = then[u]
        \/ pc[u] = "queued" /\ pc'[u] = "transfer"
    BY <1>1, <1>2, <1>3
  <2>2. Place(u)' = Place(u) /\ HasNode(u)' = HasNode(u) /\ (pc'[u] = "found" <=> pc[u] = "found")
    BY <1>1, <2>1 DEF Place, OnDisk, HasNode
  <2> QED BY <1>1, <2>2 DEF Steady
<1> QED BY <1>4, SteadyRight DEF RightInv

\* The page m holds the directory whose inode is in curdir.
LEMMA ReadDirRight == ASSUME WalkInv, RightInv, NEW t \in Task, ReadDir(t) PROVE RightInv'
<1> USE Typed
<1>1. CASE ~InBounds(curdir[t])
  BY <1>1, ErrorRight DEF ReadDir
<1>2. CASE InBounds(curdir[t])
  <2>1. /\ pc[t] = "readdir" /\ listing' = [listing EXCEPT ![t] = content[curdir[t]]]
        /\ entry' = [entry EXCEPT ![t] = 1]
        /\ pc' = [pc EXCEPT ![t] = "acquire"] /\ left' = [left EXCEPT ![t] = 1]
        /\ then' = [then EXCEPT ![t] = "list"]
        /\ UNCHANGED <<content, path, level, curdir, node, strings, params, file, arguments>>
    BY <1>2 DEF ReadDir, At, ReadSectors, Goto, heapVars, fileVars
  <2>2. Place(t) = "readdir" /\ Place(t)' = "list" /\ ~HasNode(t)' /\ pc'[t] = "acquire"
    BY <2>1 DEF Place, OnDisk, HasNode
  <2>3. Elsewhere(t) /\ Writes(t)
    BY <2>1 DEF Elsewhere, Writes
  <2>4. OnPath(path[t], level[t], listing[t])'
    <3>1. OnPath(path[t], level[t], content[curdir[t]])
      BY <2>2 DEF RightInv, Right
    <3>2. path'[t] = path[t] /\ level'[t] = level[t] /\ listing'[t] = content[curdir[t]]
      BY <2>1
    <3> QED BY <3>1, <3>2 DEF OnPath
  <2>5. file'[t] = NULL
    BY <2>1, <2>2 DEF Course
  <2>6. Right(t)'
    BY <2>2, <2>4, <2>5 DEF Right
  <2> QED BY <2>3, <2>6, RightStep
<1> QED BY <1>1, <1>2

\* kINb_gb copies the inode of the entry, or one that is not filled in yet.
LEMMA HitRight == ASSUME WalkInv, RightInv, NEW t \in Task, Hit(t) PROVE RightInv'
<1> USE Typed
<1> DEFINE freed == Dropped(t)
           first == First(Unused \cup Dropped(t))
           bytes == IF cache[Current(t)] = "filled" THEN Current(t) ELSE NULL
<1>1. freed = Own(t)["node"] /\ Freeable(freed) /\ pc[t] = "list"
  BY DroppedOwn DEF Hit, At
<1>2. /\ Unused \cup freed # {}
      /\ content' = [content EXCEPT ![first] = bytes]
      /\ node' = [node EXCEPT ![t] = first] /\ pc' = [pc EXCEPT ![t] = "compare"]
      /\ UNCHANGED <<path, level, entry, listing, curdir, strings, params, left, then, file, arguments>>
  BY <1>1 DEF Hit, Goto, readVars, fileVars
<1>3. first \in Block /\ first \in Unused \cup freed
  <2>1. Unused \cup freed \in SUBSET Block
    BY <1>1 DEF Unused, Freeable, WalkInv, TypeOK
  <2> QED BY <1>2, <2>1, FirstFacts
<1> HIDE DEF freed, first
<1>4. Place(t) = "list" /\ Place(t)' = "compare" /\ pc'[t] = "compare"
  BY <1>1, <1>2 DEF Place, OnDisk
<1>5. content \in [Block -> Inode \cup {NULL}]
  BY DEF WalkInv, TypeOK
<1>6. Elsewhere(t)
  BY <1>2 DEF Elsewhere
<1>7. Writes(t)
  BY <1>1, <1>2, <1>3, <1>5 DEF Writes, Unused, Slots
<1>8. content'[node'[t]] \in {Current(t), NULL} /\ Current(t)' = Current(t)
  <2>1. node'[t] = first
    BY <1>2
  <2>2. content'[first] = bytes
    BY <1>2, <1>3, <1>5
  <2>3. Current(t)' = Current(t)
    BY <1>2 DEF Current
  <2> QED BY <2>1, <2>2, <2>3
<1>9. OnPath(path[t], level[t], listing[t])'
  <2>1. OnPath(path[t], level[t], listing[t])
    BY <1>4 DEF RightInv, Right
  <2> QED BY <1>2, <2>1 DEF OnPath
<1>10. file'[t] = NULL
  BY <1>2, <1>4 DEF Course
<1>11. Right(t)'
  BY <1>4, <1>8, <1>9, <1>10 DEF Right
<1> QED BY <1>6, <1>7, <1>11, RightStep

\* GrabInode leaves the page m alone.
LEMMA MissRight == ASSUME WalkInv, RightInv, NEW t \in Task, Miss(t) PROVE RightInv'
<1> USE Typed
<1>1. /\ pc[t] = "list" /\ node' = [node EXCEPT ![t] = NULL] /\ pc' = [pc EXCEPT ![t] = "acquire"]
      /\ left' = [left EXCEPT ![t] = Sectors(Current(t))] /\ then' = [then EXCEPT ![t] = "mark"]
      /\ UNCHANGED <<content, path, level, entry, listing, curdir, strings, params, file, arguments>>
  BY DroppedOwn DEF Miss, At, ReadSectors, Goto, fileVars
<1>2. Place(t) = "list" /\ Place(t)' = "mark" /\ ~HasNode(t)' /\ pc'[t] = "acquire"
  BY <1>1 DEF Place, OnDisk, HasNode
<1>3. Elsewhere(t) /\ Writes(t)
  BY <1>1 DEF Elsewhere, Writes
<1>4. OnPath(path[t], level[t], listing[t])'
  <2>1. OnPath(path[t], level[t], listing[t])
    BY <1>2 DEF RightInv, Right
  <2> QED BY <1>1, <2>1 DEF OnPath
<1>5. file'[t] = NULL
  BY <1>1, <1>2 DEF Course
<1>6. Right(t)'
  BY <1>2, <1>4, <1>5 DEF Right
<1> QED BY <1>3, <1>6, RightStep

\* A walk that is over has read nothing.
LEMMA NotFoundRight == ASSUME WalkInv, RightInv, NEW t \in Task, NotFound(t) PROVE RightInv'
<1> USE Typed
<1>1. /\ pc[t] = "list" /\ pc' = [pc EXCEPT ![t] = "idle"]
      /\ curdir' = [curdir EXCEPT ![t] = NULL] /\ node' = [node EXCEPT ![t] = NULL]
      /\ strings' = [strings EXCEPT ![t] = {}] /\ path' = [path EXCEPT ![t] = NULL]
      /\ level' = [level EXCEPT ![t] = 0] /\ entry' = [entry EXCEPT ![t] = 1]
      /\ listing' = [listing EXCEPT ![t] = NULL]
      /\ UNCHANGED <<content, params, left, then, file, arguments>>
  BY DEF NotFound, At, EndWalk, Goto, heapVars, readVars, fileVars
<1>2. Place(t) = "list" /\ Place(t)' = "idle" /\ ~HasNode(t)' /\ pc'[t] = "idle"
  BY <1>1 DEF Place, OnDisk, HasNode
<1>3. Elsewhere(t) /\ Writes(t)
  BY <1>1 DEF Elsewhere, Writes
<1>4. file'[t] = NULL
  BY <1>1, <1>2 DEF Course
<1>5. Right(t)'
  BY <1>2, <1>4 DEF Right
<1> QED BY <1>3, <1>5, RightStep

\* kINb_ad copies n and keeps it.
LEMMA CacheRight == ASSUME WalkInv, RightInv, NEW t \in Task, Mark(t) \/ Fill(t) PROVE RightInv'
<1> USE Typed
<1>1. /\ pc[t] \in {"mark", "fill"} /\ (pc' = [pc EXCEPT ![t] = "fill"] \/ pc' = [pc EXCEPT ![t] = "compare"])
      /\ UNCHANGED <<content, path, level, entry, listing, curdir, node, strings, params, left, then,
                     file, arguments>>
  BY DEF Mark, Fill, At, Goto, heapVars, walkVars, readVars, fileVars
<1>2. /\ Place(t) \in {"mark", "fill"} /\ HasNode(t) /\ HasNode(t)' /\ Place(t)' \in {"fill", "compare"}
      /\ pc[t] # "found" /\ pc'[t] # "found"
  BY <1>1 DEF Place, OnDisk, HasNode
<1>3. Elsewhere(t) /\ Writes(t)
  BY <1>1 DEF Elsewhere, Writes
<1>4. OnPath(path[t], level[t], listing[t])'
  <2>1. OnPath(path[t], level[t], listing[t])
    BY <1>2 DEF RightInv, Right
  <2> QED BY <1>1, <2>1 DEF OnPath
<1>5. content'[node'[t]] \in {Current(t)', NULL}
  BY <1>1, <1>2 DEF RightInv, Right, Current
<1>6. file'[t] = NULL
  BY <1>1, <1>2 DEF Course
<1>7. Right(t)'
  BY <1>2, <1>4, <1>5, <1>6 DEF Right
<1> QED BY <1>3, <1>7, RightStep

\* The next entry is in the same directory.
LEMMA SkipRight == ASSUME WalkInv, RightInv, NEW t \in Task, Skip(t) PROVE RightInv'
<1> USE Typed
<1>1. pc[t] = "compare" /\ Place(t) = "compare" /\ node[t] # NULL
  BY DEF Skip, At, Place, OnDisk, Course, HasNode
<1>2. Freeable({node[t]})
  <2>1. Own(t)["node"] = {node[t]}
    BY <1>1 DEF Own, Loose
  <2> QED BY <2>1, OwnApart DEF Freeable, Slots
<1>3. /\ entry' = [entry EXCEPT ![t] = @ + 1] /\ pc' = [pc EXCEPT ![t] = "list"]
      /\ UNCHANGED <<content, path, level, listing, curdir, node, strings, params, left, then,
                     file, arguments>>
  BY <1>2 DEF Skip, Goto, readVars, fileVars
<1>4. Place(t)' = "list" /\ ~HasNode(t)' /\ pc'[t] = "list"
  BY <1>3 DEF Place, OnDisk, HasNode
<1>5. Elsewhere(t) /\ Writes(t)
  BY <1>3 DEF Elsewhere, Writes
<1>6. OnPath(path[t], level[t], listing[t])'
  <2>1. OnPath(path[t], level[t], listing[t])
    BY <1>1 DEF RightInv, Right
  <2> QED BY <1>3, <2>1 DEF OnPath
<1>7. file'[t] = NULL
  BY <1>1, <1>3 DEF Course
<1>8. Right(t)'
  BY <1>4, <1>6, <1>7 DEF Right
<1> QED BY <1>5, <1>8, RightStep

\* The entry of a task at compare is an entry of the directory it is in.
LEMMA Entered ==
    ASSUME WalkInv, RightInv, NEW t \in Task, pc[t] = "compare", Matches(t)
    PROVE  /\ Place(t) = "compare" /\ file[t] = NULL /\ path[t] \in Paths
           /\ OnPath(path[t], level[t], listing[t]) /\ listing[t] \in Inode
           /\ entry[t] \in 1..Len(Entries[listing[t]])
           /\ content[node[t]] = Entries[listing[t]][entry[t]]
           /\ content[node[t]] \in Inode /\ Name[content[node[t]]] = Wanted(t)
           /\ node[t] \in Own(t)["node"]
<1> USE Typed
<1>1. Place(t) = "compare" /\ HasNode(t)
  BY DEF Place, OnDisk, HasNode
<1>2. file[t] = NULL /\ path[t] \in Paths /\ listing[t] \in Inode /\ entry[t] <= Len(Entries[listing[t]])
  BY <1>1 DEF Course
<1>3. Entries[listing[t]] \in Seq(Inode) /\ entry[t] \in Nat \ {0}
  BY <1>2, ImageAssumption
<1>4. entry[t] \in 1..Len(Entries[listing[t]])
  BY <1>2, <1>3
<1>5. content[node[t]] = Current(t) /\ Name[content[node[t]]] = Wanted(t)
  BY <1>1 DEF RightInv, Right, Matches
<1>6. Current(t) \in Inode /\ Current(t) = Entries[listing[t]][entry[t]]
  BY <1>3, <1>4 DEF Current
<1>7. OnPath(path[t], level[t], listing[t])
  BY <1>1 DEF RightInv, Right
<1> QED BY <1>1, <1>2, <1>4, <1>5, <1>6, <1>7, Reads

\* The directory that has the name of the path is the one that is read next.
LEMMA DescendRight == ASSUME Shallow, WalkInv, RightInv, NEW t \in Task, Descend(t) PROVE RightInv'
<1> USE Typed
<1>1. pc[t] = "compare" /\ Matches(t) /\ ~AtLastName(t)
  BY DEF Descend, At
<1>2. level[t] = 0 /\ Len(path[t].dirs) = 1
  <2>1. level[t] \in 0..Len(path[t].dirs) /\ level[t] # Len(path[t].dirs) /\ path[t] \in Paths
    BY <1>1, Entered DEF Course, AtLastName
  <2>2. Len(path[t].dirs) \in 0..1
    BY <2>1 DEF Shallow
  <2> DEFINE n == Len(path[t].dirs)
             j == level[t]
  <2>3. n \in 0..1 /\ j \in 0..n /\ j # n
    BY <2>1, <2>2
  <2> HIDE DEF n, j
  <2>4. n = 1 /\ j = 0
    BY <2>3
  <2> QED BY <2>4 DEF n, j
<1>3. Freeable({curdir[t]})
  <2>1. Own(t)["curdir"] = {curdir[t]}
    BY <1>1, Entered DEF Own, Course
  <2> QED BY <2>1, OwnApart DEF Freeable, Slots
<1>4. /\ curdir' = [curdir EXCEPT ![t] = node[t]] /\ level' = [level EXCEPT ![t] = @ + 1]
      /\ pc' = [pc EXCEPT ![t] = "readdir"]
      /\ UNCHANGED <<content, path, entry, listing, node, strings, params, left, then, file, arguments>>
  BY <1>3 DEF Descend, Goto, readVars, fileVars
<1>5. Place(t)' = "readdir" /\ ~HasNode(t)' /\ pc'[t] = "readdir"
  BY <1>4 DEF Place, OnDisk, HasNode
<1>6. Elsewhere(t) /\ Writes(t)
  BY <1>4 DEF Elsewhere, Writes
<1>7. OnPath(path[t], 1, content[node[t]])
  <2>1. listing[t] = Root
    BY <1>1, <1>2, Entered DEF OnPath
  <2>2. Name[content[node[t]]] = path[t].dirs[1]
    <3>1. Wanted(t) = path[t].dirs[1]
      BY <1>1, <1>2 DEF Wanted
    <3> QED BY <1>1, <3>1, Entered
  <2>3. content[node[t]] \in Inode /\ \E k \in 1..Len(Entries[Root]) : content[node[t]] = Entries[Root][k]
    BY <1>1, <2>1, Entered
  <2> QED BY <2>2, <2>3 DEF OnPath
<1>8. OnPath(path[t], level[t], content[curdir[t]])'
  <2>1. path'[t] = path[t] /\ level'[t] = 1 /\ content'[curdir'[t]] = content[node[t]]
    BY <1>2, <1>4
  <2> QED BY <1>7, <2>1 DEF OnPath
<1>9. file'[t] = NULL
  BY <1>1, <1>4, Entered
<1>10. Right(t)'
  BY <1>5, <1>8, <1>9 DEF Right
<1> QED BY <1>6, <1>10, RightStep

\* The last name is found in the directory of the path: it is the file the path names.
LEMMA FoundRight == ASSUME PathsRight, WalkInv, RightInv, NEW t \in Task, Found(t) PROVE RightInv'
<1> USE Typed
<1>1. pc[t] = "compare" /\ Matches(t) /\ AtLastName(t)
  BY DEF Found, At
<1>2. Freeable(strings[t] \cup {curdir[t]})
  <2>1. Own(t)["curdir"] = {curdir[t]} /\ Own(t)["strings"] = strings[t]
    BY <1>1, Entered DEF Own, Course
  <2> QED BY <2>1, OwnApart DEF Freeable, Slots
<1>3. /\ curdir' = [curdir EXCEPT ![t] = NULL] /\ strings' = [strings EXCEPT ![t] = {}]
      /\ pc' = [pc EXCEPT ![t] = "found"]
      /\ UNCHANGED <<content, path, level, entry, listing, node, params, left, then, file, arguments>>
  BY <1>2 DEF Found, Goto, readVars, fileVars
<1>4. Place(t)' = "found" /\ pc'[t] = "found"
  BY <1>3 DEF Place, OnDisk
<1>5. Elsewhere(t) /\ Writes(t)
  BY <1>3 DEF Elsewhere, Writes
<1>6. content[node[t]] # NULL /\ Data[content[node[t]]] = Contents[path[t]]
  <2>1. OnPath(path[t], Len(path[t].dirs), listing[t])
    BY <1>1, Entered DEF AtLastName
  <2>2. Name[Entries[listing[t]][entry[t]]] = path[t].name
    BY <1>1, Entered DEF Wanted
  <2>3. Data[Entries[listing[t]][entry[t]]] = Contents[path[t]]
    <3>1. path[t] \in Paths /\ listing[t] \in Inode /\ entry[t] \in 1..Len(Entries[listing[t]])
      BY <1>1, Entered
    <3>2. \A k \in 1..Len(Entries[listing[t]]) :
              Name[Entries[listing[t]][k]] = path[t].name => Data[Entries[listing[t]][k]] = Contents[path[t]]
      BY <2>1, <3>1 DEF PathsRight
    <3> QED BY <2>2, <3>1, <3>2
  <2> QED BY <1>1, <2>3, Entered, ImageAssumption
<1>7. content'[node'[t]] # NULL /\ Data[content'[node'[t]]] = Contents[path'[t]] /\ file'[t] = NULL
  BY <1>1, <1>3, <1>6, Entered
<1>8. Right(t)'
  BY <1>4, <1>7 DEF Right
<1> QED BY <1>5, <1>8, RightStep

\* The stream is given n, and its arguments and its struct lie elsewhere.
LEMMA MakeStreamRight == ASSUME WalkInv, RightInv, NEW t \in Task, MakeStream(t) PROVE RightInv'
<1> USE Typed
<1> DEFINE one == Nth(1)
           two == Nth(2)
<1>1. one \notin allocated /\ two \notin allocated
  <2>1. Nth(1) \in Unused /\ Nth(2) \in Unused
    BY NthFacts DEF MakeStream
  <2> QED BY <2>1 DEF Unused
<1>2. /\ pc[t] = "found" /\ content' = [content EXCEPT ![one] = NULL, ![two] = NULL]
      /\ arguments' = [arguments EXCEPT ![t] = two]
      /\ file' = [file EXCEPT ![t] = node[t]] /\ node' = [node EXCEPT ![t] = NULL]
      /\ path' = [path EXCEPT ![t] = path[t]] /\ level' = [level EXCEPT ![t] = 0]
      /\ entry' = [entry EXCEPT ![t] = 1] /\ listing' = [listing EXCEPT ![t] = NULL]
      /\ pc' = [pc EXCEPT ![t] = "open"]
      /\ UNCHANGED <<curdir, strings, params, left, then>>
  BY DEF MakeStream, EndWalk, At, Goto, readVars
<1> HIDE DEF one, two
<1>3. /\ Place(t)' = "open" /\ pc'[t] = "open" /\ ~HasNode(t)'
  BY <1>2 DEF Place, OnDisk, HasNode
<1>4. Elsewhere(t)
  BY <1>2 DEF Elsewhere
<1>5. content \in [Block -> Inode \cup {NULL}]
  BY DEF WalkInv, TypeOK
<1>6. Writes(t)
  BY <1>1, <1>2, <1>5 DEF Writes
<1>7. node[t] \in allocated /\ node[t] \in Block
  <2>1. node[t] \in Own(t)["node"]
    BY <1>2, Reads DEF HasNode
  <2> QED BY <2>1, OwnApart DEF Slots, WalkInv, TypeOK
<1>8. content'[node[t]] = content[node[t]]
  BY <1>1, <1>2, <1>5, <1>7
<1>9. content[node[t]] # NULL /\ Data[content[node[t]]] = Contents[path[t]]
  BY <1>2 DEF RightInv, Right
<1>10. file'[t] = node[t] /\ path'[t] = path[t]
  BY <1>2
<1>11. content'[file'[t]] # NULL /\ Data[content'[file'[t]]] = Contents[path'[t]]
  BY <1>8, <1>9, <1>10
<1>12. Right(t)'
  BY <1>3, <1>11 DEF Right
<1> QED BY <1>4, <1>6, <1>12, RightStep

\* A walk begins at the root.
LEMMA OpenRight == ASSUME Shallow, WalkInv, RightInv, NEW t \in Task, Open(t) PROVE RightInv'
<1> USE Typed
<1>1. PICK p \in Paths :
          LET dirs == Len(p.dirs)
              strs == IF dirs = 0 THEN 1 ELSE dirs + 2
          IN  /\ path' = [path EXCEPT ![t] = p]
              /\ Malloc(strs + 2, Root)
              /\ strings' = [strings EXCEPT ![t] = {Nth(i + 1) : i \in 1..strs}]
              /\ curdir' = [curdir EXCEPT ![t] = Nth(strs + 2)]
  BY DEF Open
<1> DEFINE dirs == Len(p.dirs)
           strs == IF dirs = 0 THEN 1 ELSE dirs + 2
           taken == Fresh(strs + 2)
           names == {Nth(i + 1) : i \in 1..strs}
           root == Nth(strs + 2)
<1>2. strs \in Nat /\ Cardinality(Unused) >= strs + 2
  BY <1>1 DEF Shallow, Malloc
<1>3. \A i \in 1..strs+2 : Nth(i) \in Unused
  BY <1>2, NthFacts
<1>4. /\ pc[t] = "idle" /\ path' = [path EXCEPT ![t] = p] /\ strings' = [strings EXCEPT ![t] = names]
      /\ curdir' = [curdir EXCEPT ![t] = root]
      /\ content' = [b \in Block |-> IF b \notin taken THEN content[b] ELSE IF b = root THEN Root ELSE NULL]
      /\ level' = [level EXCEPT ![t] = 0] /\ node' = [node EXCEPT ![t] = NULL]
      /\ pc' = [pc EXCEPT ![t] = "readdir"]
      /\ UNCHANGED <<entry, listing, left, then, params, file, arguments>>
  BY <1>1 DEF Open, At, Malloc, Goto, readVars
<1>5. taken \subseteq Unused /\ root \in taken
  <2> HIDE DEF strs
  <2>1. strs + 2 \in 1..strs+2
    BY <1>2
  <2> QED BY <1>3, <2>1 DEF Fresh
<1> HIDE DEF taken, names, root, strs, dirs
<1>6. Place(t) = "idle" /\ Place(t)' = "readdir" /\ pc'[t] = "readdir" /\ ~HasNode(t)'
  BY <1>4 DEF Place, OnDisk, HasNode
<1>7. Elsewhere(t)
  BY <1>4 DEF Elsewhere
<1>8. Writes(t)
  BY <1>4, <1>5 DEF Writes, Unused
<1>9. level'[t] = 0 /\ content'[curdir'[t]] = Root
  <2>1. root \in Block /\ curdir'[t] = root
    BY <1>4, <1>5 DEF Unused
  <2> QED BY <1>4, <1>5, <2>1
<1>10. OnPath(path[t], level[t], content[curdir[t]])'
  BY <1>9, ImageAssumption DEF OnPath
<1>11. file'[t] = NULL
  BY <1>4, <1>6 DEF Course
<1>12. Right(t)'
  BY <1>6, <1>10, <1>11 DEF Right
<1> QED BY <1>7, <1>8, <1>12, RightStep

\* Reading a file changes nothing a task knows of it.
LEMMA ReadFileRight == ASSUME WalkInv, RightInv, NEW t \in Task, ReadFile(t) PROVE RightInv'
<1> USE Typed
<1>1. CASE ~InBounds(file[t])
  BY <1>1, ErrorRight DEF ReadFile
<1>2. CASE InBounds(file[t])
  <2>1. /\ pc[t] = "open" /\ pc' = [pc EXCEPT ![t] = "acquire"] /\ left' = [left EXCEPT ![t] = 1]
        /\ then' = [then EXCEPT ![t] = "open"]
        /\ UNCHANGED <<content, path, level, entry, listing, curdir, node, strings, params,
                       file, arguments>>
    BY <1>2 DEF ReadFile, At, ReadSectors, Goto, heapVars, walkVars, fileVars
  <2>2. Elsewhere(t) /\ Writes(t)
    BY <2>1 DEF Elsewhere, Writes
  <2>3. Steady(t)
    BY <2>1 DEF Steady, Place, OnDisk, HasNode
  <2> QED BY <2>2, <2>3, SteadyStep
<1> QED BY <1>1, <1>2

\* A stream that is closed is on no data.
LEMMA CloseRight == ASSUME WalkInv, RightInv, NEW t \in Task, Close(t) PROVE RightInv'
<1> USE Typed
<1>1. pc[t] = "open" /\ Freeable({arguments[t]})
  <2>1. pc[t] = "open" /\ arguments[t] # NULL
    BY DEF Close, At, Course, Place, OnDisk
  <2>2. arguments[t] \in Own(t)["stream"]
    BY <2>1 DEF Own
  <2> QED BY <2>1, <2>2, OwnApart DEF Freeable, Slots
<1>2. /\ file' = [file EXCEPT ![t] = NULL] /\ arguments' = [arguments EXCEPT ![t] = NULL]
      /\ path' = [path EXCEPT ![t] = NULL] /\ level' = [level EXCEPT ![t] = 0]
      /\ entry' = [entry EXCEPT ![t] = 1] /\ listing' = [listing EXCEPT ![t] = NULL]
      /\ pc' = [pc EXCEPT ![t] = "idle"]
      /\ UNCHANGED <<content, curdir, strings, node, params, left, then>>
  BY <1>1 DEF Close, EndWalk, Goto, readVars
<1>3. Place(t)' = "idle" /\ pc'[t] = "idle" /\ ~HasNode(t)'
  BY <1>2 DEF Place, OnDisk, HasNode
<1>4. Elsewhere(t) /\ Writes(t)
  BY <1>2 DEF Elsewhere, Writes
<1>5. file'[t] = NULL
  BY <1>2
<1>6. Right(t)'
  BY <1>3, <1>5 DEF Right
<1> QED BY <1>4, <1>6, RightStep

\* Every step keeps what the tasks have read right.
LEMMA RightNext == ASSUME Shallow, PathsRight, WalkInv, RightInv, [Next]_vars PROVE RightInv'
<1>1. CASE UNCHANGED vars
  <2>1. ASSUME NEW t \in Task PROVE Steady(t)
    BY <1>1 DEF vars, heapVars, walkVars, readVars, fileVars, Steady, Place, HasNode
  <2> QED BY <2>1, SteadyRight DEF RightInv
<1>2. CASE Halted
  BY <1>1, <1>2 DEF Halted
<1>3. ASSUME NEW t \in Task, Move(t) \/ Open(t) \/ ReadFile(t) \/ Close(t)
      PROVE  RightInv'
  BY <1>3, AcquireRight, StartTransferRight, EndTransferRight, ReleaseRight, ReadDirRight, HitRight,
     MissRight, NotFoundRight, CacheRight, SkipRight, DescendRight, FoundRight, MakeStreamRight,
     OpenRight, ReadFileRight, CloseRight DEF Move
<1> QED BY <1>1, <1>2, <1>3 DEF Next

\* Before the first OPEN nobody has read anything.
LEMMA InitRight == Init => RightInv
<1> SUFFICES ASSUME Init PROVE RightInv
  OBVIOUS
<1>1. ASSUME NEW t \in Task PROVE Right(t)
  <2>1. pc[t] = "idle" /\ file[t] = NULL
    BY DEF Init
  <2>2. Place(t) = "idle" /\ ~HasNode(t)
    BY <2>1 DEF Place, OnDisk, HasNode
  <2> QED BY <2>1, <2>2 DEF Right
<1> QED BY <1>1 DEF RightInv

\* An open stream is on the data its path named when the image was built, for any number of
\* tasks and any image on which the names lead to the right files (PathsRight, which the
\* runs of the image builder support) and no path has two directories.
THEOREM StreamsRightCorrect == ASSUME Shallow, PathsRight PROVE Spec => []StreamsRight
<1>1. RightInv => StreamsRight
  BY DEF RightInv, Right, StreamsRight
<1>2. WalkInv /\ RightInv /\ [Next]_vars => (WalkInv /\ RightInv)'
  BY WalkNext, RightNext
<1> QED BY <1>1, <1>2, InitWalk, InitRight, PTL DEF Spec

================================================================================
