----------------------------- MODULE Descriptors -----------------------------
(***************************************************************************)
(* File descriptors: the table kernelFd of every task, the global hint     *)
(* kernelFdLastClosed, OPEN, CLOSE, SEEK and transfers on a file, the       *)
(* binding of terminal streams, and the stream that goes from a parent to  *)
(* its child with BINDR and comes back when the child has died.            *)
(*                                                                         *)
(* Tasks are preempted anywhere; the reaper may run in any task that calls *)
(* schedule().  What moves through a bound pair of streams is in Pipe, how *)
(* a path becomes an inode in Qfs.                                         *)
(***************************************************************************)
EXTENDS Integers, FiniteSets

CONSTANTS
    Task, Boot, NULL,
    Len,       \* kernelFdLen, 128 in the build
    MaxIO,     \* bound: the stdIO blocks in use
    Size,      \* the length of a file, in the units of a transfer
    Wrap,      \* positions are numbers modulo Wrap: 2^64 bytes
    MaxOpens,  \* bound: the calls of OPEN by programs
    Lendable,  \* bound: the descriptors programs give to their children; 0 in sh.c and init.S
    BootCalls, TaskCalls  \* bound: the calls of the first program and of the others

ASSUME DescriptorAssumption ==
    /\ Boot \in Task /\ NULL \notin Task
    /\ Len \in Nat \ {0} /\ {MaxIO, MaxOpens, Size, Wrap} \subseteq Nat /\ Size < Wrap
    /\ Lendable \subseteq 0..Len-1

VARIABLES
    table,       \* task -> file_descriptors
    lastClosed,  \* kernelFdLastClosed: one for all tasks
    blocks,      \* the stdIO blocks in use
    pc,          \* where a task is
    hand,        \* the stream OPEN is about to install
    fd,          \* the descriptor a task loads from (AF in ExecN), closes or gives
    loaded,      \* the tasks that have left ExecN
    parent,      \* TCB.parent
    child,       \* the child a task waits for in ExecFile
    opens,       \* history: the calls of OPEN so far
    raced,       \* history: the tasks in OPEN that met a change made by another one
    fault        \* the ERROR() that stopped the machine; WILD for memory beyond a table

familyVars == <<loaded, parent, child>>
vars == <<table, lastClosed, blocks, pc, hand, fd, familyVars, opens, raced, fault>>

Block == 1..MaxIO

\* A stream: closed, a file with its position, or a terminal stream on a stdIO block.
Closed == <<"closed", 0>>
FileAt(position) == <<"file", position>>
StdIO(block) == <<"stdio", block>>
Position == 0..Wrap-1
Stream == {Closed} \cup {FileAt(p) : p \in Position} \cup {StdIO(b) : b \in Block}

IsStdIO(stream) == stream[1] = "stdio"
IsFile(stream) == stream[1] = "file"

InOpen == {"search", "searchAgain", "install", "opened"}

Locations == InOpen \cup {"unborn", "init", "load", "closing", "run", "starting", "giving",
                          "paused", "waiting", "dead", "buried", "reaped"}

Alive == fault = "none"

Init ==
    /\ table = [t \in Task |-> [n \in 0..Len-1 |-> Closed]]
    /\ lastClosed = 0
    /\ blocks = {}
    /\ pc = [t \in Task |-> IF t = Boot THEN "run" ELSE "unborn"]
    /\ hand = [t \in Task |-> Closed]
    /\ fd = [t \in Task |-> NULL]
    /\ loaded = {Boot}
    /\ parent = [t \in Task |-> NULL]
    /\ child = [t \in Task |-> NULL]
    /\ opens = 0 /\ raced = {}
    /\ fault = "none"

Error(code) ==
    /\ fault' = code
    /\ UNCHANGED <<table, lastClosed, blocks, pc, hand, fd, familyVars, opens, raced>>

Calling(t, call) == pc[t] = "run" /\ call \in IF t = Boot THEN BootCalls ELSE TaskCalls

\* The tasks whose OPEN is disturbed by a change that t makes to what they search.
Disturbed(t) == {u \in Task \ {t} : pc[u] \in InOpen}

-----------------------------------------------------------------------------
(***************************************************************************)
(* OPEN.                                                                   *)
(***************************************************************************)
\* The name is a file's or the terminal's: openDEV makes a stdIO for it.
Open(t) ==
    /\ Calling(t, "open") /\ opens < MaxOpens
    /\ opens' = opens + 1
    /\ \/ hand' = [hand EXCEPT ![t] = FileAt(0)] /\ UNCHANGED blocks
       \/ \E b \in Block \ blocks :
             blocks' = blocks \cup {b} /\ hand' = [hand EXCEPT ![t] = StdIO(b)]
    /\ pc' = [pc EXCEPT ![t] = "search"]
    /\ UNCHANGED <<table, lastClosed, fd, familyVars, raced, fault>>

\* Any other name is taken for a device's, and dOpen knows none: no driver ever
\* registers one.
OpenNothing(t) == Calling(t, "misuse") /\ Error("DEV_NF")

\* Mutant of Occupied: the entry is taken as it is found.
OccupiedNever(t) == FALSE

Occupied(t) == lastClosed < Len /\ table[t][lastClosed] # Closed

\* One turn of either loop.  The hint moves for everybody.
Search(t) ==
    /\ pc[t] \in {"search", "searchAgain"}
    /\ IF lastClosed = Len /\ pc[t] = "searchAgain"
       THEN Error("FD_TOOHIGH")
       ELSE /\ CASE Occupied(t)      -> lastClosed' = lastClosed + 1 /\ UNCHANGED pc
                 [] lastClosed = Len -> lastClosed' = 0 /\ pc' = [pc EXCEPT ![t] = "searchAgain"]
                 [] OTHER            -> pc' = [pc EXCEPT ![t] = "install"] /\ UNCHANGED lastClosed
            /\ raced' = IF lastClosed' = lastClosed THEN raced ELSE raced \cup Disturbed(t)
            /\ UNCHANGED <<table, blocks, hand, fd, familyVars, opens, fault>>

\* memcpy to the entry that the hint names by now.
Install(t) ==
    /\ pc[t] = "install"
    /\ IF lastClosed >= Len
       THEN Error("WILD")
       ELSE /\ table' = [table EXCEPT ![t][lastClosed] = hand[t]]
            /\ pc' = [pc EXCEPT ![t] = "opened"]
            /\ UNCHANGED <<lastClosed, blocks, hand, fd, familyVars, opens, raced, fault>>

\* The result is read from the hint once more; ExecN goes on with it.
Opened(t) ==
    /\ pc[t] = "opened"
    /\ hand' = [hand EXCEPT ![t] = Closed]
    /\ IF t \in loaded
       THEN pc' = [pc EXCEPT ![t] = "run"] /\ UNCHANGED fd
       ELSE pc' = [pc EXCEPT ![t] = "load"] /\ fd' = [fd EXCEPT ![t] = lastClosed]
    /\ raced' = raced \ {t}
    /\ UNCHANGED <<table, lastClosed, blocks, familyVars, opens, fault>>

-----------------------------------------------------------------------------
(***************************************************************************)
(* The other calls on a descriptor.                                        *)
(***************************************************************************)
\* What a check of a descriptor stops with.  It lets Len through, and what lies
\* behind the page of the table decides.
Refusals(t, n) ==
    CASE n > Len -> {"FD_TOOHIGH"}
      [] n = Len -> {"FD_DNE", "WILD"}
      [] n < Len -> IF table[t][n] = Closed THEN {"FD_DNE"} ELSE {}

BadDescriptor(t) ==
    /\ Calling(t, "misuse")
    /\ \E n \in 0..Len+1 : \E code \in Refusals(t, n) : Error(code)

\* SEEK on a file: to any position, to one that lies any way from the present one, or
\* to the length of the file, and nothing is checked.  The position of a terminal
\* stream is never looked at.
Seek(t) ==
    /\ Calling(t, "seek")
    /\ \E n \in 0..Len-1, position \in Position :
          /\ IsFile(table[t][n])
          /\ table' = [table EXCEPT ![t][n] = FileAt(position)]
    /\ UNCHANGED <<lastClosed, blocks, pc, hand, fd, familyVars, opens, raced, fault>>

End(position, len) == (position + len) % Wrap

\* READ ends at the length of the file, WRITE before it; READ is of whole sectors and
\* WRITE inside one, which the units of a transfer do not tell.
TransferFaults(operation, len, end) ==
    CASE operation = "read" /\ end > Size   -> {"FILE_PASTBOUND"}
      [] operation = "write" /\ end >= Size -> {"FWS_UNIMP"}
      [] len = 0                            -> {"none"}
      [] OTHER -> {"none", IF operation = "read" THEN "READ_SIZE" ELSE "FRLX"}

\* A transfer whose end comes round to the start of the numbers passes, too, and goes
\* to the sectors before the file.  Bound: its length is that of the file at most.
Transfer(t) ==
    /\ Calling(t, "transfer")
    /\ \E n \in 0..Len-1, len \in 0..Size, operation \in {"read", "write"} :
          /\ IsFile(table[t][n])
          /\ LET end == End(table[t][n][2], len)
             IN  /\ fault' \in TransferFaults(operation, len, end)
                 /\ table' = IF fault' = "none" THEN [table EXCEPT ![t][n] = FileAt(end)] ELSE table
    /\ UNCHANGED <<lastClosed, blocks, pc, hand, fd, familyVars, opens, raced>>

\* CLOSE first lets the stream free its arguments ...
Close(t) ==
    /\ Calling(t, "close")
    /\ \E n \in 0..Len-1 :
          /\ Refusals(t, n) = {}
          /\ blocks' = IF IsStdIO(table[t][n]) THEN blocks \ {table[t][n][2]} ELSE blocks
          /\ fd' = [fd EXCEPT ![t] = n]
    /\ pc' = [pc EXCEPT ![t] = "closing"]
    /\ UNCHANGED <<table, lastClosed, hand, familyVars, opens, raced, fault>>

\* ... and then clears the entry and moves the hint.  ExecN is PAUSED afterwards.
Closing(t) ==
    /\ pc[t] = "closing"
    /\ table' = [table EXCEPT ![t][fd[t]] = Closed]
    /\ lastClosed' = fd[t]
    /\ raced' = raced \cup Disturbed(t)
    /\ fd' = [fd EXCEPT ![t] = NULL]
    /\ pc' = [pc EXCEPT ![t] = IF t \in loaded THEN "run" ELSE "paused"]
    /\ loaded' = loaded \cup {t}
    /\ UNCHANGED <<blocks, hand, opens, parent, child, fault>>

-----------------------------------------------------------------------------
(***************************************************************************)
(* The start of a program.                                                 *)
(***************************************************************************)
Exec(t) ==
    /\ Calling(t, "exec")
    /\ \E c \in Task :
          /\ pc[c] = "unborn"
          /\ pc' = [pc EXCEPT ![c] = "init", ![t] = "starting"]
          /\ parent' = [parent EXCEPT ![c] = t]
          /\ child' = [child EXCEPT ![t] = c]
    /\ UNCHANGED <<table, lastClosed, blocks, hand, fd, loaded, opens, raced, fault>>

\* ExecN begins with an empty table, moves the hint of all tasks to 0, and opens
\* the program.
InitKernelFd(t) ==
    /\ pc[t] = "init"
    /\ table' = [table EXCEPT ![t] = [n \in 0..Len-1 |-> Closed]]
    /\ lastClosed' = 0
    /\ raced' = raced \cup Disturbed(t)
    /\ hand' = [hand EXCEPT ![t] = FileAt(0)]
    /\ pc' = [pc EXCEPT ![t] = "search"]
    /\ UNCHANGED <<blocks, fd, familyVars, opens, fault>>

\* ExecN reads the program to its end.
Load(t) ==
    /\ pc[t] = "load"
    /\ IF fd[t] >= Len \/ Refusals(t, fd[t]) # {}
       THEN \E code \in Refusals(t, fd[t]) : Error(code)
       ELSE IF ~IsFile(table[t][fd[t]])
       THEN Error("WILD")
       ELSE /\ table' = [table EXCEPT ![t][fd[t]] = FileAt(Size)]
            /\ pc' = [pc EXCEPT ![t] = "closing"]
            /\ UNCHANGED <<lastClosed, blocks, hand, fd, familyVars, opens, raced, fault>>

\* ExecFile returns when the program is loaded.
ExecFile(t) ==
    /\ pc[t] = "starting" /\ pc[child[t]] = "paused"
    /\ pc' = [pc EXCEPT ![t] = "run"]
    /\ child' = [child EXCEPT ![t] = NULL]
    /\ UNCHANGED <<table, lastClosed, blocks, hand, fd, loaded, opens, parent, raced, fault>>

Signal(t) ==
    /\ Calling(t, "signal")
    /\ \E c \in Task : parent[c] = t /\ pc[c] = "paused" /\ pc' = [pc EXCEPT ![c] = "run"]
    /\ UNCHANGED <<table, lastClosed, blocks, hand, fd, familyVars, opens, raced, fault>>

Uwait(t) ==
    /\ Calling(t, "uwait")
    /\ \E c \in Task :
          parent[c] = t /\ pc[c] = "paused" /\ pc' = [pc EXCEPT ![c] = "run", ![t] = "waiting"]
    /\ UNCHANGED <<table, lastClosed, blocks, hand, fd, familyVars, opens, raced, fault>>

Wait(t) ==
    /\ Calling(t, "wait")
    /\ pc' = [pc EXCEPT ![t] = "waiting"]
    /\ UNCHANGED <<table, lastClosed, blocks, hand, fd, familyVars, opens, raced, fault>>

-----------------------------------------------------------------------------
(***************************************************************************)
(* Streams that change hands.                                              *)
(***************************************************************************)
\* BINDR: giveSTDIOback from the caller to a child, with room for a preemption between
\* the copy and the clearing.  A donor without a terminal stream only hits a
\* breakpoint, and whatever it has is moved.  Programs give to a child they have not
\* started yet: BINDR says of itself that it is "multithreading-incompatible".
Give(t) ==
    /\ Calling(t, "give")
    /\ \E c \in Task, n \in Lendable :
          /\ parent[c] = t /\ pc[c] = "paused"
          /\ ~IsStdIO(table[c][0])
          /\ table' = [table EXCEPT ![c][0] = table[t][n]]
          /\ fd' = [fd EXCEPT ![t] = n]
    /\ pc' = [pc EXCEPT ![t] = "giving"]
    /\ UNCHANGED <<lastClosed, blocks, hand, familyVars, opens, raced, fault>>

Given(t) ==
    /\ pc[t] = "giving"
    /\ table' = [table EXCEPT ![t][fd[t]] = Closed]
    /\ fd' = [fd EXCEPT ![t] = NULL]
    /\ pc' = [pc EXCEPT ![t] = "run"]
    /\ UNCHANGED <<lastClosed, blocks, hand, familyVars, opens, raced, fault>>

\* Mutant of GiveSTDIOback: the donor keeps its descriptor.
GiveSTDIObackKept(mother, d) ==
    IF IsStdIO(table[mother][0]) THEN table
    ELSE [table EXCEPT ![mother][0] = table[d][0]]

\* Mutant of GiveSTDIOback: the donor is cleared before it is copied.
GiveSTDIObackCleared(mother, d) ==
    IF IsStdIO(table[mother][0]) THEN table
    ELSE [table EXCEPT ![mother][0] = Closed, ![d][0] = Closed]

\* giveSTDIOback from a dead child to its mother, inside schedule().
GiveSTDIOback(mother, d) ==
    IF IsStdIO(table[mother][0]) THEN table
    ELSE [table EXCEPT ![mother][0] = table[d][0], ![d][0] = Closed]

Exit(t) ==
    /\ Calling(t, "exit") /\ t # Boot
    /\ pc' = [pc EXCEPT ![t] = "dead"]
    /\ UNCHANGED <<table, lastClosed, blocks, hand, fd, familyVars, opens, raced, fault>>

\* The last ready task dies under a waiting mother: schedule() switches to her at once.
Bury(d) ==
    /\ pc[d] = "dead" /\ pc[parent[d]] = "waiting"
    /\ table' = GiveSTDIOback(parent[d], d)
    /\ pc' = [pc EXCEPT ![d] = "buried", ![parent[d]] = "run"]
    /\ UNCHANGED <<lastClosed, blocks, hand, fd, familyVars, opens, raced, fault>>

\* reap() with murderChild: a mother that waits gets the stream back and is woken.  The
\* page of the table is freed, and nothing in it is closed.  A mother that was reaped
\* before is freed memory: it may still look like a mother, or disown the child.
Reap(d) ==
    /\ pc[d] \in {"dead", "buried"}
    /\ LET mother == parent[d]
           heir == pc[d] = "dead" /\ pc[mother] = "waiting"
       IN  /\ fault' \in {"none"} \cup IF pc[mother] = "reaped" THEN {"AMBER_ALERT"} ELSE {}
           /\ table' = IF heir THEN GiveSTDIOback(mother, d) ELSE table
           /\ pc' = IF heir THEN [pc EXCEPT ![d] = "reaped", ![mother] = "run"]
                    ELSE [pc EXCEPT ![d] = "reaped"]
    /\ UNCHANGED <<lastClosed, blocks, hand, fd, familyVars, opens, raced>>

-----------------------------------------------------------------------------

Step(t) ==
    \/ Open(t) \/ OpenNothing(t) \/ Search(t) \/ Install(t) \/ Opened(t)
    \/ BadDescriptor(t) \/ Seek(t) \/ Transfer(t) \/ Close(t) \/ Closing(t)
    \/ Exec(t) \/ InitKernelFd(t) \/ Load(t) \/ ExecFile(t) \/ Signal(t) \/ Uwait(t) \/ Wait(t)
    \/ Give(t) \/ Given(t) \/ Exit(t) \/ Bury(t) \/ Reap(t)

Halted == ~Alive /\ UNCHANGED vars

Next == Halted \/ \E t \in Task : Alive /\ Step(t)

Spec == Init /\ [][Next]_vars

TypeOK ==
    /\ table \in [Task -> [0..Len-1 -> Stream]]
    /\ lastClosed \in Nat
    /\ blocks \subseteq Block
    /\ pc \in [Task -> Locations]
    /\ hand \in [Task -> Stream]
    /\ fd \in [Task -> Nat \cup {NULL}]
    /\ parent \in [Task -> Task \cup {NULL}] /\ child \in [Task -> Task \cup {NULL}]
    /\ loaded \subseteq Task /\ raced \subseteq Task

-----------------------------------------------------------------------------

\* An OPEN during which no other task moves the hint installs its stream in a free entry
\* and returns the descriptor of that entry, however full the table is.
OpenRight ==
    \A t \in Task \ raced :
        /\ pc[t] = "install" => lastClosed < Len /\ table[t][lastClosed] = Closed
        /\ pc[t] = "opened" => lastClosed < Len /\ table[t][lastClosed] = hand[t]

\* The descriptors that stand for a block: not one that is being closed or given away.
Owners(b) ==
    {p \in Task \X (0..Len-1) :
        /\ table[p[1]][p[2]] = StdIO(b) /\ pc[p[1]] # "reaped"
        /\ ~(pc[p[1]] \in {"closing", "giving"} /\ fd[p[1]] = p[2])}

\* No two descriptors lead to the same stdIO and none to one that was freed, however
\* terminal streams are given, taken back, closed and reopened.
OneOwner ==
    \A b \in Block :
        /\ Cardinality(Owners(b)) <= 1
        /\ Owners(b) # {} => b \in blocks

Held(b) == Owners(b) # {} \/ \E t \in Task : hand[t] = StdIO(b)

\* The death of d passes b on: b is its stream 0, and the mother waits and has none.
Inherited(d, b) ==
    /\ table[d][0] = StdIO(b) /\ pc[d] = "dead"
    /\ pc[parent[d]] = "waiting" /\ ~IsStdIO(table[parent[d]][0])

\* "After the process terminates it should return stdin and stdout to its parent"
\* (sh.c:40): a terminal stream in use is only lost to a disturbed OPEN or with a task
\* that has no heir for it.
NoStreamLost ==
    [][\A b \in blocks \cap blocks' :
          Held(b) /\ ~Held(b)' =>
              \/ \E t \in raced : pc[t] = "install"
              \/ \E d \in Task : pc[d] # "reaped" /\ pc'[d] = "reaped" /\ ~Inherited(d, b)]_vars

\* "if((position+len)>(n->chunklen<<9)) ERROR(ERR_FILE_PASTBOUND, position)"
\* (qfs.c:125): from the position an open file has, a READ that is let through lies in
\* the file.  (SEEK, which checks no position, and the sum, which is taken modulo 2^64.)
ReadsInFile ==
    \A t \in Task, n \in 0..Len-1, len \in 0..Size :
        IsFile(table[t][n]) =>
            LET position == table[t][n][2]
            IN  "none" \in TransferFaults("read", len, End(position, len)) => position + len <= Size

=============================================================================
