---------------------------------- MODULE Qfs ----------------------------------
(***************************************************************************)
(* Opening files in qfs.c: the walk along a path, the inode cache kINb, the *)
(* semaphore disk0 in front of the floppy, and the heap blocks that hold   *)
(* the inodes on the way.                                                  *)
(*                                                                         *)
(* Tasks are preempted anywhere.  The image is what insertFileSystem wrote; *)
(* the tasks of this module open, read and close and do not WRITE (that is *)
(* module Floppy's), and nothing in the kernel calls mkFile.  The numbers  *)
(* of the inodes fit on the first page of the cache, which exists since    *)
(* the kernel looked up the root for its first task.                       *)
(***************************************************************************)
EXTENDS Integers, Sequences, FiniteSets

CONSTANTS
    Task, NULL,
    Inode, Root,   \* the inodes of the image; Root is number 0
    Name,          \* inode -> its name
    Entries,       \* inode -> the inodes in a directory, in the order of its data
    Length,        \* inode -> chunklen, in sectors
    Straddling,    \* the inodes that lie on two sectors of the inode table
    Data,          \* inode -> what its sectors hold
    Paths,         \* the paths asked for: [dirs |-> names of directories, name |-> the last name]
    Contents,      \* path -> the contents of the file it names where the image was built
    MaxOpens,      \* bound: the calls of one task
    MaxBlocks      \* bound: the blocks of the heap

ASSUME ImageAssumption ==
    /\ Root \in Inode /\ NULL \notin Task \cup Inode \cup (1..MaxBlocks) /\ Straddling \subseteq Inode
    /\ DOMAIN Name = Inode /\ Length \in [Inode -> Nat] /\ Entries \in [Inode -> Seq(Inode)]
    /\ DOMAIN Data = Inode /\ DOMAIN Contents = Paths
    /\ MaxOpens \in Nat /\ MaxBlocks \in Nat

VARIABLES
    allocated,     \* the heap blocks in use; all of them are of one size, 64 bytes and a header
    content,       \* block -> the inode whose bytes are in it, NULL if it holds something else
    cache,         \* kINb: inode -> absent, marked (exists is set) or filled
    holder, queue, \* the semaphore disk0
    floppyInUse,   \* floppy_in_use
    pc,            \* where a task is
    path,          \* filename
    level,         \* j, the directories behind it
    entry,         \* l + 1
    listing,       \* the directory whose data is in the page m
    curdir, node,  \* the blocks of curdir and n
    strings,       \* the blocks of directories, its strings and name
    params,        \* the block of aa, the parameters of a floppy command
    left, then,    \* sectors still to be read; where the task goes on afterwards
    file,          \* the block of the inode of the task's open stream
    arguments,     \* the block of that stream's arguments
    opens,         \* history: calls of OPEN
    fault          \* the ERROR() that stopped the machine, or TWO_HOLDERS

heapVars == <<allocated, content>>
diskVars == <<holder, queue, floppyInUse>>
walkVars == <<path, level, entry, listing, curdir, node, strings>>
readVars == <<params, left, then>>
fileVars == <<file, arguments, opens>>
vars == <<heapVars, cache, diskVars, pc, walkVars, readVars, fileVars, fault>>

Block == 1..MaxBlocks

\* list: at an entry of a directory; compare: it has the inode of the entry;
\* mark, fill: inside kINb_ad; found: the walk is over; open: it has a stream;
\* acquire .. release: inside readPLUS or InodeRead.
Labels == {"idle", "list", "compare", "mark", "fill", "readdir", "found", "open",
           "acquire", "queued", "transfer", "command", "release"}

Init ==
    /\ allocated = {} /\ content = [b \in Block |-> NULL]
    /\ cache = [i \in Inode |-> IF i = Root THEN "filled" ELSE "absent"]
    /\ holder = NULL /\ queue = <<>> /\ floppyInUse = FALSE
    /\ pc = [t \in Task |-> "idle"]
    /\ path = [t \in Task |-> NULL]
    /\ level = [t \in Task |-> 0] /\ entry = [t \in Task |-> 1] /\ listing = [t \in Task |-> NULL]
    /\ curdir = [t \in Task |-> NULL] /\ node = [t \in Task |-> NULL]
    /\ strings = [t \in Task |-> {}]
    /\ params = [t \in Task |-> NULL] /\ left = [t \in Task |-> 0] /\ then = [t \in Task |-> "idle"]
    /\ file = [t \in Task |-> NULL] /\ arguments = [t \in Task |-> NULL]
    /\ opens = [t \in Task |-> 0]
    /\ fault = "none"

At(t, label) == fault = "none" /\ pc[t] = label

Goto(t, label) == pc' = [pc EXCEPT ![t] = label]

Error(code) ==
    /\ fault' = code
    /\ UNCHANGED <<heapVars, cache, diskVars, pc, walkVars, readVars, fileVars>>

-----------------------------------------------------------------------------
(***************************************************************************)
(* The heap: malloc takes the first block that fits, and here all do.  A   *)
(* freed block keeps its bytes.                                            *)
(***************************************************************************)
Unused == Block \ allocated

First(blocks) == CHOOSE b \in blocks : \A c \in blocks : b <= c

\* The block of the n-th malloc from here on.
Nth(n) == CHOOSE b \in Unused : Cardinality({c \in Unused : c < b}) = n - 1

Fresh(n) == {Nth(i) : i \in 1..n}

\* malloc of n blocks, of which last holds the inode i.
Malloc(n, i) ==
    /\ Cardinality(Unused) >= n
    /\ allocated' = allocated \cup Fresh(n)
    /\ content' = [b \in Block |-> IF b \notin Fresh(n) THEN content[b]
                                   ELSE IF b = Nth(n) THEN i ELSE NULL]

\* free stops the machine for a block that is not in use.
Freeable(blocks) == blocks \subseteq allocated

-----------------------------------------------------------------------------
(***************************************************************************)
(* The disk: acquire_semaphore(disk0), floppy_read of each sector,         *)
(* release_semaphore.                                                      *)
(***************************************************************************)
\* Mutant of DiskFree: nobody waits for the disk.
DiskFreeAlways == TRUE

DiskFree == holder = NULL

Acquire(t) ==
    /\ At(t, "acquire")
    /\ IF DiskFree
       THEN holder' = t /\ Goto(t, "transfer") /\ UNCHANGED queue
       ELSE queue' = Append(queue, t) /\ Goto(t, "queued") /\ UNCHANGED holder
    /\ UNCHANGED <<heapVars, cache, floppyInUse, walkVars, readVars, fileVars, fault>>

\* floppy_read up to the command, during which other tasks run.
StartTransfer(t) ==
    /\ At(t, "transfer")
    /\ IF floppyInUse
       THEN Error("FDC_INUSE")
       ELSE /\ floppyInUse' = TRUE
            /\ Malloc(1, NULL)
            /\ params' = [params EXCEPT ![t] = Nth(1)]
            /\ Goto(t, "command")
            /\ UNCHANGED <<cache, holder, queue, walkVars, left, then, fileVars, fault>>

\* The inode of the entry the task is at.
Current(t) == Entries[listing[t]][entry[t]]

\* floppy_read from the end of its command; readPLUS then copies the inode into a
\* block, and malloc gives it the one that the command has just given back, or one in front.
EndTransfer(t) ==
    /\ At(t, "command")
    /\ floppyInUse' = FALSE
    /\ left' = [left EXCEPT ![t] = @ - 1]
    /\ Goto(t, IF left[t] > 1 THEN "transfer" ELSE "release")
    /\ LET first == First(Unused \cup {params[t]})
       IN  IF left[t] = 1 /\ then[t] = "mark"
           THEN /\ allocated' = (allocated \ {params[t]}) \cup {first}
                /\ content' = [content EXCEPT ![first] = Current(t)]
                /\ node' = [node EXCEPT ![t] = first]
           ELSE /\ allocated' = allocated \ {params[t]}
                /\ UNCHANGED <<content, node>>
    /\ params' = [params EXCEPT ![t] = NULL]
    /\ UNCHANGED <<cache, holder, queue, path, level, entry, listing, curdir, strings,
                   then, fileVars, fault>>

\* Mutant of Successor: release_semaphore forgets the queue.
SuccessorNone == NULL

Successor == IF queue = <<>> THEN NULL ELSE Head(queue)

\* unblock_task leaves the link of the task it wakes as it is when other tasks are
\* ready: the next waiter may follow it out of the ready list, and two tasks have the
\* disk.  The behaviour ends there; Ipc has what leads to it.
HandOverFaults == {"none"} \cup IF Len(queue) >= 2 THEN {"TWO_HOLDERS"} ELSE {}

Release(t) ==
    /\ At(t, "release")
    /\ holder' = Successor
    /\ IF Successor = NULL
       THEN Goto(t, then[t]) /\ UNCHANGED <<queue, fault>>
       ELSE /\ pc' = [pc EXCEPT ![t] = then[t], ![Successor] = "transfer"]
            /\ queue' = Tail(queue)
            /\ fault' \in HandOverFaults
    /\ UNCHANGED <<heapVars, cache, floppyInUse, walkVars, readVars, fileVars>>

\* A call of readPLUS or InodeRead for so many sectors.
ReadSectors(t, n, label) ==
    /\ Goto(t, "acquire")
    /\ left' = [left EXCEPT ![t] = n]
    /\ then' = [then EXCEPT ![t] = label]
    /\ UNCHANGED params

\* 1 + lba2 - lba1.
Sectors(i) == IF i \in Straddling THEN 2 ELSE 1

\* The check of InodeRead for the first sector; bytes that are no inode any more are
\* taken for a length of zero.
InBounds(b) == content[b] # NULL /\ Length[content[b]] >= 1

-----------------------------------------------------------------------------
(***************************************************************************)
(* getFileFromFilename.                                                    *)
(***************************************************************************)
\* OPEN: struct File, then the strings of the path, then a copy of the root.
Open(t) ==
    /\ At(t, "idle") /\ opens[t] < MaxOpens
    /\ \E p \in Paths :
          LET dirs == Len(p.dirs)
              strs == IF dirs = 0 THEN 1 ELSE dirs + 2
          IN  /\ path' = [path EXCEPT ![t] = p]
              /\ Malloc(strs + 2, Root)
              /\ strings' = [strings EXCEPT ![t] = {Nth(i + 1) : i \in 1..strs}]
              /\ curdir' = [curdir EXCEPT ![t] = Nth(strs + 2)]
    /\ level' = [level EXCEPT ![t] = 0]
    /\ node' = [node EXCEPT ![t] = NULL]
    /\ opens' = [opens EXCEPT ![t] = @ + 1]
    /\ Goto(t, "readdir")
    /\ UNCHANGED <<cache, diskVars, entry, listing, readVars, file, arguments, fault>>

\* InodeRead of the first sector of curdir.
ReadDir(t) ==
    /\ At(t, "readdir")
    /\ IF ~InBounds(curdir[t])
       THEN Error("FILE_PASTBOUND")
       ELSE /\ listing' = [listing EXCEPT ![t] = content[curdir[t]]]
            /\ entry' = [entry EXCEPT ![t] = 1]
            /\ ReadSectors(t, 1, "list")
            /\ UNCHANGED <<heapVars, cache, diskVars, path, level, curdir, node, strings,
                           fileVars, fault>>

AtLastName(t) == level[t] = Len(path[t].dirs)

Wanted(t) == IF AtLastName(t) THEN path[t].name ELSE path[t].dirs[level[t] + 1]

\* Mutant of Dropped: the last loop frees n as the others do.
DroppedAlways(t) == IF node[t] # NULL THEN {node[t]} ELSE {}

\* What is freed in front of GrabInode: the loops over directories free the n of the
\* entry before, the last loop does not.
Dropped(t) == IF ~AtLastName(t) /\ node[t] # NULL THEN {node[t]} ELSE {}

\* The next entry: kINb_gb copies it out of the cache, or it is read from the disk.
Hit(t) ==
    /\ At(t, "list") /\ entry[t] <= Len(Entries[listing[t]]) /\ cache[Current(t)] # "absent"
    /\ Unused \cup Dropped(t) # {}
    /\ IF ~Freeable(Dropped(t))
       THEN Error("DOUBLE_FREE")
       ELSE LET first == First(Unused \cup Dropped(t))
            IN  /\ allocated' = (allocated \ Dropped(t)) \cup {first}
                /\ content' = [content EXCEPT ![first] =
                                 IF cache[Current(t)] = "filled" THEN Current(t) ELSE NULL]
                /\ node' = [node EXCEPT ![t] = first]
                /\ Goto(t, "compare")
                /\ UNCHANGED <<cache, diskVars, path, level, entry, listing, curdir, strings,
                               readVars, fileVars, fault>>

Miss(t) ==
    /\ At(t, "list") /\ entry[t] <= Len(Entries[listing[t]]) /\ cache[Current(t)] = "absent"
    /\ IF ~Freeable(Dropped(t))
       THEN Error("DOUBLE_FREE")
       ELSE /\ allocated' = allocated \ Dropped(t)
            /\ node' = [node EXCEPT ![t] = NULL]
            /\ ReadSectors(t, Sectors(Current(t)), "mark")
            /\ UNCHANGED <<content, cache, diskVars, path, level, entry, listing, curdir, strings,
                           fileVars, fault>>

\* The locals of the walk are gone; an open stream remembers its path as history.
EndWalk(t, p) ==
    /\ path' = [path EXCEPT ![t] = p]
    /\ level' = [level EXCEPT ![t] = 0]
    /\ entry' = [entry EXCEPT ![t] = 1]
    /\ listing' = [listing EXCEPT ![t] = NULL]

\* The end of the directory: NULL, and every block of the walk is left behind.
NotFound(t) ==
    /\ At(t, "list") /\ entry[t] > Len(Entries[listing[t]])
    /\ curdir' = [curdir EXCEPT ![t] = NULL] /\ node' = [node EXCEPT ![t] = NULL]
    /\ strings' = [strings EXCEPT ![t] = {}]
    /\ EndWalk(t, NULL)
    /\ Goto(t, "idle")
    /\ UNCHANGED <<heapVars, cache, diskVars, readVars, fileVars, fault>>

\* kINb_ad: exists is set before the inode is copied, and only by the first who comes.
Mark(t) ==
    /\ At(t, "mark")
    /\ IF cache[Current(t)] = "absent"
       THEN cache' = [cache EXCEPT ![Current(t)] = "marked"] /\ Goto(t, "fill")
       ELSE UNCHANGED cache /\ Goto(t, "compare")
    /\ UNCHANGED <<heapVars, diskVars, walkVars, readVars, fileVars, fault>>

Fill(t) ==
    /\ At(t, "fill")
    /\ cache' = [cache EXCEPT ![Current(t)] = "filled"]
    /\ Goto(t, "compare")
    /\ UNCHANGED <<heapVars, diskVars, walkVars, readVars, fileVars, fault>>

\* Mutant of Matches: strcmp stops at the end of the shorter name.
MatchesPrefix(t) == content[node[t]] # NULL => Name[content[node[t]]] = Wanted(t)

\* strcmp; the cleared name of an entry that is only marked is empty.
Matches(t) == content[node[t]] # NULL /\ Name[content[node[t]]] = Wanted(t)

\* Another name: the last loop frees the inode at once.
Skip(t) ==
    /\ At(t, "compare") /\ ~Matches(t)
    /\ IF AtLastName(t) /\ ~Freeable({node[t]})
       THEN Error("DOUBLE_FREE")
       ELSE /\ entry' = [entry EXCEPT ![t] = @ + 1]
            /\ allocated' = IF AtLastName(t) THEN allocated \ {node[t]} ELSE allocated
            /\ Goto(t, "list")
            /\ UNCHANGED <<content, cache, diskVars, path, level, listing, curdir, node, strings,
                           readVars, fileVars, fault>>

\* The directory of that name becomes curdir, and n stays the same block.
Descend(t) ==
    /\ At(t, "compare") /\ Matches(t) /\ ~AtLastName(t)
    /\ IF ~Freeable({curdir[t]})
       THEN Error("DOUBLE_FREE")
       ELSE /\ allocated' = allocated \ {curdir[t]}
            /\ curdir' = [curdir EXCEPT ![t] = node[t]]
            /\ level' = [level EXCEPT ![t] = @ + 1]
            /\ Goto(t, "readdir")
            /\ UNCHANGED <<content, cache, diskVars, path, entry, listing, node, strings,
                           readVars, fileVars, fault>>

\* The file: everything but its inode is freed.
Found(t) ==
    /\ At(t, "compare") /\ Matches(t) /\ AtLastName(t)
    /\ IF ~Freeable(strings[t] \cup {curdir[t]})
       THEN Error("DOUBLE_FREE")
       ELSE /\ allocated' = allocated \ (strings[t] \cup {curdir[t]})
            /\ curdir' = [curdir EXCEPT ![t] = NULL] /\ strings' = [strings EXCEPT ![t] = {}]
            /\ Goto(t, "found")
            /\ UNCHANGED <<content, cache, diskVars, path, level, entry, listing, node,
                           readVars, fileVars, fault>>

-----------------------------------------------------------------------------
(***************************************************************************)
(* The stream of an open file.                                             *)
(***************************************************************************)
\* OPEN makes a stream and its arguments, copies the stream into kernelFd, frees it.
MakeStream(t) ==
    /\ At(t, "found") /\ Cardinality(Unused) >= 2
    /\ allocated' = allocated \cup {Nth(2)}
    /\ content' = [content EXCEPT ![Nth(1)] = NULL, ![Nth(2)] = NULL]
    /\ arguments' = [arguments EXCEPT ![t] = Nth(2)]
    /\ file' = [file EXCEPT ![t] = node[t]] /\ node' = [node EXCEPT ![t] = NULL]
    /\ EndWalk(t, path[t])
    /\ Goto(t, "open")
    /\ UNCHANGED <<cache, diskVars, curdir, strings, readVars, opens, fault>>

\* FileReaderStream of the first sector.
ReadFile(t) ==
    /\ At(t, "open")
    /\ IF ~InBounds(file[t])
       THEN Error("FILE_PASTBOUND")
       ELSE /\ ReadSectors(t, 1, "open")
            /\ UNCHANGED <<heapVars, cache, diskVars, walkVars, fileVars, fault>>

\* CLOSE frees the arguments; the inode is left behind.
Close(t) ==
    /\ At(t, "open")
    /\ IF ~Freeable({arguments[t]})
       THEN Error("DOUBLE_FREE")
       ELSE /\ allocated' = allocated \ {arguments[t]}
            /\ file' = [file EXCEPT ![t] = NULL] /\ arguments' = [arguments EXCEPT ![t] = NULL]
            /\ EndWalk(t, NULL)
            /\ Goto(t, "idle")
            /\ UNCHANGED <<content, cache, diskVars, curdir, node, strings, readVars, opens, fault>>

-----------------------------------------------------------------------------

\* A task that has the processor, inside OPEN or READ.
Move(t) ==
    \/ Acquire(t) \/ StartTransfer(t) \/ EndTransfer(t) \/ Release(t)
    \/ ReadDir(t) \/ Hit(t) \/ Miss(t) \/ NotFound(t)
    \/ Mark(t) \/ Fill(t) \/ Skip(t) \/ Descend(t) \/ Found(t) \/ MakeStream(t)

Halted == fault # "none" /\ UNCHANGED vars

Next == Halted \/ \E t \in Task : Move(t) \/ Open(t) \/ ReadFile(t) \/ Close(t)

Spec == Init /\ [][Next]_vars

\* A task that is ready gets the processor, and a floppy command ends or stops the
\* machine (its time-outs call ERROR).  Nobody has to open, read or close.
FairSpec == Spec /\ \A t \in Task : WF_vars(Move(t))

-----------------------------------------------------------------------------

BlockOrNull == Block \cup {NULL}

TypeOK ==
    /\ allocated \subseteq Block /\ content \in [Block -> Inode \cup {NULL}]
    /\ cache \in [Inode -> {"absent", "marked", "filled"}]
    /\ holder \in Task \cup {NULL} /\ queue \in Seq(Task) /\ floppyInUse \in BOOLEAN
    /\ pc \in [Task -> Labels] /\ then \in [Task -> Labels] /\ left \in [Task -> Nat]
    /\ path \in [Task -> Paths \cup {NULL}] /\ listing \in [Task -> Inode \cup {NULL}]
    /\ level \in [Task -> Nat] /\ entry \in [Task -> Nat \ {0}] /\ opens \in [Task -> 0..MaxOpens]
    /\ curdir \in [Task -> BlockOrNull] /\ node \in [Task -> BlockOrNull]
    /\ params \in [Task -> BlockOrNull] /\ file \in [Task -> BlockOrNull]
    /\ arguments \in [Task -> BlockOrNull] /\ strings \in [Task -> SUBSET Block]
    /\ fault \in {"none", "FDC_INUSE", "FILE_PASTBOUND", "DOUBLE_FREE", "TWO_HOLDERS"}

\* Whatever two tasks read at once, disk0 keeps them off the controller: floppy_in_use
\* never stops the machine, and no release lets in more than one.  (From the third task
\* on it may.)
OneTransfer == fault \notin {"FDC_INUSE", "TWO_HOLDERS"}

\* The blocks a task will still dereference or free.
Live(t) ==
    (IF pc[t] = "compare" \/ pc[t] = "found" THEN {node[t]} ELSE {})
        \cup ({curdir[t], params[t], file[t], arguments[t]} \ {NULL}) \cup strings[t]

\* Blocks in use are in use, and no two tasks own one of them together: nothing is freed
\* too early or twice, although the walk keeps curdir and n in the same block for a while.
BlocksAlive ==
    /\ TypeOK
    /\ fault # "DOUBLE_FREE"
    /\ \A t \in Task : Live(t) \subseteq allocated
    /\ \A t, u \in Task : t # u => Live(t) \cap Live(u) = {}

\* The paths that the kernel and its programs name have one directory at most; on a longer
\* one the walk frees the same block as n and as curdir.
Shallow == \A p \in Paths : Len(p.dirs) \in 0..1

\* The directories a walk along such a path may be in after n names.
OnPath(p, n, d) ==
    /\ d \in Inode
    /\ IF n = 0 THEN d = Root
       ELSE Name[d] = p.dirs[1] /\ \E k \in 1..Len(Entries[Root]) : d = Entries[Root][k]

\* The image is right: every file a path can lead to has the contents it had on the build machine.
PathsRight ==
    \A p \in Paths, d \in Inode : OnPath(p, Len(p.dirs), d) =>
        \A k \in 1..Len(Entries[d]) :
            Name[Entries[d][k]] = p.name => Data[Entries[d][k]] = Contents[p]

\* From OPEN to CLOSE, and as long as disk0 lets in one task at a time, an open stream is
\* on the data of the file its path names, as that was when the image was built: neither a
\* cache entry that another task is about to fill nor a block that is used again gets in
\* between, nor an inode or a sector out of place.
StreamsRight ==
    \A t \in Task : file[t] # NULL =>
        /\ content[file[t]] # NULL
        /\ Data[content[file[t]]] = Contents[path[t]]

\* The walk of a path ends, unless the machine stops.
WalkEnds ==
    \A t \in Task : pc[t] \notin {"idle", "open"} ~> (pc[t] \in {"idle", "open"} \/ fault # "none")

===============================================================================
