--------------------------------- MODULE Image ---------------------------------
(***************************************************************************)
(* insertFileSystem/main.c, which turns a directory of the build machine   *)
(* into the file system of the floppy: a table of inodes from sector 0 on, *)
(* and behind it the sectors of each file and directory in the order in    *)
(* which cDF meets them.                                                   *)
(*                                                                         *)
(* The program runs once and alone, so it is operators here.  The state of *)
(* cDF is the record [lastfucker, FIRST_UNU, inodes, disk, errc].  What a  *)
(* sector holds is [of |-> the data, part |-> the number of the sector in  *)
(* it]; the data of a file is a sequence of numbers, that of a directory    *)
(* the sequence of the numbers of its inodes, which zeros end.             *)
(***************************************************************************)
EXTENDS Integers, SequencesExt

CONSTANTS
    SectorBytes,  \* 512
    InodeBytes,   \* sizeof(inode): 60
    EntryBytes,   \* a number of an inode in a directory: 8
    DiskSectors   \* the size of floppya.img, flll / 512

-----------------------------------------------------------------------------
\* Reading the directory

\* readFile.
readFile(f) == [name |-> f.name, file |-> TRUE, contents |-> f.contents, filelengthifso |-> f.size,
                entries |-> <<>>]

\* readDir: what is listed, but for the directory itself and its parent, in that order;
\* whatever is no regular file is taken for a directory.
RECURSIVE readDir(_, _)
readDir(d, name) ==
    LET listed == SelectSeq(d.listing, LAMBDA e : e.name \notin {".", ".."})
    IN  [name |-> name, file |-> FALSE, contents |-> <<>>, filelengthifso |-> 0,
         entries |-> [k \in DOMAIN listed |->
                        IF listed[k].regular THEN readFile(listed[k]) ELSE readDir(listed[k], listed[k].name)]]

\* The calls of readFile and readDir.
RECURSIVE numinodes(_)
numinodes(a) == 1 + FoldLeft(LAMBDA n, e : n + numinodes(e), 0, a.entries)

-----------------------------------------------------------------------------
\* Writing the image

\* Whole sectors for a number of bytes.
Sectors(bytes) == (bytes \div SectorBytes) + (IF bytes % SectorBytes # 0 THEN 1 ELSE 0)

\* A directory has the room its inodes would take, not that of their numbers.
getsizeofDOF(a) ==
    IF a.file THEN Sectors(a.filelengthifso) ELSE Sectors(Len(a.entries) * InodeBytes)

\* The check leaves out that the file system begins LBA_FS_BASE sectors into the image.
wdiskr(b, lba, len, data) ==
    [b EXCEPT !.errc = IF lba + len > DiskSectors THEN @ + 1 ELSE @,
              !.disk = [s \in DOMAIN @ \cup lba..(lba + len - 1) |->
                          IF s \in lba..(lba + len - 1) THEN [of |-> data, part |-> s - lba] ELSE @[s]]]

\* getdiskregion and lastfucker++.
Begun(b, size) == [b EXCEPT !.FIRST_UNU = @ + size, !.lastfucker = @ + 1]

constructInode(b, index, st, len, a) ==
    [b EXCEPT !.inodes = [i \in DOMAIN @ \cup {index} |->
        IF i = index THEN [chunkaddr1 |-> st, chunklen |-> len, file |-> a.file, name |-> a.name] ELSE @[i]]]

\* Number and sectors are taken before those of the entries are, data and inode are
\* written after them.
RECURSIVE cDF(_, _)
cDF(a, b) ==
    LET size  == getsizeofDOF(a)
        Entry(r, e) == LET new == cDF(e, r.state) IN [state |-> new.state, data |-> Append(r.data, new.index)]
        below == FoldLeft(Entry, [state |-> Begun(b, size), data |-> a.contents], a.entries)
        disk  == wdiskr(below.state, b.FIRST_UNU, size, below.data)
    IN  [index |-> b.lastfucker, state |-> constructInode(disk, b.lastfucker, b.FIRST_UNU, size, a)]

\* shitfuckpiss2000: the root loses its name, the table has its sectors before all else
\* and is written last.
Image(sysroot) ==
    LET root == readDir(sysroot, "")
        lnb  == Sectors(InodeBytes * numinodes(root))
        done == cDF(root, [lastfucker |-> 0, FIRST_UNU |-> lnb, inodes |-> <<>>, disk |-> <<>>, errc |-> 0])
    IN  wdiskr(done.state, 0, lnb, done.state.inodes)

-----------------------------------------------------------------------------
\* What is found on an image

Numbers(image) == 0..(image.lastfucker - 1)

Region(inode) == inode.chunkaddr1..(inode.chunkaddr1 + inode.chunklen - 1)

\* The data in the sectors of an inode, if these hold one whole datum.
Stored(image, i) ==
    LET inode == image.inodes[i]
        data  == image.disk[inode.chunkaddr1].of
    IN  IF inode.chunklen = 0 THEN <<>>
        ELSE IF \A s \in Region(inode) : image.disk[s] = [of |-> data, part |-> s - inode.chunkaddr1]
             THEN data ELSE <<-1>>

\* An inode whose bytes, with the one behind them, begin and end on different sectors,
\* which is how readPLUS counts.
Straddles(i) == (i * InodeBytes) \div SectorBytes # ((i + 1) * InodeBytes) \div SectorBytes

\* An image of a tree: the sectors of the inodes and those of the table are apart, every
\* inode but the root is in one directory once, its name and its data are those of the
\* tree, and a directory that is not empty has room for the zero that ends it.
RECURSIVE Agrees(_, _, _, _)
Agrees(image, i, a, name) ==
    LET listed == SelectSeq(a.listing, LAMBDA e : e.name \notin {".", ".."})
        below  == Stored(image, i)
    IN  /\ image.inodes[i].name = name
        /\ image.inodes[i].file = a.regular
        /\ IF a.regular THEN a.size > 0 => Stored(image, i) = a.contents
           ELSE /\ Len(below) = Len(listed)
                /\ Len(below) > 0 => (Len(below) + 1) * EntryBytes <= image.inodes[i].chunklen * SectorBytes
                /\ \A k \in DOMAIN below :
                     /\ below[k] \in Numbers(image) \ {0}
                     /\ Agrees(image, below[k], listed[k], listed[k].name)

IsImageOf(image, tree) ==
    /\ Agrees(image, 0, tree, "")
    /\ Cardinality(DOMAIN image.inodes) = image.lastfucker
    /\ \A i, j \in Numbers(image) : i # j => Region(image.inodes[i]) \cap Region(image.inodes[j]) = {}
    /\ \A i \in Numbers(image) :
         \A s \in Region(image.inodes[i]) : s >= Sectors(InodeBytes * image.lastfucker)

=============================================================================
