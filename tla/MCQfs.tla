--------------------------------- MODULE MCQfs ---------------------------------
(* Model checking of Qfs on a small image, which insertFileSystem builds, and   *)
(* of the builder on all small trees.                                          *)
EXTENDS Qfs, SequencesExt

\* Three inodes and a bit go on a sector; the fourth lies on two.
Builder == INSTANCE Image WITH SectorBytes <- 10, InodeBytes <- 3, EntryBytes <- 1, DiskSectors <- 20

File(name, contents, size) ==
    [name |-> name, regular |-> TRUE, contents |-> contents, size |-> size, listing |-> <<>>]
Dir(name, within) ==
    [name |-> name, regular |-> FALSE, contents |-> <<>>, size |-> 0,
     listing |-> <<[name |-> ".", regular |-> FALSE], [name |-> "..", regular |-> FALSE]>> \o within]

\* What the kernel finds on an image.
NamesOn(image)      == [i \in Builder!Numbers(image) |-> image.inodes[i].name]
LengthsOn(image)    == [i \in Builder!Numbers(image) |-> image.inodes[i].chunklen]
StraddlingOn(image) == {i \in Builder!Numbers(image) : Builder!Straddles(i)}
DataOn(image)       == [i \in Builder!Numbers(image) |-> Builder!Stored(image, i)]
EntriesOn(image)    == [i \in Builder!Numbers(image) |->
                          IF image.inodes[i].file THEN <<>> ELSE Builder!Stored(image, i)]

\* What a path names in a tree.
ContentsIn(tree, p) ==
    LET Named(d, name) == IF d = NULL THEN {} ELSE {k \in DOMAIN d.listing : d.listing[k].name = name}
        Below(d, name) == IF Named(d, name) = {} THEN NULL ELSE d.listing[First(Named(d, name))]
        found == FoldLeft(Below, tree, Append(p.dirs, p.name))
    IN  IF found = NULL THEN NULL ELSE found.contents

\* /etc/keymap, /txt and the empty directory /tmp.
SmallTree  == Dir("sysroot", <<Dir("etc", <<File("keymap", <<101>>, 10)>>),
                               File("txt", <<102>>, 4), Dir("tmp", <<>>)>>)
SmallImage == Builder!Image(SmallTree)
SmallInode == Builder!Numbers(SmallImage)
SmallName  == NamesOn(SmallImage)
SmallEntries == EntriesOn(SmallImage)
SmallLength  == LengthsOn(SmallImage)
SmallStraddling == StraddlingOn(SmallImage)
SmallData  == DataOn(SmallImage)
SmallPaths == {[dirs |-> <<>>, name |-> "txt"], [dirs |-> <<"etc">>, name |-> "keymap"],
               [dirs |-> <<"dev">>, name |-> "tty"], [dirs |-> <<"tmp">>, name |-> "x"]}
SmallContents == [p \in SmallPaths |-> ContentsIn(SmallTree, p)]

\* What the theorems about blocks and streams take for granted holds of the small image.
ASSUME SmallImageRight == Shallow /\ PathsRight

\* Trees of a root with up to three entries, which are files around the size of a sector
\* or directories of up to four of them.
SomeFile(n, size) == File("f", <<100 + n>>, size)
SomeFiles == {<<>>} \cup {[k \in 1..n |-> SomeFile(k, size)] : n \in {1, 3, 4}, size \in {0, 9, 10, 11}}
SomeEntries == {SomeFile(9, size) : size \in {0, 10, 11}} \cup {Dir("d", files) : files \in SomeFiles}
SomeTrees == {Dir("sysroot", within) : within \in UNION {[1..n -> SomeEntries] : n \in 0..3}}

\* Unless the builder of insertFileSystem/main.c reports an error, the image is one of the
\* tree it was given: no sector and no inode has two uses, and every name, every file and
\* every directory is found again.
ASSUME BuilderRight ==
    \A tree \in SomeTrees :
        Builder!Image(tree).errc = 0 => Builder!IsImageOf(Builder!Image(tree), tree)

\* The trees are large enough: some do not fit on the disk.
ASSUME BuilderMeetsBoth ==
    {Builder!Image(tree).errc = 0 : tree \in SomeTrees} = BOOLEAN

===============================================================================
