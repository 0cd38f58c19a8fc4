-------------------------------- MODULE Malloc --------------------------------
(***************************************************************************)
(* The kernel heap of malloc.c.  A table has entries of a bitmap and a     *)
(* page; a set bit is a free chunk of its page.  Tables are chained, pages *)
(* are never given back.                                                   *)
(*                                                                         *)
(* A bitmap is 64 bits wide, but its masks are computed from the int       *)
(* constant 1, which is 32 bits wide: bitmaps and masks are modelled as    *)
(* sets of bit positions, with the width each expression has in the build. *)
(* One call is one step: the calls of a single task, not those of two      *)
(* tasks that are inside malloc at once.                                   *)
(***************************************************************************)
EXTENDS Integers, Sequences, FiniteSets

CONSTANTS
    Width,       \* the chunks of a page and the bits of a bitmap (64)
    IntWidth,    \* the bits of an int (32)
    Entries,     \* the entries of a table (255)
    MaxTables,   \* bound: the tables that are ever chained
    Requests     \* the sizes asked for, in chunks of 64 bytes, rounded up

\* malloc refuses what does not fit on a page with its header.
ASSUME WidthAssumption ==
    /\ Width \in Nat /\ IntWidth \in Nat
    /\ 2 < IntWidth /\ IntWidth <= Width
    /\ Entries \in Nat \ {0} /\ MaxTables \in Nat \ {0}
    /\ Requests \subseteq 1..(Width - 2)

VARIABLES
    tables,      \* the chain from ml1: entry -> [page |-> is there one, free |-> the bitmap]
    blocks,      \* what malloc has returned and nobody has freed, with its header
    fault        \* the ERROR() that stopped the machine

vars == <<tables, blocks, fault>>

Chunk == 0..(Width - 1)
Entry == 0..(Entries - 1)

NoPage == [page |-> FALSE, free |-> {}]

\* memfill of a new table.
EmptyTable == [e \in Entry |-> NoPage]

\* The header in front of a block: the entry it came from, j and size.
Block == [table : 1..MaxTables, entry : Entry, j : Chunk, size : 2..Width]

\* The chunks of a block, its header's included.
Extent(b) == (b.j - b.size + 1)..b.j

-----------------------------------------------------------------------------

\* 1 << j with an int 1: the shift count is taken modulo the width of an int, and
\* the sign bit extends over the upper half of the bitmap it is compared with.
IntBit(j) == IF j % IntWidth = IntWidth - 1 THEN (IntWidth - 1)..(Width - 1) ELSE {j % IntWidth}

\* (1 << size) - 1.
SizeMask(size) == 0..((size % IntWidth) - 1)

Shifted(mask, k) == {b + k : b \in mask} \cap Chunk

\* bitmap >= mask, as numbers.
Fits(free, mask) == mask \subseteq free \/ \E b \in free : b \notin mask

\* The run of size matching bits that ends at j.
Matched(free, size, j) == \A k \in (j - size + 1)..j : k >= 0 /\ free \cap IntBit(k) # {}

HasRun(free, size) == Fits(free, SizeMask(size)) /\ \E j \in Chunk : Matched(free, size, j)

FirstRun(free, size) == CHOOSE j \in Chunk :
    /\ Matched(free, size, j)
    /\ \A i \in Chunk : Matched(free, size, i) => j <= i

\* The loop goes to the next table before it tests whether there is one after that:
\* the last of several tables is not looked at.
Scanned == IF Len(tables) = 1 THEN {1} ELSE 1..(Len(tables) - 1)

Before(t, e, u, f) == t < u \/ (t = u /\ e <= f)

\* The first place of a set of <<table, entry>>.
FirstOf(places) == CHOOSE p \in places : \A q \in places : Before(p[1], p[2], q[1], q[2])

Usable(size) == {p \in Scanned \X Entry : tables[p[1]][p[2]].page /\ HasRun(tables[p[1]][p[2]].free, size)}

Unallocated == {p \in Scanned \X Entry : ~tables[p[1]][p[2]].page}

-----------------------------------------------------------------------------

Init ==
    /\ tables = <<EmptyTable>>
    /\ blocks = {}
    /\ fault = "none"

Error(code) == fault' = code /\ UNCHANGED <<tables, blocks>>

\* Mutant of Taken: the bits are cleared without a look at them.
TakenUnchecked(free, mask) == TRUE

\* The check in front of the update: every bit of the run is set.
Taken(free, mask) == mask \subseteq free

\* malloc finds a run of bits on a page it has.
MallocRun(r) ==
    LET size == r + 1
        p    == FirstOf(Usable(size))
        free == tables[p[1]][p[2]].free
        j    == FirstRun(free, size)
        mask == Shifted(SizeMask(size), j - size + 1)
    IN  /\ Usable(size) # {}
        /\ IF Taken(free, mask)
           THEN /\ tables' = [tables EXCEPT ![p[1]][p[2]].free = (@ \ mask) \cup (mask \ @)]
                /\ blocks' = blocks \cup {[table |-> p[1], entry |-> p[2], j |-> j, size |-> size]}
                /\ UNCHANGED fault
           ELSE Error("FREE_SIZEMISMATCH")

\* Mutant of NewBitmap: the first block of a page is left out of the bitmap.
NewBitmapFull(size) == Chunk

NewBitmap(size) == Chunk \ SizeMask(size)

\* malloc takes a new page, in a new table if those it looked at are full.
MallocPage(r) ==
    LET size  == r + 1
        fresh == [page |-> TRUE, free |-> NewBitmap(size)]
        block(t, e) == [table |-> t, entry |-> e, j |-> size - 1, size |-> size]
    IN  /\ Usable(size) = {}
        /\ IF Unallocated # {}
           THEN LET p == FirstOf(Unallocated)
                IN  /\ tables' = [tables EXCEPT ![p[1]][p[2]] = fresh]
                    /\ blocks' = blocks \cup {block(p[1], p[2])}
           ELSE /\ Len(tables) < MaxTables
                /\ tables' = Append(tables, [EmptyTable EXCEPT ![0] = fresh])
                /\ blocks' = blocks \cup {block(Len(tables) + 1, 0)}
        /\ UNCHANGED fault

\* Mutant of FreedMask: the shift is off by one.
FreedMaskShort(b) == Shifted(SizeMask(b.size), b.j - b.size)

\* The bits that free reconstructs from the header.
FreedMask(b) == Shifted(SizeMask(b.size), b.j - b.size + 1)

\* free of a block that malloc returned.
Free(b) ==
    LET free == tables[b.table][b.entry].free
        mask == FreedMask(b)
    IN  IF free \cap mask # {}
        THEN Error("FREE_BADMETADATA")
        ELSE /\ tables' = [tables EXCEPT ![b.table][b.entry].free = @ \cup mask]
             /\ blocks' = blocks \ {b}
             /\ UNCHANGED fault

\* ERROR never returns.
Halted == fault # "none" /\ UNCHANGED vars

Next ==
    \/ Halted
    \/ /\ fault = "none"
       /\ (\E r \in Requests : MallocRun(r) \/ MallocPage(r)) \/ (\E b \in blocks : Free(b))

Spec == Init /\ [][Next]_vars

-----------------------------------------------------------------------------

TypeOK ==
    /\ tables \in Seq([Entry -> [page : BOOLEAN, free : SUBSET Chunk]])
    /\ Len(tables) \in 1..MaxTables
    /\ blocks \subseteq Block
    /\ fault \in {"none", "FREE_SIZEMISMATCH", "FREE_BADMETADATA"}

\* No two callers are given the same memory, although the search may take a bit of
\* the lower half for one of the upper half.
NoOverlap ==
    \A a, b \in blocks : a # b /\ a.table = b.table /\ a.entry = b.entry => Extent(a) \cap Extent(b) = {}

\* A block that malloc returned is taken back by free: the header describes bits that
\* are clear, whatever was allocated and freed in between.
FreeAccepted == fault # "FREE_BADMETADATA"

\* Memory is neither lost nor doubled: a page's bitmap shows exactly the chunks that
\* no block covers.
BitmapExact ==
    /\ TypeOK
    /\ \A t \in 1..Len(tables), e \in Entry :
         tables[t][e].page =>
             tables[t][e].free = Chunk \ UNION {Extent(b) : b \in {c \in blocks : c.table = t /\ c.entry = e}}

===============================================================================
