----------------------------- MODULE MallocProofs -----------------------------
(***************************************************************************)
(* The heap of Malloc for tables, pages and words of any size: as long as  *)
(* every mask fits an int, blocks are disjoint, bitmaps are exact and free *)
(* takes every block back - whatever the search of malloc is misled to by  *)
(* its bits of an int.                                                     *)
(***************************************************************************)
EXTENDS Malloc, WellFoundedInduction, TLAPS

\* A mask of r + 1 bits is right in an int: at most 30 chunks, 1920 bytes, in the build.
SmallRequests == \A r \in Requests : r + 1 < IntWidth

Tables == Seq([Entry -> [page : BOOLEAN, free : SUBSET Chunk]])

\* One entry of a table becomes x; its bitmap becomes bits.
EntrySet(ts, t, e, x) == [ts EXCEPT ![t][e] = x]
BitmapSet(ts, t, e, bits) == [ts EXCEPT ![t][e].free = bits]

\* n differs from ts in one entry at most.
OneEntry(n, ts, t, e) ==
    /\ n \in Tables /\ Len(n) = Len(ts)
    /\ \A u \in 1..Len(ts), f \in Entry : u # t \/ f # e => n[u][f] = ts[u][f]

\* Where a block lies: on a page that a table has, from a chunk of it on.
Placed(ts, bs) ==
    \A b \in bs :
        /\ b.table \in 1..Len(ts) /\ ts[b.table][b.entry].page
        /\ b.j - b.size + 1 >= 0 /\ b.size < IntWidth

\* Chunk c of a page is covered by a block.
CoveredBy(bs, t, e, c) == \E b \in bs : b.table = t /\ b.entry = e /\ c \in Extent(b)

\* A free chunk is one that no block of its page covers.
Exact(ts, bs) ==
    \A t \in 1..Len(ts), e \in Entry : ts[t][e].page =>
        \A c \in Chunk : c \in ts[t][e].free <=> ~CoveredBy(bs, t, e, c)

Apart(bs) ==
    \A a, b \in bs : a # b /\ a.table = b.table /\ a.entry = b.entry => Extent(a) \cap Extent(b) = {}

HeapInv ==
    /\ tables \in Tables /\ Len(tables) \in 1..MaxTables
    /\ blocks \subseteq Block
    /\ fault \in {"none", "FREE_SIZEMISMATCH"}
    /\ Placed(tables, blocks) /\ Exact(tables, blocks) /\ Apart(blocks)

-----------------------------------------------------------------------------
(***************************************************************************)
(* Masks of sizes that an int can hold.                                    *)
(***************************************************************************)
\* A number below the modulus is its own remainder.
LEMMA ModSmall == ASSUME NEW n \in Nat, NEW w \in Nat, n < w PROVE n % w = n
OBVIOUS

\* (1 << size) - 1 has size bits.
LEMMA SmallMask == ASSUME NEW size \in Nat, size < IntWidth PROVE SizeMask(size) = 0..(size - 1)
BY ModSmall, WidthAssumption DEF SizeMask

\* Shifted to where a block begins, the mask is the extent of the block.
LEMMA MaskIsExtent ==
    ASSUME NEW j \in Chunk, NEW size \in 1..Width, size < IntWidth, j - size + 1 >= 0
    PROVE  Shifted(SizeMask(size), j - size + 1) = (j - size + 1)..j
<1>1. SizeMask(size) = 0..(size - 1)
  BY SmallMask, WidthAssumption
<1>2. \A x \in (j - size + 1)..j : x - (j - size + 1) \in 0..(size - 1) /\ x \in Chunk
  BY WidthAssumption DEF Chunk
<1>3. \A x \in (j - size + 1)..j : x \in Shifted(SizeMask(size), j - size + 1)
  <2> TAKE x \in (j - size + 1)..j
  <2>1. x = (x - (j - size + 1)) + (j - size + 1)
    BY WidthAssumption DEF Chunk
  <2> QED BY <1>1, <1>2, <2>1 DEF Shifted
<1>4. \A b \in 0..(size - 1) : b + (j - size + 1) \in (j - size + 1)..j
  BY WidthAssumption DEF Chunk
<1> QED BY <1>1, <1>3, <1>4 DEF Shifted

\* A set of numbers that is not empty has a least one.
LEMMA LeastNumber ==
    ASSUME NEW T, T \subseteq Nat, T # {}
    PROVE  \E x \in T : \A y \in T : x <= y
<1>1. PICK x \in T : \A y \in T : <<y, x>> \notin OpToRel(<, Nat)
  BY WFMin, NatLessThanWellFounded
<1>2. \A y \in T : ~(y < x)
  BY <1>1 DEF OpToRel
<1> QED BY <1>2

\* A run that the search has matched lies in the word, and the first one is matched.
LEMMA FirstRunMatched ==
    ASSUME NEW free, NEW size \in 1..Width, HasRun(free, size)
    PROVE  FirstRun(free, size) \in Chunk /\ FirstRun(free, size) - size + 1 >= 0
<1>1. {j \in Chunk : Matched(free, size, j)} # {}
  BY DEF HasRun
<1>2. \E x \in {j \in Chunk : Matched(free, size, j)} :
          \A y \in {j \in Chunk : Matched(free, size, j)} : x <= y
  <2>1. {j \in Chunk : Matched(free, size, j)} \subseteq Nat
    BY WidthAssumption DEF Chunk
  <2> QED BY <1>1, <2>1, LeastNumber
<1>3. FirstRun(free, size) \in Chunk /\ Matched(free, size, FirstRun(free, size))
  BY <1>2 DEF FirstRun
<1>4. ASSUME NEW f \in Chunk, Matched(free, size, f) PROVE f - size + 1 >= 0
  BY <1>4, WidthAssumption DEF Matched, Chunk
<1> QED BY <1>3, <1>4

\* A set of places that is not empty has a first one.
LEMMA FirstOfPlaces ==
    ASSUME NEW places, places \subseteq Nat \X Nat, places # {}
    PROVE  FirstOf(places) \in places
<1>1. PICK t \in {p[1] : p \in places} : \A u \in {p[1] : p \in places} : t <= u
  <2>1. {p[1] : p \in places} # {} /\ {p[1] : p \in places} \subseteq Nat
    OBVIOUS
  <2> QED BY <2>1, LeastNumber
<1>2. PICK e \in {p[2] : p \in {q \in places : q[1] = t}} :
              \A f \in {p[2] : p \in {q \in places : q[1] = t}} : e <= f
  <2>1. /\ {p[2] : p \in {q \in places : q[1] = t}} # {}
        /\ {p[2] : p \in {q \in places : q[1] = t}} \subseteq Nat
    BY <1>1
  <2> QED BY <2>1, LeastNumber
<1>3. <<t, e>> \in places
  BY <1>2
<1>4. ASSUME NEW q \in places PROVE Before(t, e, q[1], q[2])
  <2>1. t \in Nat /\ e \in Nat /\ q[1] \in Nat /\ q[2] \in Nat /\ t <= q[1]
    BY <1>1, <1>2
  <2>2. q[1] = t => e <= q[2]
    BY <1>2
  <2> QED BY <2>1, <2>2 DEF Before
<1>5. \E p \in places : \A q \in places : Before(p[1], p[2], q[1], q[2])
  BY <1>3, <1>4
<1> QED BY <1>5 DEF FirstOf

-----------------------------------------------------------------------------
(***************************************************************************)
(* The steps.                                                              *)
(***************************************************************************)
\* The empty heap.
LEMMA InitHeap == Init => HeapInv
<1> SUFFICES ASSUME Init PROVE HeapInv
  OBVIOUS
<1>1. EmptyTable \in [Entry -> [page : BOOLEAN, free : SUBSET Chunk]]
  BY DEF EmptyTable, NoPage
<1>2. tables \in Tables /\ Len(tables) \in 1..MaxTables
  BY <1>1, WidthAssumption DEF Init, Tables
<1>3. Exact(tables, blocks)
  BY DEF Init, Exact, EmptyTable, NoPage
<1> QED BY <1>2, <1>3 DEF Init, HeapInv, Placed, Apart

\* A step that only stops the machine.
LEMMA ErrorHeap == ASSUME HeapInv, Error("FREE_SIZEMISMATCH") PROVE HeapInv'
BY DEF HeapInv, Error

\* One element of a sequence is changed.
LEMMA ElementChanged ==
    ASSUME NEW S, NEW s \in Seq(S), NEW t \in 1..Len(s), NEW y \in S, NEW n, n = [s EXCEPT ![t] = y]
    PROVE  /\ n \in Seq(S) /\ Len(n) = Len(s) /\ n[t] = y
           /\ \A u \in 1..Len(s) : u # t => n[u] = s[u]
OBVIOUS

\* One entry of one table is changed.
LEMMA EntryChanged ==
    ASSUME NEW ts \in Tables, NEW t \in 1..Len(ts), NEW e \in Entry,
           NEW x, x.page \in BOOLEAN, x.free \subseteq Chunk, x = [page |-> x.page, free |-> x.free]
    PROVE  OneEntry(EntrySet(ts, t, e, x), ts, t, e) /\ EntrySet(ts, t, e, x)[t][e] = x
<1> DEFINE n == EntrySet(ts, t, e, x)
<1>0. x \in [page : BOOLEAN, free : SUBSET Chunk]
  OBVIOUS
<1>1. ts[t] \in [Entry -> [page : BOOLEAN, free : SUBSET Chunk]]
  BY DEF Tables
<1>2. PICK y : y = [ts[t] EXCEPT ![e] = x]
  OBVIOUS
<1>3. /\ y \in [Entry -> [page : BOOLEAN, free : SUBSET Chunk]]
      /\ y[e] = x /\ \A f \in Entry : f # e => y[f] = ts[t][f]
  BY <1>0, <1>1, <1>2
<1>4. n = [ts EXCEPT ![t] = y]
  BY <1>1, <1>2 DEF Tables, EntrySet
<1> HIDE DEF n
<1>5. n \in Tables /\ Len(n) = Len(ts) /\ n[t] = y /\ \A u \in 1..Len(ts) : u # t => n[u] = ts[u]
  BY <1>3, <1>4, ElementChanged DEF Tables
<1>6. n[t][e] = x /\ \A u \in 1..Len(ts), f \in Entry : u # t \/ f # e => n[u][f] = ts[u][f]
  BY <1>3, <1>5
<1> QED BY <1>5, <1>6 DEF OneEntry, n

\* The same for its bitmap alone.
LEMMA BitmapChanged ==
    ASSUME NEW ts \in Tables, NEW t \in 1..Len(ts), NEW e \in Entry, NEW bits, bits \subseteq Chunk
    PROVE  /\ OneEntry(BitmapSet(ts, t, e, bits), ts, t, e)
           /\ BitmapSet(ts, t, e, bits)[t][e].page = ts[t][e].page
           /\ BitmapSet(ts, t, e, bits)[t][e].free = bits
<1>1. ts[t][e] \in [page : BOOLEAN, free : SUBSET Chunk]
  BY DEF Tables
<1>2. PICK x : x = [ts[t][e] EXCEPT !.free = bits]
  OBVIOUS
<1>3. /\ x = [page |-> x.page, free |-> x.free] /\ x.page \in BOOLEAN
      /\ x.page = ts[t][e].page /\ x.free = bits
  BY <1>1, <1>2
<1>4. BitmapSet(ts, t, e, bits) = EntrySet(ts, t, e, x)
  BY <1>2 DEF BitmapSet, EntrySet
<1>5. OneEntry(EntrySet(ts, t, e, x), ts, t, e) /\ EntrySet(ts, t, e, x)[t][e] = x
  BY <1>3, EntryChanged
<1> QED BY <1>3, <1>4, <1>5

\* A new block on a page there is now, on chunks that no block covers.
LEMMA BlockAdded ==
    ASSUME NEW ts \in Tables, NEW n \in Tables, NEW bs \in SUBSET Block, NEW b \in Block,
           Placed(ts, bs), Exact(ts, bs), Apart(bs),
           b.table \in 1..Len(n), b.j - b.size + 1 >= 0, b.size < IntWidth, Len(ts) <= Len(n),
           n[b.table][b.entry].page,
           \A c \in Chunk : c \in n[b.table][b.entry].free <=>
               c \notin Extent(b) /\ ~CoveredBy(bs, b.table, b.entry, c),
           \A c \in Extent(b) : ~CoveredBy(bs, b.table, b.entry, c),
           \A t \in 1..Len(ts), e \in Entry : t # b.table \/ e # b.entry => n[t][e] = ts[t][e],
           \A t \in Len(ts)+1..Len(n), e \in Entry : t # b.table \/ e # b.entry => ~n[t][e].page
    PROVE  Placed(n, bs \cup {b}) /\ Exact(n, bs \cup {b}) /\ Apart(bs \cup {b})
<1>1. Placed(n, bs \cup {b})
  <2> SUFFICES ASSUME NEW a \in bs
               PROVE  /\ a.table \in 1..Len(n) /\ n[a.table][a.entry].page
                      /\ a.j - a.size + 1 >= 0 /\ a.size < IntWidth
    BY DEF Placed
  <2>1. /\ a.table \in 1..Len(ts) /\ ts[a.table][a.entry].page
        /\ a.j - a.size + 1 >= 0 /\ a.size < IntWidth
    BY DEF Placed
  <2>2. a.entry \in Entry /\ Len(ts) \in Nat /\ Len(n) \in Nat
    BY DEF Block, Tables
  <2>3. a.table \in 1..Len(n) /\ a.table <= Len(ts)
    BY <2>1, <2>2
  <2> QED BY <2>1, <2>2, <2>3
<1>2. Exact(n, bs \cup {b})
  <2> SUFFICES ASSUME NEW t \in 1..Len(n), NEW e \in Entry, n[t][e].page, NEW c \in Chunk
               PROVE  c \in n[t][e].free <=> ~CoveredBy(bs \cup {b}, t, e, c)
    BY DEF Exact
  <2>1. CASE t = b.table /\ e = b.entry
    BY <2>1 DEF CoveredBy
  <2>2. CASE ~(t = b.table /\ e = b.entry)
    <3>1. t \in 1..Len(ts) /\ n[t][e] = ts[t][e]
      BY <2>2 DEF Tables
    <3>2. CoveredBy(bs \cup {b}, t, e, c) <=> CoveredBy(bs, t, e, c)
      BY <2>2 DEF CoveredBy
    <3> QED BY <3>1, <3>2 DEF Exact
  <2> QED BY <2>1, <2>2
<1>3. Apart(bs \cup {b})
  BY DEF Apart, CoveredBy
<1> QED BY <1>1, <1>2, <1>3

\* A block is taken away, and its chunks become free.
LEMMA BlockRemoved ==
    ASSUME NEW ts \in Tables, NEW n \in Tables, NEW bs \in SUBSET Block, NEW b \in bs,
           Placed(ts, bs), Exact(ts, bs), Apart(bs), Len(n) = Len(ts),
           n[b.table][b.entry].page = ts[b.table][b.entry].page,
           n[b.table][b.entry].free = ts[b.table][b.entry].free \cup Extent(b),
           \A t \in 1..Len(ts), e \in Entry : t # b.table \/ e # b.entry => n[t][e] = ts[t][e]
    PROVE  Placed(n, bs \ {b}) /\ Exact(n, bs \ {b}) /\ Apart(bs \ {b})
<1>1. \A t \in 1..Len(ts), e \in Entry : n[t][e].page = ts[t][e].page
  OBVIOUS
<1>2. Placed(n, bs \ {b})
  BY <1>1 DEF Placed, Block
<1>3. Exact(n, bs \ {b})
  <2> SUFFICES ASSUME NEW t \in 1..Len(ts), NEW e \in Entry, ts[t][e].page, NEW c \in Chunk
               PROVE  c \in n[t][e].free <=> ~CoveredBy(bs \ {b}, t, e, c)
    BY <1>1 DEF Exact
  <2>1. c \in ts[t][e].free <=> ~CoveredBy(bs, t, e, c)
    BY DEF Exact
  <2>2. CASE t = b.table /\ e = b.entry
    <3>1. c \in n[t][e].free <=> c \in ts[t][e].free \/ c \in Extent(b)
      BY <2>2
    <3>2. c \in Extent(b) => ~CoveredBy(bs \ {b}, t, e, c)
      BY <2>2 DEF Apart, CoveredBy
    <3>3. CoveredBy(bs, t, e, c) <=> CoveredBy(bs \ {b}, t, e, c) \/ c \in Extent(b)
      BY <2>2 DEF CoveredBy
    <3> QED BY <2>1, <3>1, <3>2, <3>3
  <2>3. CASE ~(t = b.table /\ e = b.entry)
    <3>1. CoveredBy(bs, t, e, c) <=> CoveredBy(bs \ {b}, t, e, c)
      BY <2>3 DEF CoveredBy
    <3> QED BY <2>1, <2>3, <3>1
  <2> QED BY <2>2, <2>3
<1>4. Apart(bs \ {b})
  BY DEF Apart
<1> QED BY <1>2, <1>3, <1>4

\* Where malloc looks, there are tables.
LEMMA ScannedTables == ASSUME HeapInv PROVE Scanned \subseteq 1..Len(tables)
BY DEF HeapInv, Tables, Scanned

\* malloc on a page it has: the bits it clears are those of the block.
LEMMA RunHeap ==
    ASSUME HeapInv, SmallRequests, NEW r \in Requests, MallocRun(r)
    PROVE  HeapInv'
<1> DEFINE size == r + 1
           p    == FirstOf(Usable(size))
           free == tables[p[1]][p[2]].free
           j    == FirstRun(free, size)
           mask == Shifted(SizeMask(size), j - size + 1)
           b    == [table |-> p[1], entry |-> p[2], j |-> j, size |-> size]
<1>1. size \in 2..(Width - 1) /\ size < IntWidth
  BY WidthAssumption DEF SmallRequests
<1>2. p \in Usable(size)
  <2>1. Usable(size) \subseteq Nat \X Nat
    BY ScannedTables DEF Usable, Entry
  <2> QED BY <2>1, FirstOfPlaces DEF MallocRun
<1>3. /\ p[1] \in 1..Len(tables) /\ p[2] \in Entry
      /\ tables[p[1]][p[2]].page /\ HasRun(free, size)
  BY <1>2, ScannedTables DEF Usable
<1>4. \/ Error("FREE_SIZEMISMATCH")
      \/ /\ mask \subseteq free
         /\ tables' = [tables EXCEPT ![p[1]][p[2]].free = (@ \ mask) \cup (mask \ @)]
         /\ blocks' = blocks \cup {b}
         /\ UNCHANGED fault
  BY DEF MallocRun, Taken
<1> HIDE DEF size, p
<1>5. j \in Chunk /\ j - size + 1 >= 0
  BY <1>1, <1>3, FirstRunMatched, WidthAssumption
<1> HIDE DEF j
<1>6. mask = (j - size + 1)..j
  BY <1>1, <1>5, MaskIsExtent, WidthAssumption
<1>7. /\ b.table = p[1] /\ b.entry = p[2] /\ b.j = j /\ b.size = size /\ Extent(b) = mask
      /\ b \in Block
  BY <1>1, <1>3, <1>5, <1>6, WidthAssumption DEF Block, Extent, HeapInv
<1> HIDE DEF mask, b
<1>8. ASSUME mask \subseteq free,
             tables' = [tables EXCEPT ![p[1]][p[2]].free = (@ \ mask) \cup (mask \ @)],
             blocks' = blocks \cup {b}, UNCHANGED fault
      PROVE  HeapInv'
  <2>1. tables \in Tables /\ free \in SUBSET Chunk
    BY <1>3 DEF HeapInv, Tables
  <2>2. tables' = BitmapSet(tables, p[1], p[2], free \ mask)
    <3>1. (free \ mask) \cup (mask \ free) = free \ mask
      BY <1>8
    <3> QED BY <1>8, <3>1 DEF BitmapSet
  <2> HIDE DEF free
  <2>3. /\ tables' \in Tables /\ Len(tables') = Len(tables)
        /\ tables'[p[1]][p[2]].page = tables[p[1]][p[2]].page
        /\ tables'[p[1]][p[2]].free = free \ mask
        /\ \A u \in 1..Len(tables), f \in Entry : u # p[1] \/ f # p[2] => tables'[u][f] = tables[u][f]
    <3>1. PICK left : left = free \ mask
      OBVIOUS
    <3>2. left \subseteq Chunk /\ tables' = BitmapSet(tables, p[1], p[2], left)
      BY <2>1, <2>2, <3>1
    <3>3. /\ OneEntry(tables', tables, p[1], p[2])
          /\ tables'[p[1]][p[2]].page = tables[p[1]][p[2]].page
          /\ tables'[p[1]][p[2]].free = left
      BY <1>3, <2>1, <3>2, BitmapChanged
    <3> QED BY <3>1, <3>3 DEF OneEntry
  <2>4. \A c \in Chunk : c \in free <=> ~CoveredBy(blocks, p[1], p[2], c)
    BY <1>3 DEF HeapInv, Exact, free
  <2>5. tables'[b.table][b.entry].page /\ tables'[b.table][b.entry].free = free \ mask
    BY <1>3, <1>7, <2>3
  <2>6. \A c \in Extent(b) : ~CoveredBy(blocks, b.table, b.entry, c)
    BY <1>7, <1>8, <2>1, <2>4
  <2>7. \A c \in Chunk : c \in tables'[b.table][b.entry].free <=>
            c \notin Extent(b) /\ ~CoveredBy(blocks, b.table, b.entry, c)
    BY <1>7, <2>4, <2>5
  <2>8. /\ \A t \in 1..Len(tables), e \in Entry : t # b.table \/ e # b.entry => tables'[t][e] = tables[t][e]
        /\ \A t \in Len(tables)+1..Len(tables'), e \in Entry :
              t # b.table \/ e # b.entry => ~tables'[t][e].page
        /\ Len(tables) <= Len(tables')
    BY <1>7, <2>1, <2>3 DEF Tables
  <2>9. Placed(tables', blocks') /\ Exact(tables', blocks') /\ Apart(blocks')
    <3>1. /\ blocks \in SUBSET Block /\ b.table \in 1..Len(tables')
          /\ b.j - b.size + 1 >= 0 /\ b.size < IntWidth
      BY <1>1, <1>3, <1>5, <1>7, <2>3 DEF HeapInv
    <3>2. Placed(tables, blocks) /\ Exact(tables, blocks) /\ Apart(blocks)
      BY DEF HeapInv
    <3>3. b \in Block /\ tables \in Tables /\ tables' \in Tables /\ tables'[b.table][b.entry].page
      BY <1>7, <2>1, <2>3, <2>5
    <3>4. Placed(tables', blocks \cup {b}) /\ Exact(tables', blocks \cup {b}) /\ Apart(blocks \cup {b})
      BY <2>6, <2>7, <2>8, <3>1, <3>2, <3>3, BlockAdded
    <3> QED BY <1>8, <3>4
  <2> QED BY <1>7, <1>8, <2>3, <2>9 DEF HeapInv
<1> QED BY <1>4, <1>8, ErrorHeap

\* malloc with a new page: the entry had none, so no block lies there.
LEMMA PageHeap ==
    ASSUME HeapInv, SmallRequests, NEW r \in Requests, MallocPage(r)
    PROVE  HeapInv'
<1> DEFINE size == r + 1
           fresh == [page |-> TRUE, free |-> NewBitmap(size)]
           block(t, e) == [table |-> t, entry |-> e, j |-> size - 1, size |-> size]
<1>1. size \in 2..(Width - 1) /\ size < IntWidth
  BY WidthAssumption DEF SmallRequests
<1>2. tables \in Tables /\ Len(tables) \in Nat
  BY DEF HeapInv, Tables
<1>3. NewBitmap(size) = Chunk \ 0..(size - 1)
  <2> HIDE DEF size
  <2> QED BY <1>1, SmallMask DEF NewBitmap
<1>4. /\ fresh \in [page : BOOLEAN, free : SUBSET Chunk]
      /\ fresh = [page |-> fresh.page, free |-> fresh.free]
      /\ fresh.page \in BOOLEAN /\ fresh.free \subseteq Chunk
      /\ fresh.page /\ fresh.free = Chunk \ 0..(size - 1)
  BY <1>3
<1>5. ASSUME NEW t \in 1..MaxTables, NEW e \in Entry
      PROVE  /\ block(t, e) \in Block /\ Extent(block(t, e)) = 0..(size - 1)
             /\ block(t, e).table = t /\ block(t, e).entry = e
             /\ block(t, e).j - block(t, e).size + 1 >= 0 /\ block(t, e).size < IntWidth
  <2>1. size - 1 \in Chunk /\ size \in 2..Width
    BY <1>1, WidthAssumption DEF Chunk
  <2>2. block(t, e) \in Block
    BY <2>1 DEF Block
  <2>3. (size - 1) - size + 1 = 0
    BY <1>1
  <2>4. Extent(block(t, e)) = 0..(size - 1)
    BY <2>3 DEF Extent
  <2> QED BY <1>1, <2>2, <2>3, <2>4
<1>6. UNCHANGED fault
  BY DEF MallocPage
<1>7. \/ \E p \in Unallocated : /\ p = FirstOf(Unallocated)
                                /\ tables' = [tables EXCEPT ![p[1]][p[2]] = fresh]
                                /\ blocks' = blocks \cup {block(p[1], p[2])}
      \/ /\ Len(tables) < MaxTables
         /\ tables' = Append(tables, [EmptyTable EXCEPT ![0] = fresh])
         /\ blocks' = blocks \cup {block(Len(tables) + 1, 0)}
  <2>1. Unallocated # {} => FirstOf(Unallocated) \in Unallocated
    <3>1. Unallocated \subseteq Nat \X Nat
      BY ScannedTables DEF Unallocated, Entry
    <3> QED BY <3>1, FirstOfPlaces
  <2> QED BY <2>1 DEF MallocPage
<1> HIDE DEF size, fresh, block
\* What the two cases have in common.
<1>8. ASSUME NEW t \in 1..MaxTables, NEW e \in Entry,
             tables' \in Tables, Len(tables') \in 1..MaxTables, t \in 1..Len(tables'),
             Len(tables) <= Len(tables'), tables'[t][e] = fresh,
             \A c : ~CoveredBy(blocks, t, e, c),
             \A u \in 1..Len(tables), f \in Entry : u # t \/ f # e => tables'[u][f] = tables[u][f],
             \A u \in Len(tables)+1..Len(tables'), f \in Entry : u # t \/ f # e => ~tables'[u][f].page,
             blocks' = blocks \cup {block(t, e)}
      PROVE  HeapInv'
  <2> DEFINE b == block(t, e)
  <2>1. /\ b \in Block /\ Extent(b) = 0..(size - 1) /\ b.table = t /\ b.entry = e
        /\ b.j - b.size + 1 >= 0 /\ b.size < IntWidth
    BY <1>5
  <2> HIDE DEF b
  <2>2. /\ blocks \in SUBSET Block
        /\ Placed(tables, blocks) /\ Exact(tables, blocks) /\ Apart(blocks)
    BY DEF HeapInv
  <2>3. tables'[b.table][b.entry].page
    BY <1>4, <1>8, <2>1
  <2>4. \A c \in Chunk : c \in tables'[b.table][b.entry].free <=>
            c \notin Extent(b) /\ ~CoveredBy(blocks, b.table, b.entry, c)
    BY <1>4, <1>8, <2>1
  <2>5. \A c \in Extent(b) : ~CoveredBy(blocks, b.table, b.entry, c)
    BY <1>8, <2>1
  <2>6. Placed(tables', blocks \cup {b}) /\ Exact(tables', blocks \cup {b}) /\ Apart(blocks \cup {b})
    <3>1. /\ b.table \in 1..Len(tables') /\ tables' \in Tables /\ Len(tables) <= Len(tables')
          /\ \A u \in 1..Len(tables), f \in Entry :
                u # b.table \/ f # b.entry => tables'[u][f] = tables[u][f]
          /\ \A u \in Len(tables)+1..Len(tables'), f \in Entry :
                u # b.table \/ f # b.entry => ~tables'[u][f].page
      BY <1>8, <2>1
    <3> QED BY <1>2, <2>1, <2>2, <2>3, <2>4, <2>5, <3>1, BlockAdded
  <2>7. blocks' = blocks \cup {b}
    BY <1>8 DEF b
  <2> QED BY <1>6, <1>8, <2>1, <2>2, <2>6, <2>7 DEF HeapInv
<1>9. ASSUME NEW p \in Unallocated,
             tables' = [tables EXCEPT ![p[1]][p[2]] = fresh],
             blocks' = blocks \cup {block(p[1], p[2])}
      PROVE  HeapInv'
  <2>1. p[1] \in 1..Len(tables) /\ p[2] \in Entry /\ ~tables[p[1]][p[2]].page
    BY ScannedTables DEF Unallocated
  <2>2. tables' = EntrySet(tables, p[1], p[2], fresh)
    BY <1>9 DEF EntrySet
  <2>3. /\ tables' \in Tables /\ Len(tables') = Len(tables) /\ tables'[p[1]][p[2]] = fresh
        /\ \A u \in 1..Len(tables), f \in Entry : u # p[1] \/ f # p[2] => tables'[u][f] = tables[u][f]
    <3>1. OneEntry(tables', tables, p[1], p[2]) /\ tables'[p[1]][p[2]] = fresh
      BY <1>2, <1>4, <2>1, <2>2, EntryChanged
    <3> QED BY <3>1 DEF OneEntry
  <2>4. \A c : ~CoveredBy(blocks, p[1], p[2], c)
    BY <2>1 DEF HeapInv, Placed, CoveredBy
  <2>5. p[1] \in 1..MaxTables /\ Len(tables') \in 1..MaxTables
    BY <2>1, <2>3, WidthAssumption DEF HeapInv
  <2>6. \A u \in Len(tables)+1..Len(tables'), f \in Entry : ~tables'[u][f].page
    BY <1>2, <2>3
  <2> QED BY <1>2, <1>8, <1>9, <2>1, <2>3, <2>4, <2>5, <2>6
<1>10. ASSUME Len(tables) < MaxTables,
              tables' = Append(tables, [EmptyTable EXCEPT ![0] = fresh]),
              blocks' = blocks \cup {block(Len(tables) + 1, 0)}
       PROVE  HeapInv'
  <2> DEFINE t == Len(tables) + 1
  <2>1. 0 \in Entry /\ t \in 1..MaxTables
    BY <1>2, <1>10, WidthAssumption DEF Entry
  <2>2. PICK new : new = [EmptyTable EXCEPT ![0] = fresh]
    OBVIOUS
  <2>3. /\ new \in [Entry -> [page : BOOLEAN, free : SUBSET Chunk]] /\ new[0] = fresh
        /\ \A f \in Entry : f # 0 => ~new[f].page
    BY <1>4, <2>1, <2>2 DEF EmptyTable, NoPage
  <2>4. /\ tables' \in Tables /\ Len(tables') = t /\ tables'[t] = new
        /\ \A u \in 1..Len(tables) : tables'[u] = tables[u]
    BY <1>2, <1>10, <2>2, <2>3 DEF Tables
  <2>5. \A c : ~CoveredBy(blocks, t, 0, c)
    BY <1>2 DEF HeapInv, Placed, CoveredBy
  <2>6. \A u \in Len(tables)+1..Len(tables'), f \in Entry : u # t \/ f # 0 => ~tables'[u][f].page
    <3>1. \A u \in Len(tables)+1..Len(tables') : u = t
      BY <1>2, <2>4
    <3> QED BY <2>3, <2>4, <3>1
  <2>7. tables'[t][0] = fresh /\ t \in 1..Len(tables') /\ Len(tables) <= Len(tables')
    BY <1>2, <2>3, <2>4
  <2> QED BY <1>8, <1>10, <2>1, <2>4, <2>5, <2>6, <2>7
<1> QED BY <1>7, <1>9, <1>10

\* free: the bits of the header are those of the block, and all of them are clear.
LEMMA FreeHeap ==
    ASSUME HeapInv, NEW b \in blocks, Free(b)
    PROVE  HeapInv'
<1> DEFINE bits == tables[b.table][b.entry].free
<1>1. /\ tables \in Tables /\ blocks \in SUBSET Block /\ b \in Block
      /\ Placed(tables, blocks) /\ Exact(tables, blocks) /\ Apart(blocks)
  BY DEF HeapInv
<1>2. /\ b.table \in 1..Len(tables) /\ b.entry \in Entry /\ tables[b.table][b.entry].page
      /\ b.j \in Chunk /\ b.size \in 1..Width /\ b.j - b.size + 1 >= 0 /\ b.size < IntWidth
  BY <1>1, WidthAssumption DEF Placed, Block
<1>3. FreedMask(b) = Extent(b)
  BY <1>2, MaskIsExtent DEF FreedMask, Extent
<1>4. Extent(b) \subseteq Chunk /\ bits \in SUBSET Chunk
  BY <1>1, <1>2, WidthAssumption DEF Extent, Chunk, Tables
<1>5. bits \cap Extent(b) = {}
  BY <1>1, <1>2, <1>4 DEF Exact, CoveredBy
<1>6. /\ tables' = BitmapSet(tables, b.table, b.entry, bits \cup Extent(b))
      /\ blocks' = blocks \ {b} /\ UNCHANGED fault
  BY <1>3, <1>5 DEF Free, BitmapSet
<1>7. bits \cup Extent(b) \subseteq Chunk
  BY <1>4
<1> HIDE DEF bits
<1>8. /\ tables' \in Tables /\ Len(tables') = Len(tables)
      /\ tables'[b.table][b.entry].page = tables[b.table][b.entry].page
      /\ tables'[b.table][b.entry].free = bits \cup Extent(b)
      /\ \A t \in 1..Len(tables), e \in Entry :
            t # b.table \/ e # b.entry => tables'[t][e] = tables[t][e]
  <2>1. PICK all : all = bits \cup Extent(b)
    OBVIOUS
  <2>2. all \subseteq Chunk /\ tables' = BitmapSet(tables, b.table, b.entry, all)
    BY <1>6, <1>7, <2>1
  <2>3. /\ OneEntry(tables', tables, b.table, b.entry)
        /\ tables'[b.table][b.entry].page = tables[b.table][b.entry].page
        /\ tables'[b.table][b.entry].free = all
    BY <1>1, <1>2, <2>2, BitmapChanged
  <2> QED BY <2>1, <2>3 DEF OneEntry
<1>9. Placed(tables', blocks \ {b}) /\ Exact(tables', blocks \ {b}) /\ Apart(blocks \ {b})
  BY <1>1, <1>8, BlockRemoved DEF bits
<1> QED BY <1>1, <1>6, <1>8, <1>9 DEF HeapInv

-----------------------------------------------------------------------------
(***************************************************************************)
(* The theorems.                                                           *)
(***************************************************************************)
\* Every step of a heap whose masks fit an int keeps it.
LEMMA NextHeap == ASSUME HeapInv, SmallRequests, [Next]_vars PROVE HeapInv'
<1>1. CASE UNCHANGED vars
  BY <1>1 DEF vars, HeapInv
<1>2. CASE Next
  BY <1>2, <1>1, RunHeap, PageHeap, FreeHeap DEF Next, Halted
<1> QED BY <1>1, <1>2

\* The heap is well formed in every state.
LEMMA HeapAlways == ASSUME SmallRequests PROVE Spec => []HeapInv
<1>1. HeapInv /\ [Next]_vars => HeapInv'
  BY NextHeap
<1> QED BY InitHeap, <1>1, PTL DEF Spec

\* As long as every mask fits an int, malloc never gives two callers the same memory,
\* although its search may take a bit of the lower half of a bitmap for one of the upper.
THEOREM NoOverlapCorrect == ASSUME SmallRequests PROVE Spec => []NoOverlap
<1>1. HeapInv => NoOverlap
  BY DEF HeapInv, Apart, NoOverlap
<1> QED BY HeapAlways, <1>1, PTL

\* free takes back whatever malloc has returned, after any sequence of calls.
THEOREM FreeAcceptedCorrect == ASSUME SmallRequests PROVE Spec => []FreeAccepted
<1>1. HeapInv => FreeAccepted
  BY DEF HeapInv, FreeAccepted
<1> QED BY HeapAlways, <1>1, PTL

\* The bitmap of a page shows exactly the chunks that no block covers.
THEOREM BitmapExactCorrect == ASSUME SmallRequests PROVE Spec => []BitmapExact
<1>1. HeapInv => TypeOK
  BY DEF HeapInv, TypeOK, Tables
<1>2. ASSUME HeapInv, NEW t \in 1..Len(tables), NEW e \in Entry, tables[t][e].page
      PROVE  tables[t][e].free = Chunk \ UNION {Extent(b) : b \in {c \in blocks : c.table = t /\ c.entry = e}}
  <2>1. tables[t][e].free \subseteq Chunk
    BY <1>2 DEF HeapInv, Tables
  <2>2. \A c \in Chunk : c \in tables[t][e].free <=> ~CoveredBy(blocks, t, e, c)
    BY <1>2 DEF HeapInv, Exact
  <2>3. \A c : c \in UNION {Extent(b) : b \in {d \in blocks : d.table = t /\ d.entry = e}}
                  <=> CoveredBy(blocks, t, e, c)
    BY DEF CoveredBy
  <2> QED BY <2>1, <2>2, <2>3
<1>3. HeapInv => BitmapExact
  BY <1>1, <1>2 DEF BitmapExact
<1> QED BY HeapAlways, <1>3, PTL

===============================================================================
