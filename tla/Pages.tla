--------------------------------- MODULE Pages ---------------------------------
(***************************************************************************)
(* The pages of page.c and pf.c: the bitmap of physical pages, the page    *)
(* tables of the kernel's half and of the user half, the pool KPALLOC      *)
(* hands single pages out of, and the exchange of the user half in         *)
(* switch_to_task.                                                         *)
(*                                                                         *)
(* The four levels of tables are one here: a table of the kernel's half    *)
(* maps PerTable pages, the user half of a task is one table.  As in       *)
(* malloc.c, masks come from an int that is half as wide as the words of   *)
(* the bitmap.  One call is one step, that of a single task; the second    *)
(* level of the bitmap (more than 32704 pages) is left out.                *)
(***************************************************************************)
EXTENDS Integers, FiniteSets

CONSTANTS
    Tasks,
    Boot,        \* the task that runs first
    Nothing,     \* an empty slot of the pool, a task without pages
    IntWidth,    \* the bits of an int: 32; a word of the bitmap has twice as many
    Words,       \* the words of the bitmap that describe memory
    BootWords,   \* the words of the bitmap P_ALLOC3_SETUP fills: 8
    BootPool,    \* the pages P_ALLOC3_SETUP puts in the pool, by their slots: 500..503
    LastSlot,    \* 511
    Low,         \* the slots that are filled again: 64
    Threshold,   \* the slot from which on KPALLOC fills them: 32
    PerTable,    \* the entries of a table: 512
    UserPages,   \* the pages a program may use
    Runs,        \* the lengths of the runs asked for: KP_ALLOC4 leaves one page to KPALLOC
    MaxCalls     \* bound: the calls of KPALLOC and KPALLOCS

Width == 2 * IntWidth
Phys == 0..(Words * Width - 1)
BootPages == 0..(BootWords * Width - 1)
Slot == 0..LastSlot

\* The first table maps the boot pages and is full.  The boot leaves a page in the pool
\* for KPALLOC to take and one for a table; a refill needs one table at most.
ASSUME PagesAssumption ==
    /\ Boot \in Tasks /\ Nothing \notin Nat
    /\ {IntWidth, Words, BootWords, Low, PerTable} \subseteq Nat \ {0}
    /\ BootWords <= Words /\ PerTable = BootWords * Width
    /\ Threshold \in 1..(Low - 2) /\ Low <= PerTable /\ LastSlot \in Nat
    /\ DOMAIN BootPool \subseteq Low..(LastSlot - 1)
    /\ \E s, u \in DOMAIN BootPool : s # u
    /\ \A s, u \in DOMAIN BootPool : BootPool[s] \in BootPages /\ (BootPool[s] = BootPool[u] => s = u)
    /\ UserPages \subseteq Nat /\ \A p, q \in UserPages : p..q \subseteq UserPages
    /\ Runs \subseteq Nat \ {0, 1} /\ MaxCalls \in Nat

VARIABLES
    marked,      \* the bitmap at PL_MAP_START: the set bits
    pool,        \* the array at MBASE+0x16000: slot -> page of the kernel's half
    kpt,         \* the present entries of the kernel's half: page -> physical page
    ktables,     \* the pages that hold further tables of the kernel's half
    fault,       \* the ERROR() that stopped the machine
    held,        \* the runs of pages the kernel's callers hold: [at, len]
    calls,       \* the calls made
    current,     \* the running task
    cr3,         \* task -> the page its user half is kept in
    dead,        \* the tasks on DEAD_TASKS
    live,        \* entry 0 of the PML4: the user half in force
    saved,       \* task -> word 0 of its cr3 page
    brk,         \* task -> the range PAGE_FAULT serves
    tlb,         \* the entries of the user half the processor has cached
    faulted      \* task -> what PAGE_FAULT has mapped for it

mem == <<marked, pool, kpt, ktables, fault>>
tasks == <<current, cr3, dead, live, saved, brk, faulted>>
vars == <<mem, held, calls, tasks, tlb>>

Empty == [p \in {} |-> 0]
NoHalf == [table |-> Nothing, pt |-> Empty]

Alive == fault = "none"

\* The lowest of a set of numbers.
Lowest(S) == CHOOSE x \in S : \A y \in S : x <= y

\* A function with one more entry; and with one less.
With(f, x, y) == [z \in DOMAIN f \cup {x} |-> IF z = x THEN y ELSE f[z]]
Without(f, x) == [z \in DOMAIN f \ {x} |-> f[z]]

-----------------------------------------------------------------------------
\* The bitmap

Word(i) == {w * Width + b : w \in {i \div Width}, b \in 0..(Width - 1)}

\* 1 << (index&63) with an int 1: the count is taken modulo the width of an int, and
\* the sign bit extends over the upper half of the word.
IntBits(i) ==
    LET first == ((i \div Width) * Width) + (i % IntWidth)
    IN  IF i % IntWidth = IntWidth - 1 THEN {p \in Word(i) : p >= first} ELSE {first}

PL_SV(m, i, val) ==
    [m EXCEPT !.marked = IF val = 1 THEN @ \cup IntBits(i) ELSE @ \ IntBits(i)]

\* The first page that the second level of the bitmap would describe.
Beyond == Words * Width

PL_FN(m) == Lowest((Phys \cup {Beyond}) \ m.marked)

\* PL_FN looks for that page with the masks, too, and compares.
PL_FN_Agrees(m, ad) ==
    LET tried == {i \in Word(ad) : i % Width < IntWidth /\ IntBits(i) \cap m.marked = {}}
    IN  tried # {} /\ Lowest(tried) = ad

\* PL_FN and PL_SV, as every allocation begins.
Marked(m, ad) ==
    CASE ad = Beyond -> [m EXCEPT !.fault = "second level"]
      [] ad # Beyond /\ PL_FN_Agrees(m, ad) -> PL_SV(m, ad, 1)
      [] OTHER -> [m EXCEPT !.fault = "PL_FN_MISMATCH"]

\* Bound: a call that needs the second level of the bitmap is not made.
OneLevel(m) == m.fault # "second level"

-----------------------------------------------------------------------------
\* The kernel's half

Enter(m, page, ad) == [m EXCEPT !.kpt = With(@, page, ad)]

\* The pages of the kernel's half that its tables describe, and those that are free.
Described(m) == 0..((1 + Cardinality(m.ktables)) * PerTable - 1)
FreeEntries(m) == Described(m) \ DOMAIN m.kpt

FullSlots(m) == {s \in Slot : m.pool[s] # Nothing}

TakeFrom(m, slot) == [page |-> m.pool[slot], slot |-> slot, mem |-> [m EXCEPT !.pool[slot] = Nothing]]

\* The lowest slot that is not empty: what KPALLOC takes.
Take(m) ==
    IF FullSlots(m) = {} THEN [page |-> 0, slot |-> 0, mem |-> [m EXCEPT !.fault = "KPALLOC_NOFREE"]]
    ELSE TakeFrom(m, Lowest(FullSlots(m)))

\* The table is a page of the pool, which is not filled again meanwhile (PA_CALLING).
NewTable(table, page, ad) ==
    [page |-> page,
     mem  |-> [Enter(table.mem, page, ad) EXCEPT !.ktables = @ \cup {table.page}]]

\* The first entry that is free, in a new table if there is none.
FirstEntry(m, ad) ==
    IF FreeEntries(m) # {}
    THEN [page |-> Lowest(FreeEntries(m)), mem |-> Enter(m, Lowest(FreeEntries(m)), ad)]
    ELSE NewTable(Take(m), (1 + Cardinality(m.ktables)) * PerTable, ad)

KP_ALLOC3(m) == FirstEntry(Marked(m, PL_FN(m)), PL_FN(m))

Into(new, s) == [new.mem EXCEPT !.pool[s] = new.page]
Filled(m, s) == IF m.pool[s] # Nothing \/ m.fault # "none" THEN m ELSE Into(KP_ALLOC3(m), s)

\* The slots below Low that are empty, in turn, up to the first ERROR.
Refilled(m) ==
    LET upto[s \in 0..Low] == IF s = 0 THEN m ELSE Filled(upto[s - 1], s - 1)
    IN  upto[Low]

\* Mutant: KPALLOC fills its slots again once all of them are empty.
RefillsLate(taken) == taken.slot >= Low /\ taken.mem.fault = "none"

Refills(taken) == taken.slot >= Threshold /\ taken.mem.fault = "none"

Given(taken) ==
    [page |-> taken.page, refill |-> Refills(taken),
     mem  |-> IF Refills(taken) THEN Refilled(taken.mem) ELSE taken.mem]

KPALLOC(m) == Given(Take(m))

\* The first run of free entries in the tables there are.
Fits(m, len) == {at \in Described(m) : at..(at + len - 1) \subseteq FreeEntries(m)}

\* ALSP for a page whose table exists, and for each page of a run.
ALSP(m, p) == Enter(Marked(m, PL_FN(m)), p, PL_FN(m))

Entered(m, at, len) ==
    LET upto[n \in 0..len] == IF n = 0 THEN m ELSE ALSP(upto[n - 1], at + n - 1)
    IN  upto[len]

\* Without a run in the tables there are, KP_ALLOC4 searches on through addresses that
\* no table describes.
KP_ALLOC4(m, len) ==
    IF Fits(m, len) = {} THEN [page |-> 0, mem |-> [m EXCEPT !.fault = "search without an end"]]
    ELSE [page |-> Lowest(Fits(m, len)), mem |-> Entered(m, Lowest(Fits(m, len)), len)]

\* P_FREES: what the entries map is clear in the bitmap again.
P_FREE(m, p) == [PL_SV(m, m.kpt[p], 0) EXCEPT !.kpt = Without(@, p)]

P_FREES(m, run) ==
    LET upto[n \in 0..run.len] == IF n = 0 THEN m ELSE P_FREE(upto[n - 1], run.at + n - 1)
    IN  upto[run.len]

-----------------------------------------------------------------------------
\* The user half

\* ALSP: the entry, which must not be present, in the table the half has or is given.
Mapped(half, page, ad, after, table) ==
    [mem  |-> IF page \in DOMAIN half.pt THEN [after EXCEPT !.fault = "PT_EXISTS_ALREADY"] ELSE after,
     half |-> [table |-> table, pt |-> With(half.pt, page, ad)]]

\* Mutant: ALSP marks its page after it has asked the pool for a table.
UP_ALLOC4MarksLate(m, half, page) ==
    LET InTable(got) == Mapped(half, page, PL_FN(m), PL_SV(got.mem, PL_FN(m), 1), got.page)
    IN  InTable(IF half.table = Nothing THEN KPALLOC(m) ELSE [page |-> half.table, mem |-> m])

\* UP_ALLOC4 for one page: ALSP marks a page, and takes one from the pool for a table
\* if the half has none.
UP_ALLOC4(m, half, page) ==
    LET InTable(got) == Mapped(half, page, PL_FN(m), got.mem, got.page)
        Table(r) == IF half.table = Nothing THEN KPALLOC(r) ELSE [page |-> half.table, mem |-> r]
    IN  InTable(Table(Marked(m, PL_FN(m))))

-----------------------------------------------------------------------------

Mem == [marked |-> marked, pool |-> pool, kpt |-> kpt, ktables |-> ktables, fault |-> fault]

Becomes(m) ==
    /\ marked' = m.marked /\ pool' = m.pool /\ kpt' = m.kpt
    /\ ktables' = m.ktables /\ fault' = m.fault

\* The pages the boot's first code uses, and those it puts in the pool.
BootMem ==
    [marked |-> UNION {IntBits(i) : i \in BootPages},
     pool |-> [s \in Slot |-> IF s \in DOMAIN BootPool THEN BootPool[s] ELSE Nothing],
     kpt |-> [p \in BootPages |-> p], ktables |-> {}, fault |-> "none"]

\* P_ALLOC3_SETUP: its call of KPALLOC fills the pool for the first time.
P_ALLOC3_SETUP == Into(KPALLOC(BootMem), LastSlot)

\* Bound: the memory is more than the boot needs.
ASSUME BootFits == OneLevel(KPALLOC(P_ALLOC3_SETUP).mem)

\* The first task has the page initialize_multitasking takes.
StartWith(m, page) ==
    /\ marked = m.marked /\ pool = m.pool /\ kpt = m.kpt /\ ktables = m.ktables /\ fault = m.fault
    /\ cr3 = [t \in Tasks |-> IF t = Boot THEN page ELSE Nothing]

Init ==
    /\ LET first == KPALLOC(P_ALLOC3_SETUP) IN StartWith(first.mem, first.page)
    /\ held = {} /\ calls = 0 /\ current = Boot /\ dead = {}
    /\ live = NoHalf /\ saved = [t \in Tasks |-> NoHalf]
    /\ brk = [t \in Tasks |-> {}] /\ tlb = Empty
    /\ faulted = [t \in Tasks |-> Empty]

\* Looking into a table sends its address to a window and flushes the TLB.
FLUSH_TLB == tlb' = Empty

\* Bound: one call more.
Called == calls < MaxCalls /\ calls' = calls + 1

\* KPALLOC for a caller in the kernel: it looks into tables only when it refills.
Alloc ==
    /\ Called
    /\ LET got == KPALLOC(Mem)
       IN  /\ OneLevel(got.mem) /\ Becomes(got.mem)
           /\ held' = held \cup {[at |-> got.page, len |-> 1]}
           /\ IF got.refill THEN FLUSH_TLB ELSE tlb' = tlb
    /\ UNCHANGED tasks

\* KPALLOCS.
AllocRun ==
    \E len \in Runs :
        /\ Called
        /\ LET got == KP_ALLOC4(Mem, len)
           IN  /\ OneLevel(got.mem) /\ Becomes(got.mem)
               /\ held' = IF got.mem.fault = "none" THEN held \cup {[at |-> got.page, len |-> len]} ELSE held
        /\ FLUSH_TLB
        /\ UNCHANGED tasks

\* P_FREES of a run by its holder.
Free ==
    \E run \in held :
        /\ Becomes(P_FREES(Mem, run))
        /\ held' = held \ {run}
        /\ FLUSH_TLB
        /\ UNCHANGED <<calls, tasks>>

\* new_task: a page for the user half, empty; a task has no range before it is loaded.
Spawn ==
    \E t \in Tasks :
        /\ cr3[t] = Nothing /\ Called
        /\ LET got == KPALLOC(Mem)
           IN  /\ OneLevel(got.mem) /\ Becomes(got.mem)
               /\ cr3' = [cr3 EXCEPT ![t] = got.page]
               /\ IF got.refill THEN FLUSH_TLB ELSE tlb' = tlb
        /\ saved' = [saved EXCEPT ![t] = NoHalf]
        /\ brk' = [brk EXCEPT ![t] = {}]
        /\ faulted' = [faulted EXCEPT ![t] = Empty]
        /\ UNCHANGED <<held, current, dead, live>>

\* PF: the sections of the program are the range.
Load ==
    \E to \in UserPages :
        /\ brk[current] = {}
        /\ brk' = [brk EXCEPT ![current] = Lowest(UserPages)..to]
        /\ UNCHANGED <<mem, held, calls, current, cr3, dead, live, saved, faulted, tlb>>

\* sbrk: the end moves up.
Sbrk ==
    /\ brk[current] # {}
    /\ \E to \in UserPages \ brk[current] :
        /\ \A p \in brk[current] : p < to
        /\ brk' = [brk EXCEPT ![current] = Lowest(@)..to]
    /\ UNCHANGED <<mem, held, calls, current, cr3, dead, live, saved, faulted, tlb>>

\* An access to a page the processor finds in the half in force.
Cache ==
    \E page \in DOMAIN live.pt \ DOMAIN tlb :
        /\ tlb' = With(tlb, page, live.pt[page])
        /\ UNCHANGED <<mem, held, calls, tasks>>

\* An access it finds nowhere: PAGE_FAULT maps the page if it is in the range.  (An
\* access outside it stops the machine, whoever makes it.)
Fault ==
    \E page \in brk[current] :
        /\ page \notin DOMAIN live.pt \cup DOMAIN tlb
        /\ LET got == UP_ALLOC4(Mem, live, page)
           IN  /\ OneLevel(got.mem) /\ Becomes(got.mem)
               /\ live' = got.half
               /\ faulted' = [faulted EXCEPT ![current] = With(@, page, got.half.pt[page])]
        /\ FLUSH_TLB
        /\ UNCHANGED <<held, calls, current, cr3, dead, saved, brk>>

\* reap: the page of the user half of the task that died goes, the pages the half maps
\* do not.  schedule() reaps in every call, so there is one such task at most.
Reaped(m) == IF dead = {} THEN m ELSE P_FREES(m, [at |-> cr3[CHOOSE t \in dead : TRUE], len |-> 1])

\* Mutant: switch_to_task loads the half of the next task and keeps none.
ExchangeLoads(next) ==
    /\ live' = saved[next]
    /\ current' = next
    /\ UNCHANGED saved

\* switch_to_task: the half in force goes to word 0 of the page of the task that runs,
\* and that of the next one takes its place.  The entry is exchanged without a flush.
Exchange(next) ==
    /\ saved' = [saved EXCEPT ![current] = live]
    /\ live' = saved[next]
    /\ current' = next

\* Mutant: the switch leaves the flush to a switch_to_task that does not make it.
switch_to_task_wrapperUnflushed(next) ==
    /\ IF dead = {} THEN tlb' = tlb ELSE FLUSH_TLB
    /\ Exchange(next)

\* The TLB is flushed, and the halves are exchanged some calls later ("this should be
\* INSIDE the stt func"): interrupts are off, and nothing of the user half is touched
\* in between.
switch_to_task_wrapper(next) ==
    /\ FLUSH_TLB
    /\ Exchange(next)

\* schedule reaps those who died before, then notes whether this task has died.
Schedule(next, dies) ==
    /\ next # current /\ cr3[next] # Nothing /\ next \notin dead
    /\ Becomes(Reaped(Mem))
    /\ cr3' = [t \in Tasks |-> IF t \in dead THEN Nothing ELSE cr3[t]]
    /\ dead' = IF dies THEN {current} ELSE {}
    /\ switch_to_task_wrapper(next)
    /\ UNCHANGED <<held, calls, brk, faulted>>

Switch == \E next \in Tasks : Schedule(next, FALSE)

\* PROC_EXIT.
Exit == \E next \in Tasks : Schedule(next, TRUE)

Halted ==
    /\ ~Alive
    /\ UNCHANGED vars

Next ==
    \/ Alive /\ (Alloc \/ AllocRun \/ Free \/ Spawn \/ Load \/ Sbrk \/ Cache \/ Fault \/ Switch \/ Exit)
    \/ Halted

Spec == Init /\ [][Next]_vars

-----------------------------------------------------------------------------

Half == [table : {Nothing} \cup Nat, pt : UNION {[S -> Phys] : S \in SUBSET UserPages}]

TypeOK ==
    /\ marked \subseteq Phys
    /\ pool \in [Slot -> {Nothing} \cup Nat]
    /\ DOMAIN kpt \subseteq Nat /\ \A p \in DOMAIN kpt : kpt[p] \in Phys
    /\ ktables \subseteq Nat
    /\ held \subseteq [at : Nat, len : Nat] /\ calls \in 0..MaxCalls
    /\ current \in Tasks /\ dead \subseteq Tasks
    /\ cr3 \in [Tasks -> {Nothing} \cup Nat]
    /\ live \in Half /\ saved \in [Tasks -> Half]
    /\ fault \in {"none", "KPALLOC_NOFREE", "PL_FN_MISMATCH", "PT_EXISTS_ALREADY", "search without an end"}

\* The tasks that have a user half, and the half of each.
Existing == {t \in Tasks : cr3[t] # Nothing}
HalfOf(t) == IF t = current THEN live ELSE saved[t]

Pages(run) == run.at..(run.at + run.len - 1)
Pool == {pool[s] : s \in Slot} \ {Nothing}

\* No page is given to two: the physical pages of the entries, the kernel's and
\* those of every task's half, differ and are marked in the bitmap, the boot pages
\* stay marked, and a page of the kernel's half that is mapped is in one place at
\* most of the pool, the tables, the user halves and the runs of the callers.  (PL_FN
\* and PL_SV of page.c with their int masks, and an allocation that needs a table
\* from the pool half way.)
NoPageTwice ==
    /\ TypeOK
    /\ Alive =>
       /\ BootPages \subseteq marked
       /\ \A p, q \in DOMAIN kpt : kpt[p] \in marked /\ (kpt[p] = kpt[q] => p = q)
       /\ \A t \in Existing : \A p \in DOMAIN HalfOf(t).pt :
            /\ HalfOf(t).pt[p] \in marked
            /\ \A q \in DOMAIN kpt : kpt[q] # HalfOf(t).pt[p]
            /\ \A u \in Existing : \A q \in DOMAIN HalfOf(u).pt :
                 HalfOf(u).pt[q] = HalfOf(t).pt[p] => <<t, p>> = <<u, q>>
       /\ LET parts == {Pages(run) : run \in held} \cup {Pool, ktables}
                          \cup {{cr3[t]} : t \in Existing}
                          \cup {{HalfOf(t).table} \ {Nothing} : t \in Existing}
          IN  /\ \A P \in parts : P \subseteq DOMAIN kpt
              /\ \A P, Q \in parts : P # Q => P \cap Q = {}
              /\ \A r, s \in held : Pages(r) = Pages(s) => r = s
              /\ \A t, u \in Existing : cr3[t] = cr3[u] => t = u
              /\ \A t, u \in Existing : HalfOf(t).table = HalfOf(u).table =>
                    t = u \/ HalfOf(t).table = Nothing
              /\ \A s, u \in Slot : pool[s] = pool[u] /\ pool[s] # Nothing => s = u

\* The pool never runs dry and no check of page.c stops the machine; the pages the
\* boot left in the pool stay there, so that no caller can free one and clear the bit
\* of another page.  (The refill of KPALLOC from slot 32 on, with tables that come
\* from the pool it fills.)
PoolHolds ==
    /\ fault \in {"none", "search without an end"}
    /\ \A run \in held : Pages(run) \cap BootPages = {}
    /\ \A t \in Existing : cr3[t] \notin BootPages

\* A task finds the pages PAGE_FAULT has mapped for it, all of them and no others,
\* whenever it runs.  (The exchange in switch_to_task, asmbridge.S, and the page a
\* dead task's half is kept in, which reap frees.)
OwnHalf == \A t \in Existing \ dead : HalfOf(t).pt = faulted[t]

\* "each task has its own cr3 where the top half is the same as in our mbase and the
\* bottom half is usermode" (proc.c:219): what the processor uses for an access of
\* the running task is what its own half says, whatever the tasks before it have left
\* in the TLB.  (The flush of switch_to_task_wrapper, which is not in the exchange it
\* is for, and those of the windows through which page.c looks into tables.)
OwnAccesses == \A p \in DOMAIN tlb : p \in DOMAIN live.pt /\ tlb[p] = live.pt[p]

=============================================================================
