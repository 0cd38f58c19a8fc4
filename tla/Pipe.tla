--------------------------------- MODULE Pipe ---------------------------------
(***************************************************************************)
(* The stdio pipe of filesystem.c: STDOUTStream of the writers and         *)
(* STDINStream of the readers of one stdIO, with its chain of chunks, its  *)
(* semaphore and its poke slot.                                            *)
(*                                                                         *)
(* Tasks are preempted anywhere outside the locked regions of proc.c, so   *)
(* any task that is not blocked may take the next step; what the semaphore *)
(* and the poke slot do to the scheduler's lists is in Ipc.                *)
(***************************************************************************)
EXTENDS Integers, Sequences, SequencesExt

CONSTANTS
    Writers, Readers,  \* the tasks at the two ends
    NULL,
    ChunkSize,         \* the bytes of a stdFIFOBUF (255)
    MaxLen,            \* bound: the longest READ or WRITE, in bytes
    MaxBytes           \* bound: the bytes one writer ever writes

ASSUME PipeAssumption ==
    /\ Writers \cap Readers = {} /\ NULL \notin Writers \cup Readers
    /\ ChunkSize \in Nat \ {0} /\ MaxLen \in Nat /\ MaxBytes \in Nat

VARIABLES
    chunks,      \* the stdFIFOBUFs from bufferOut to bufferOutEnd, each the bytes it holds
    holder,      \* the task that has bufferSema
    queue,       \* the tasks that wait for bufferSema
    waiter,      \* *waiter: the task to be poked
    pc,          \* where a task is in READ or WRITE
    len,         \* the bytes it still has to move
    relent,      \* toRelent
    sent,        \* history: the bytes copied into chunks
    received,    \* history: the bytes copied out of them
    fault        \* the ERROR() that stopped the machine, or TWO_HOLDERS

semaVars    == <<holder, queue>>
historyVars == <<sent, received>>
vars == <<chunks, semaVars, waiter, pc, len, relent, historyVars, fault>>

Tasks == Writers \cup Readers

Bytes == Writers \X (1..MaxBytes)

\* acquire: about to acquire bufferSema; queued: blocked in it; copy, release: inside;
\* test, poke, sleep: a writer after its release; wfPoke, listed, blocked: a reader
\* that found nothing, before wfPokeT, between its unlock and its block, after it.
Labels == {"idle", "acquire", "queued", "copy", "release", "test", "poke", "sleep",
           "wfPoke", "listed", "blocked"}

Init ==
    /\ chunks = << <<>> >>
    /\ holder = NULL /\ queue = <<>> /\ waiter = NULL
    /\ pc = [t \in Tasks |-> "idle"]
    /\ len = [t \in Tasks |-> 0]
    /\ relent = [t \in Tasks |-> FALSE]
    /\ sent = <<>> /\ received = <<>>
    /\ fault = "none"

At(t, label) == fault = "none" /\ pc[t] = label

Goto(t, label) == pc' = [pc EXCEPT ![t] = label]

Error(code) ==
    /\ fault' = code
    /\ UNCHANGED <<chunks, semaVars, waiter, pc, len, relent, historyVars>>

Least(a, b) == IF a < b THEN a ELSE b

BytesOf(w) == {i \in 1..Len(sent) : sent[i][1] = w}

\* The next n bytes that w writes.
NextBytes(w, n) == [i \in 1..n |-> <<w, Cardinality(BytesOf(w)) + i>>]

-----------------------------------------------------------------------------

\* A task calls READ or WRITE on its end.
Call(t) ==
    /\ At(t, "idle")
    /\ \E n \in 1..MaxLen :
          /\ t \in Writers => Cardinality(BytesOf(t)) + n <= MaxBytes
          /\ len' = [len EXCEPT ![t] = n]
    /\ Goto(t, "acquire")
    /\ UNCHANGED <<chunks, semaVars, waiter, relent, historyVars, fault>>

\* acquire_semaphore.
Acquire(t) ==
    /\ At(t, "acquire")
    /\ IF holder = NULL
       THEN holder' = t /\ Goto(t, "copy") /\ UNCHANGED queue
       ELSE queue' = Append(queue, t) /\ Goto(t, "queued") /\ UNCHANGED holder
    /\ UNCHANGED <<chunks, waiter, len, relent, historyVars, fault>>

\* The code between release_semaphore and the next thing that matters to others.
AfterRelease(t) ==
    IF t \in Writers THEN "test"
    ELSE IF len[t] = 0 THEN "idle"
    ELSE IF relent[t] THEN "wfPoke" ELSE "acquire"

\* unblock_task leaves the link of the task it wakes as it is when other tasks are
\* ready: the next waiter may follow it out of the ready list, and two tasks are
\* inside.  The behaviour ends there; Ipc has what leads to it.
HandOverFaults == {"none"} \cup IF Len(queue) >= 2 THEN {"TWO_HOLDERS"} ELSE {}

\* release_semaphore hands over to the first task that waits.
Release(t) ==
    /\ At(t, "release")
    /\ IF queue = <<>>
       THEN holder' = NULL /\ Goto(t, AfterRelease(t)) /\ UNCHANGED <<queue, fault>>
       ELSE /\ holder' = Head(queue) /\ queue' = Tail(queue)
            /\ pc' = [pc EXCEPT ![t] = AfterRelease(t), ![Head(queue)] = "copy"]
            /\ fault' \in HandOverFaults
    /\ UNCHANGED <<chunks, waiter, len, relent, historyVars>>

-----------------------------------------------------------------------------
(***************************************************************************)
(* STDOUTStream.                                                           *)
(***************************************************************************)
\* Mutant of Filled: the bytes go behind the last chunk without a look at its room.
FilledAlways(bytes) == [chunks EXCEPT ![Len(chunks)] = @ \o bytes]

\* Into the last chunk, or into a new one if that is full.
Filled(bytes) ==
    IF Len(Last(chunks)) < ChunkSize
    THEN [chunks EXCEPT ![Len(chunks)] = @ \o bytes]
    ELSE Append(chunks, bytes)

Room == IF Len(Last(chunks)) < ChunkSize THEN ChunkSize - Len(Last(chunks)) ELSE ChunkSize

CopyIn(w) ==
    /\ w \in Writers /\ At(w, "copy")
    /\ LET bytes == NextBytes(w, Least(Room, len[w]))
       IN  /\ chunks' = Filled(bytes)
           /\ sent' = sent \o bytes
           /\ len' = [len EXCEPT ![w] = @ - Len(bytes)]
    /\ Goto(w, "release")
    /\ UNCHANGED <<semaVars, waiter, relent, received, fault>>

\* Mutant of WakesReader: a reader that waits is left to the next write.
WakesReaderNever == FALSE

WakesReader == waiter # NULL

\* The writer looks for a reader to poke outside the semaphore.
TestWaiter(w) ==
    /\ At(w, "test")
    /\ Goto(w, IF WakesReader THEN "poke" ELSE "sleep")
    /\ UNCHANGED <<chunks, semaVars, waiter, len, relent, historyVars, fault>>

\* Mutant of Continue: the loop goes on with nothing left to write.
ContinueAtZero(w) == IF len[w] >= 0 THEN "acquire" ELSE "idle"

Continue(w) == IF len[w] > 0 THEN "acquire" ELSE "idle"

\* PokeT: unblock_task stops the machine for a reader that is not blocked yet.
Poke(w) ==
    /\ At(w, "poke")
    /\ CASE waiter = NULL ->
              /\ Goto(w, Continue(w))
              /\ UNCHANGED <<chunks, semaVars, waiter, len, relent, historyVars, fault>>
         [] waiter # NULL /\ pc[waiter] # "blocked" -> Error("TASK_BADUNBLOCK")
         [] waiter # NULL /\ pc[waiter] = "blocked" ->
              /\ pc' = [pc EXCEPT ![w] = Continue(w), ![waiter] = "acquire"]
              /\ waiter' = NULL
              /\ UNCHANGED <<chunks, semaVars, len, relent, historyVars, fault>>

\* nano_sleep is over.
Sleep(w) ==
    /\ At(w, "sleep")
    /\ Goto(w, Continue(w))
    /\ UNCHANGED <<chunks, semaVars, waiter, len, relent, historyVars, fault>>

-----------------------------------------------------------------------------
(***************************************************************************)
(* STDINStream.                                                            *)
(***************************************************************************)
\* Mutant of Kept: a byte too few is removed from the chunk.
KeptOneMore(head, n) == SubSeq(head, n, Len(head))

\* What stays in a chunk when n bytes have been copied out of it.
Kept(head, n) == SubSeq(head, n + 1, Len(head))

\* bufferOut = bufferOutEnd.
OnlyChunk == Len(chunks) = 1

CopyOut(r) ==
    /\ r \in Readers /\ At(r, "copy")
    /\ LET head == Head(chunks)
           n    == Least(Len(head), len[r])
       IN  IF n = 0
           THEN /\ chunks' = IF OnlyChunk THEN chunks ELSE Tail(chunks)
                /\ relent' = [relent EXCEPT ![r] = OnlyChunk]
                /\ UNCHANGED <<len, received>>
           ELSE /\ chunks' = [chunks EXCEPT ![1] = Kept(head, n)]
                /\ received' = received \o SubSeq(head, 1, n)
                /\ len' = [len EXCEPT ![r] = @ - n]
                /\ UNCHANGED relent
    /\ Goto(r, "release")
    /\ UNCHANGED <<semaVars, waiter, sent, fault>>

\* wfPokeT up to its unlock.
WfPoke(r) ==
    /\ At(r, "wfPoke")
    /\ IF waiter # NULL
       THEN Error("POKE_NULLP")
       ELSE /\ waiter' = r
            /\ relent' = [relent EXCEPT ![r] = FALSE]
            /\ Goto(r, "listed")
            /\ UNCHANGED <<chunks, semaVars, len, historyVars, fault>>

WfPokeBlock(r) ==
    /\ At(r, "listed")
    /\ Goto(r, "blocked")
    /\ UNCHANGED <<chunks, semaVars, waiter, len, relent, historyVars, fault>>

-----------------------------------------------------------------------------

\* A task that has the processor, inside READ or WRITE.
Move(t) ==
    \/ Acquire(t) \/ Release(t)
    \/ CopyIn(t) \/ TestWaiter(t) \/ Poke(t) \/ Sleep(t)
    \/ CopyOut(t) \/ WfPoke(t) \/ WfPokeBlock(t)

Halted == fault # "none" /\ UNCHANGED vars

Next == Halted \/ \E t \in Tasks : Call(t) \/ Move(t)

Spec == Init /\ [][Next]_vars

\* A task that is ready gets the processor: schedule() takes the ready list in turn
\* and time slices end.  Nobody has to call READ or WRITE.
FairSpec == Spec /\ \A t \in Tasks : WF_vars(Move(t))

-----------------------------------------------------------------------------

TypeOK ==
    /\ chunks \in Seq(Seq(Bytes)) /\ chunks # <<>>
    /\ holder \in Tasks \cup {NULL} /\ queue \in Seq(Tasks)
    /\ waiter \in Readers \cup {NULL}
    /\ pc \in [Tasks -> Labels] /\ len \in [Tasks -> 0..MaxLen] /\ relent \in [Tasks -> BOOLEAN]
    /\ sent \in Seq(Bytes) /\ received \in Seq(Bytes)
    /\ fault \in {"none", "TASK_BADUNBLOCK", "POKE_NULLP", "TWO_HOLDERS"}

\* The readers get the bytes of the writers, each once and in order, across the
\* boundaries of chunks and of calls, as long as the semaphore lets in one at a time.
Queue == INSTANCE ByteQueue WITH sent <- sent, received <- received
ImplementsQueue == Queue!Spec

\* A chunk is left by the writers only when it is full, no byte is written past its
\* end, and only the first one is taken from: memory grows with the unread bytes.
ChunksFull ==
    /\ TypeOK
    /\ \A i \in 1..Len(chunks) : Len(chunks[i]) <= ChunkSize
    /\ \A i \in 2..(Len(chunks) - 1) : Len(chunks[i]) = ChunkSize

\* A write returns, whatever the readers do, unless the machine stops.
WriteReturns == \A w \in Writers : pc[w] # "idle" ~> (pc[w] = "idle" \/ fault # "none")

\* A reader that is blocked when a write ends wakes up, unless the machine stops.
ReaderPoked ==
    \A r \in Readers, w \in Writers :
        (pc[r] = "blocked" /\ pc[w] = "test") ~> (pc[r] # "blocked" \/ fault # "none")

===============================================================================
