------------------------------ MODULE PipeProofs ------------------------------
(***************************************************************************)
(* A pipe is a byte queue and its chunks are full, for any number of       *)
(* readers and writers, any size of chunk and any number of bytes - up to  *)
(* the release that lets two waiters in, where Pipe ends.                  *)
(***************************************************************************)
EXTENDS Pipe, FiniteSetTheorems, TLAPS

-----------------------------------------------------------------------------
(***************************************************************************)
(* A sequence that is kept in pieces: what becomes of the pieces when one  *)
(* of them, or the sequence, grows or shrinks.                             *)
(***************************************************************************)
\* s and behind it u.
LEMMA Concat ==
    ASSUME NEW S, NEW s \in Seq(S), NEW u \in Seq(S)
    PROVE  /\ s \o u \in Seq(S) /\ Len(s \o u) = Len(s) + Len(u)
           /\ \A i \in 1..Len(s) : (s \o u)[i] = s[i]
           /\ \A i \in 1..Len(u) : (s \o u)[Len(s) + i] = u[i]
<1>1. s \o u \in Seq(S) /\ Len(s \o u) = Len(s) + Len(u)
  OBVIOUS
<1>2. \A i \in 1..Len(s) : (s \o u)[i] = s[i]
  OBVIOUS
<1>3. ASSUME NEW i \in 1..Len(u) PROVE (s \o u)[Len(s) + i] = u[i]
  OBVIOUS
<1> QED BY <1>1, <1>2, <1>3

\* s without its first n elements, and those.
LEMMA Cut ==
    ASSUME NEW S, NEW s \in Seq(S), NEW n \in 0..Len(s)
    PROVE  /\ SubSeq(s, n + 1, Len(s)) \in Seq(S) /\ Len(SubSeq(s, n + 1, Len(s))) = Len(s) - n
           /\ \A i \in 1..(Len(s) - n) : SubSeq(s, n + 1, Len(s))[i] = s[n + i]
           /\ SubSeq(s, 1, n) \in Seq(S) /\ Len(SubSeq(s, 1, n)) = n
           /\ \A i \in 1..n : SubSeq(s, 1, n)[i] = s[i]
<1>1. SubSeq(s, n + 1, Len(s)) \in Seq(S)
  OBVIOUS
<1>2. Len(SubSeq(s, n + 1, Len(s))) = Len(s) - n
  OBVIOUS
<1>3. ASSUME NEW i \in 1..(Len(s) - n) PROVE SubSeq(s, n + 1, Len(s))[i] = s[n + i]
  OBVIOUS
<1>4. SubSeq(s, 1, n) \in Seq(S) /\ Len(SubSeq(s, 1, n)) = n
  OBVIOUS
<1>5. ASSUME NEW i \in 1..n PROVE  SubSeq(s, 1, n)[i] = s[i]
  OBVIOUS
<1> QED BY <1>1, <1>2, <1>3, <1>4, <1>5

-----------------------------------------------------------------------------

\* The pieces cs are windows on s: start[i] elements of s are in front of the i-th.
Windowed(cs, start, s) ==
    /\ \A i \in 1..Len(cs) : start[i + 1] = start[i] + Len(cs[i])
    /\ \A i \in 1..Len(cs) : \A j \in 1..Len(cs[i]) :
          start[i] + j \in 1..Len(s) /\ cs[i][j] = s[start[i] + j]

\* x goes behind s, and into the last piece.
LEMMA GrowLast ==
    ASSUME NEW S, NEW cs \in Seq(Seq(S)), cs # <<>>, NEW s \in Seq(S), NEW x \in Seq(S),
           NEW start \in [1..(Len(cs) + 1) -> Nat], Windowed(cs, start, s),
           start[Len(cs) + 1] = Len(s)
    PROVE  Windowed([cs EXCEPT ![Len(cs)] = @ \o x],
                   [start EXCEPT ![Len(cs) + 1] = @ + Len(x)], s \o x)
<1> DEFINE L == Len(cs)
           last == cs[L] \o x
           cs2 == [cs EXCEPT ![L] = last]
           start2 == [start EXCEPT ![L + 1] = @ + Len(x)]
           s2 == s \o x
<1>1. L \in Nat \ {0} /\ cs[L] \in Seq(S) /\ Len(s) \in Nat /\ Len(x) \in Nat
  OBVIOUS
<1>2. /\ last \in Seq(S) /\ Len(last) = Len(cs[L]) + Len(x)
      /\ \A i \in 1..Len(cs[L]) : last[i] = cs[L][i]
      /\ \A i \in 1..Len(x) : last[Len(cs[L]) + i] = x[i]
  BY <1>1, Concat
<1>3. Len(cs2) = L /\ \A i \in 1..L : cs2[i] = IF i = L THEN last ELSE cs[i]
  BY <1>1
<1>4. /\ \A i \in 1..L : start2[i] = start[i] /\ start[i] \in Nat /\ Len(cs[i]) \in Nat
      /\ start2[L + 1] = Len(s) + Len(x)
  <2>1. \A i \in 1..L : i \in 1..(L + 1) /\ i # L + 1
    BY <1>1
  <2>2. \A i \in 1..L : cs[i] \in Seq(S)
    OBVIOUS
  <2> QED BY <1>1, <2>1, <2>2
<1>5. /\ Len(s2) = Len(s) + Len(x)
      /\ \A i \in 1..Len(s) : s2[i] = s[i]
      /\ \A i \in 1..Len(x) : s2[Len(s) + i] = x[i]
  BY Concat
<1>6. /\ \A i \in 1..L : start[i + 1] = start[i] + Len(cs[i])
      /\ \A i \in 1..L : \A j \in 1..Len(cs[i]) :
            start[i] + j \in 1..Len(s) /\ cs[i][j] = s[start[i] + j]
  BY DEF Windowed
<1> HIDE DEF L, cs2, start2, s2, last
<1>7. start[L] + Len(cs[L]) = Len(s) /\ start2[L] = start[L] /\ start[L] \in Nat /\ Len(cs[L]) \in Nat
  <2>1. start[L + 1] = Len(s) /\ L \in 1..L
    BY <1>1 DEF L
  <2> QED BY <1>4, <1>6, <2>1
<1>9. /\ Len(s) + Len(x) = start[L] + (Len(cs[L]) + Len(x))
      /\ \A j \in 1..(Len(cs[L]) + Len(x)) : j \notin 1..Len(cs[L]) =>
            \E k \in 1..Len(x) : j = Len(cs[L]) + k /\ start[L] + j = Len(s) + k
  <2> DEFINE a == start[L]
             b == Len(cs[L])
             c == Len(s)
             d == Len(x)
  <2>1. a \in Nat /\ b \in Nat /\ c \in Nat /\ d \in Nat /\ a + b = c
    BY <1>1, <1>7
  <2> HIDE DEF a, b, c, d
  <2>2. c + d = a + (b + d)
    BY <2>1
  <2>3. ASSUME NEW j \in 1..(b + d), j \notin 1..b
        PROVE  \E k \in 1..d : j = b + k /\ a + j = c + k
    <3>1. j - b \in 1..d /\ j = b + (j - b) /\ a + j = c + (j - b)
      BY <2>1, <2>3
    <3> QED BY <3>1
  <2> QED BY <2>2, <2>3 DEF a, b, c, d
<1>8. ASSUME NEW i \in 1..L
      PROVE  /\ start2[i + 1] = start2[i] + Len(cs2[i])
             /\ \A j \in 1..Len(cs2[i]) : start2[i] + j \in 1..Len(s2) /\ cs2[i][j] = s2[start2[i] + j]
  <2>1. CASE i = L
    <3>1. cs2[i] = last /\ start2[i] = start[L] /\ start2[i + 1] = Len(s) + Len(x)
      BY <1>3, <1>4, <2>1
    <3>0. Len(last) = Len(cs[L]) + Len(x)
      BY <1>2
    <3>2. start2[i + 1] = start2[i] + Len(cs2[i])
      BY <1>9, <3>0, <3>1
    <3>3. ASSUME NEW j \in 1..Len(last)
          PROVE  start[L] + j \in 1..Len(s2) /\ last[j] = s2[start[L] + j]
      <4>1. CASE j \in 1..Len(cs[L])
        <5>1. start[L] + j \in 1..Len(s) /\ cs[L][j] = s[start[L] + j]
          BY <1>1, <1>6, <4>1
        <5>2. start[L] + j \in 1..Len(s2)
          BY <1>1, <1>5, <5>1
        <5>3. s2[start[L] + j] = s[start[L] + j] /\ last[j] = cs[L][j]
          BY <1>2, <1>5, <4>1, <5>1
        <5> QED BY <5>1, <5>2, <5>3
      <4>2. CASE j \notin 1..Len(cs[L])
        <5>1. PICK k \in 1..Len(x) : j = Len(cs[L]) + k /\ start[L] + j = Len(s) + k
          BY <1>9, <3>0, <4>2
        <5>2. last[j] = x[k]
          BY <1>2, <5>1
        <5>3. s2[start[L] + j] = x[k]
          BY <1>5, <5>1
        <5>4. Len(s) + k \in 1..Len(s2)
          BY <1>1, <1>5
        <5> QED BY <5>1, <5>2, <5>3, <5>4
      <4> QED BY <4>1, <4>2
    <3> QED BY <3>1, <3>2, <3>3
  <2>2. CASE i # L
    <3>1. cs2[i] = cs[i] /\ start2[i] = start[i] /\ start2[i + 1] = start[i + 1]
      <4>1. i + 1 \in 1..L
        BY <1>1, <2>2
      <4> QED BY <1>3, <1>4, <2>2, <4>1
    <3>2. ASSUME NEW j \in 1..Len(cs[i])
          PROVE  start[i] + j \in 1..Len(s2) /\ cs[i][j] = s2[start[i] + j]
      <4>1. start[i] + j \in 1..Len(s) /\ cs[i][j] = s[start[i] + j]
        BY <1>6
      <4>2. start[i] + j \in 1..Len(s2)
        BY <1>1, <1>5, <4>1
      <4> QED BY <1>5, <4>1, <4>2
    <3> QED BY <1>6, <3>1, <3>2
  <2> QED BY <2>1, <2>2
<1> QED BY <1>3, <1>8 DEF Windowed, cs2, start2, s2, last, L

\* x goes behind s, and is a new piece.
LEMMA GrowNew ==
    ASSUME NEW S, NEW cs \in Seq(Seq(S)), NEW s \in Seq(S), NEW x \in Seq(S),
           NEW start \in [1..(Len(cs) + 1) -> Nat], Windowed(cs, start, s),
           start[Len(cs) + 1] = Len(s)
    PROVE  Windowed(Append(cs, x),
                   [i \in 1..(Len(cs) + 2) |-> IF i = Len(cs) + 2 THEN Len(s) + Len(x) ELSE start[i]],
                   s \o x)
<1> DEFINE L == Len(cs)
           cs2 == Append(cs, x)
           start2 == [i \in 1..(L + 2) |-> IF i = L + 2 THEN Len(s) + Len(x) ELSE start[i]]
           s2 == s \o x
<1>1. L \in Nat /\ Len(s) \in Nat /\ Len(x) \in Nat
  OBVIOUS
<1>3. Len(cs2) = L + 1 /\ cs2[L + 1] = x /\ \A i \in 1..L : cs2[i] = cs[i]
  OBVIOUS
<1>4. /\ \A i \in 1..(L + 1) : start2[i] = start[i] /\ start[i] \in Nat
      /\ start2[L + 2] = Len(s) + Len(x) /\ start[L + 1] = Len(s)
  BY <1>1
<1>5. /\ Len(s2) = Len(s) + Len(x)
      /\ \A i \in 1..Len(s) : s2[i] = s[i]
      /\ \A i \in 1..Len(x) : s2[Len(s) + i] = x[i]
  BY Concat
<1>6. /\ \A i \in 1..L : start[i + 1] = start[i] + Len(cs[i])
      /\ \A i \in 1..L : \A j \in 1..Len(cs[i]) :
            start[i] + j \in 1..Len(s) /\ cs[i][j] = s[start[i] + j]
  BY DEF Windowed
<1> HIDE DEF L, cs2, start2, s2
<1>8. ASSUME NEW i \in 1..(L + 1)
      PROVE  /\ start2[i + 1] = start2[i] + Len(cs2[i])
             /\ \A j \in 1..Len(cs2[i]) : start2[i] + j \in 1..Len(s2) /\ cs2[i][j] = s2[start2[i] + j]
  <2>1. CASE i = L + 1
    <3>1. cs2[i] = x /\ start2[i] = Len(s) /\ start2[i + 1] = Len(s) + Len(x)
      BY <1>1, <1>3, <1>4, <2>1
    <3> QED BY <1>1, <1>5, <3>1
  <2>2. CASE i # L + 1
    <3>0. i \in 1..L /\ i + 1 \in 1..(L + 1)
      BY <1>1, <2>2
    <3>1. cs2[i] = cs[i] /\ start2[i] = start[i] /\ start2[i + 1] = start[i + 1]
      BY <1>3, <1>4, <3>0
    <3>2. ASSUME NEW j \in 1..Len(cs[i])
          PROVE  start[i] + j \in 1..Len(s2) /\ cs[i][j] = s2[start[i] + j]
      <4>1. start[i] + j \in 1..Len(s) /\ cs[i][j] = s[start[i] + j]
        BY <1>6, <3>0
      <4>2. start[i] + j \in 1..Len(s2)
        BY <1>1, <1>5, <4>1
      <4> QED BY <1>5, <4>1, <4>2
    <3> QED BY <1>6, <3>0, <3>1, <3>2
  <2> QED BY <2>1, <2>2
<1> QED BY <1>3, <1>8 DEF Windowed, cs2, start2, s2, L

\* The first piece loses its first n elements.
LEMMA ShrinkFirst ==
    ASSUME NEW S, NEW cs \in Seq(Seq(S)), cs # <<>>, NEW s \in Seq(S), NEW n \in 0..Len(cs[1]),
           NEW start \in [1..(Len(cs) + 1) -> Nat], Windowed(cs, start, s)
    PROVE  Windowed([cs EXCEPT ![1] = SubSeq(@, n + 1, Len(@))], [start EXCEPT ![1] = @ + n], s)
<1> DEFINE L == Len(cs)
           first == SubSeq(cs[1], n + 1, Len(cs[1]))
           cs2 == [cs EXCEPT ![1] = first]
           start2 == [start EXCEPT ![1] = @ + n]
<1>1. L \in Nat \ {0} /\ cs[1] \in Seq(S) /\ Len(s) \in Nat /\ n \in Nat /\ Len(cs[1]) \in Nat
  OBVIOUS
<1>2. /\ Len(first) = Len(cs[1]) - n
      /\ \A i \in 1..(Len(cs[1]) - n) : first[i] = cs[1][n + i]
  BY <1>1, Cut
<1> HIDE DEF first
<1>3. Len(cs2) = L /\ \A i \in 1..L : cs2[i] = IF i = 1 THEN first ELSE cs[i]
  BY <1>1
<1>4. /\ \A i \in 1..(L + 1) : start2[i] = (IF i = 1 THEN start[1] + n ELSE start[i]) /\ start[i] \in Nat
  BY <1>1
<1>6. /\ \A i \in 1..L : start[i + 1] = start[i] + Len(cs[i])
      /\ \A i \in 1..L : \A j \in 1..Len(cs[i]) :
            start[i] + j \in 1..Len(s) /\ cs[i][j] = s[start[i] + j]
  BY DEF Windowed
<1> HIDE DEF L, cs2, start2
<1>8. ASSUME NEW i \in 1..L
      PROVE  /\ start2[i + 1] = start2[i] + Len(cs2[i])
             /\ \A j \in 1..Len(cs2[i]) : start2[i] + j \in 1..Len(s) /\ cs2[i][j] = s[start2[i] + j]
  <2>1. CASE i = 1
    <3>1. cs2[i] = first /\ start2[i] = start[1] + n /\ start2[i + 1] = start[1] + Len(cs[1]) /\ start[1] \in Nat
      BY <1>1, <1>3, <1>4, <1>6, <2>1
    <3>2. ASSUME NEW j \in 1..Len(first)
          PROVE  start2[i] + j \in 1..Len(s) /\ first[j] = s[start2[i] + j]
      <4>0. j \in Nat /\ j \in 1..(Len(cs[1]) - n)
        BY <1>2
      <4>1. n + j \in 1..Len(cs[1]) /\ first[j] = cs[1][n + j] /\ start2[i] + j = start[1] + (n + j)
        <5>1. n + j \in 1..Len(cs[1])
          BY <1>1, <4>0
        <5>2. first[j] = cs[1][n + j]
          BY <1>2, <4>0
        <5>3. start2[i] + j = start[1] + (n + j)
          BY <1>1, <3>1, <4>0
        <5> QED BY <5>1, <5>2, <5>3
      <4>2. start[1] + (n + j) \in 1..Len(s) /\ cs[1][n + j] = s[start[1] + (n + j)]
        BY <1>1, <1>6, <4>1
      <4> QED BY <4>1, <4>2
    <3>3. start2[i + 1] = start2[i] + Len(cs2[i])
      BY <1>1, <1>2, <3>1
    <3> QED BY <3>1, <3>2, <3>3
  <2>2. CASE i # 1
    <3>1. cs2[i] = cs[i] /\ start2[i] = start[i] /\ start2[i + 1] = start[i + 1]
      BY <1>1, <1>3, <1>4, <2>2
    <3> QED BY <1>6, <3>1
  <2> QED BY <2>1, <2>2
<1> QED BY <1>3, <1>8 DEF Windowed, cs2, start2, L, first

\* The first piece is dropped.
LEMMA DropFirst ==
    ASSUME NEW S, NEW cs \in Seq(Seq(S)), cs # <<>>, NEW s \in Seq(S),
           NEW start \in [1..(Len(cs) + 1) -> Nat], Windowed(cs, start, s)
    PROVE  Windowed(Tail(cs), [i \in 1..Len(cs) |-> start[i + 1]], s)
<1> DEFINE L == Len(cs)
           cs2 == Tail(cs)
           start2 == [i \in 1..L |-> start[i + 1]]
<1>1. L \in Nat \ {0}
  OBVIOUS
<1>2. Len(cs2) = L - 1 /\ \A i \in 1..(L - 1) : cs2[i] = cs[i + 1]
  OBVIOUS
<1>3. /\ \A i \in 1..L : start[i + 1] = start[i] + Len(cs[i])
      /\ \A i \in 1..L : \A j \in 1..Len(cs[i]) :
            start[i] + j \in 1..Len(s) /\ cs[i][j] = s[start[i] + j]
  BY DEF Windowed
<1>4. \A i \in 1..L : start2[i] = start[i + 1]
  OBVIOUS
<1> HIDE DEF L, cs2, start2
<1>5. ASSUME NEW i \in 1..(L - 1)
      PROVE  /\ start2[i + 1] = start2[i] + Len(cs2[i])
             /\ \A j \in 1..Len(cs2[i]) : start2[i] + j \in 1..Len(s) /\ cs2[i][j] = s[start2[i] + j]
  <2>1. i \in 1..L /\ i + 1 \in 1..L
    BY <1>1
  <2>2. start2[i] = start[i + 1] /\ start2[i + 1] = start[(i + 1) + 1] /\ cs2[i] = cs[i + 1]
    BY <1>2, <1>4, <2>1
  <2> QED BY <1>3, <2>1, <2>2
<1> QED BY <1>2, <1>5 DEF Windowed, cs2, start2, L

-----------------------------------------------------------------------------

\* Until two tasks are inside, who copies is the holder, and who is blocked is in the
\* queue.
OneInside ==
    \A t \in Tasks : /\ pc[t] \in {"copy", "release"} <=> holder = t
                     /\ pc[t] = "queued" <=> t \in ToSet(queue)

\* A step also needs that nobody is in the queue twice, or release_semaphore would let a
\* task in that is still queued.
QueuedOnce == \A i, j \in 1..Len(queue) : queue[i] = queue[j] => i = j

SemaInv ==
    /\ pc \in [Tasks -> Labels]
    /\ queue \in Seq(Tasks)
    /\ QueuedOnce
    /\ OneInside

\* The places that say something about the semaphore.
Bound == {"copy", "release", "queued"}

\* A step after which some tasks are elsewhere, none of them in the semaphore before or after.
Elsewhere ==
    /\ pc' \in [Tasks -> Labels]
    /\ \A t \in Tasks : pc'[t] = pc[t] \/ (pc[t] \notin Bound /\ pc'[t] \notin Bound)
    /\ UNCHANGED semaVars

-----------------------------------------------------------------------------

\* Nobody has called READ or WRITE.
LEMMA InitSema == Init => SemaInv
BY PipeAssumption DEF Init, SemaInv, QueuedOnce, OneInside, Tasks, Labels, ToSet

\* What happens outside the semaphore changes neither its holder nor its queue.
LEMMA ElsewhereSema == ASSUME SemaInv, Elsewhere PROVE SemaInv'
<1>1. pc' \in [Tasks -> Labels] /\ queue' \in Seq(Tasks) /\ QueuedOnce'
  BY DEF SemaInv, Elsewhere, QueuedOnce, semaVars
<1>2. \A t \in Tasks : /\ pc'[t] \in {"copy", "release"} <=> pc[t] \in {"copy", "release"}
                       /\ pc'[t] = "queued" <=> pc[t] = "queued"
  BY DEF Elsewhere, Bound
<1>3. OneInside'
  BY <1>2 DEF SemaInv, OneInside, Elsewhere, semaVars
<1> QED BY <1>1, <1>3 DEF SemaInv

\* An ERROR leaves everything but the machine as it is.
LEMMA ErrorSema == ASSUME SemaInv, NEW code, Error(code) PROVE SemaInv'
BY DEF SemaInv, QueuedOnce, OneInside, Error, semaVars

\* A copy is made inside and stays inside until the release.
LEMMA CopySema ==
    ASSUME SemaInv, NEW t \in Tasks, pc[t] = "copy", Goto(t, "release"), UNCHANGED semaVars
    PROVE  SemaInv'
BY DEF SemaInv, QueuedOnce, OneInside, Goto, semaVars, Labels

\* acquire_semaphore: into a free semaphore, or to the end of the queue.
LEMMA AcquireSema == ASSUME SemaInv, NEW t \in Tasks, Acquire(t) PROVE SemaInv'
<1>1. /\ pc[t] = "acquire" /\ pc \in [Tasks -> Labels] /\ queue \in Seq(Tasks)
      /\ \A i \in 1..Len(queue) : queue[i] # t
  BY DEF Acquire, At, SemaInv, OneInside, ToSet
<1>2. CASE holder = NULL
  <2>1. holder' = t /\ pc' = [pc EXCEPT ![t] = "copy"] /\ UNCHANGED queue
    BY <1>2 DEF Acquire, Goto
  <2>2. \A u \in Tasks : pc[u] \notin {"copy", "release"}
    BY <1>2, PipeAssumption DEF SemaInv, OneInside, Tasks
  <2> QED BY <1>1, <2>1, <2>2 DEF SemaInv, QueuedOnce, OneInside, Labels
<1>3. CASE holder # NULL
  <2>1. queue' = Append(queue, t) /\ pc' = [pc EXCEPT ![t] = "queued"] /\ UNCHANGED holder
    BY <1>3 DEF Acquire, Goto
  <2>2. /\ queue' \in Seq(Tasks) /\ Len(queue') = Len(queue) + 1
        /\ \A i \in 1..Len(queue) : queue'[i] = queue[i]
        /\ queue'[Len(queue) + 1] = t
    BY <1>1, <2>1
  <2>3. QueuedOnce'
    BY <1>1, <2>2 DEF SemaInv, QueuedOnce
  <2>4. \A u \in Tasks : u \in ToSet(queue') <=> u \in ToSet(queue) \/ u = t
    BY <1>1, <2>2 DEF ToSet
  <2>5. OneInside'
    BY <1>1, <2>1, <2>4 DEF SemaInv, OneInside
  <2> QED BY <1>1, <2>1, <2>2, <2>3, <2>5 DEF SemaInv, Labels
<1> QED BY <1>2, <1>3

\* release_semaphore: the first task of the queue, which is there only once, comes in.
LEMMA ReleaseSema == ASSUME SemaInv, NEW t \in Tasks, Release(t) PROVE SemaInv'
<1> DEFINE next == AfterRelease(t)
<1>1. pc[t] = "release" /\ holder = t /\ pc \in [Tasks -> Labels] /\ queue \in Seq(Tasks)
  BY DEF Release, At, SemaInv, OneInside
<1>2. next \in Labels \ Bound
  BY DEF AfterRelease, Labels, Bound
<1> HIDE DEF next
<1>3. CASE queue = <<>>
  <2>1. holder' = NULL /\ pc' = [pc EXCEPT ![t] = next] /\ UNCHANGED queue
    BY <1>3 DEF Release, Goto, next
  <2>2. \A u \in Tasks : u # t => pc[u] \notin {"copy", "release"}
    BY <1>1 DEF SemaInv, OneInside
  <2> QED BY <1>1, <1>2, <2>1, <2>2, PipeAssumption DEF SemaInv, QueuedOnce, OneInside, Bound, Tasks
<1>4. CASE queue # <<>>
  <2> DEFINE first == queue[1]
  <2>1. first \in Tasks /\ pc[first] = "queued" /\ first # t
    <3>1. first \in Tasks /\ first \in ToSet(queue)
      BY <1>1, <1>4 DEF ToSet
    <3> QED BY <1>1, <3>1 DEF SemaInv, OneInside
  <2>2. /\ holder' = first /\ queue' = Tail(queue)
        /\ pc' = [pc EXCEPT ![t] = next, ![first] = "copy"]
    BY <1>1, <1>4 DEF Release, next
  <2>3. /\ queue' \in Seq(Tasks) /\ Len(queue') = Len(queue) - 1
        /\ \A i \in 1..Len(queue') : queue'[i] = queue[i + 1] /\ i + 1 \in 1..Len(queue)
    BY <1>1, <1>4, <2>2
  <2>4. QueuedOnce'
    BY <1>1, <2>3 DEF SemaInv, QueuedOnce
  <2>5. \A u \in Tasks : u \in ToSet(queue') <=> u \in ToSet(queue) /\ u # first
    <3>1. ASSUME NEW i \in 1..Len(queue') PROVE queue'[i] # first
      <4>1. /\ 1 \in 1..Len(queue) /\ i + 1 \in 1..Len(queue) /\ i + 1 # 1
            /\ queue'[i] = queue[i + 1]
        BY <1>1, <1>4, <2>3
      <4> QED BY <4>1 DEF SemaInv, QueuedOnce
    <3>2. ASSUME NEW i \in 1..Len(queue), queue[i] # first
          PROVE  i - 1 \in 1..Len(queue') /\ queue'[i - 1] = queue[i]
      BY <1>1, <1>4, <2>3, <3>2
    <3> HIDE DEF first
    <3>3. ASSUME NEW u \in ToSet(queue') PROVE u \in ToSet(queue) /\ u # first
      BY <1>1, <2>3, <3>1, <3>3 DEF ToSet
    <3>4. ASSUME NEW u \in ToSet(queue), u # first PROVE u \in ToSet(queue')
      BY <1>1, <2>3, <3>2, <3>4 DEF ToSet
    <3> QED BY <3>3, <3>4
  <2>6. \A u \in Tasks : pc'[u] = IF u = first THEN "copy" ELSE IF u = t THEN next ELSE pc[u]
    BY <1>1, <2>1, <2>2
  <2>7. OneInside'
    <3> HIDE DEF first
    <3> QED BY <1>1, <1>2, <2>1, <2>2, <2>5, <2>6 DEF SemaInv, OneInside, Bound
  <2> QED BY <1>1, <1>2, <2>1, <2>2, <2>3, <2>4, <2>7 DEF SemaInv, Labels
<1> QED BY <1>3, <1>4

\* Everything else happens outside the semaphore, or is the ERROR of PokeT or wfPokeT.
LEMMA MoveSema ==
    ASSUME SemaInv, NEW t \in Tasks,
           \/ Call(t) \/ TestWaiter(t) \/ Poke(t) \/ Sleep(t) \/ WfPoke(t) \/ WfPokeBlock(t)
    PROVE  SemaInv'
<1> USE DEF At, Goto, Labels, Bound, Elsewhere, historyVars
<1> DEFINE Stops == \E code \in {"TASK_BADUNBLOCK", "POKE_NULLP"} : Error(code)
<1>0. pc \in [Tasks -> Labels]
  BY DEF SemaInv
<1> SUFFICES Stops \/ Elsewhere
  BY ElsewhereSema, ErrorSema
<1>1. CASE Call(t)        BY <1>0, <1>1 DEF Call
<1>2. CASE TestWaiter(t)  BY <1>0, <1>2 DEF TestWaiter
<1>3. CASE Poke(t)
  <2>1. Continue(t) \in Labels \ Bound
    BY DEF Continue
  <2> QED BY <1>0, <1>3, <2>1 DEF Poke
<1>4. CASE Sleep(t)
  <2>1. Continue(t) \in Labels \ Bound
    BY DEF Continue
  <2> QED BY <1>0, <1>4, <2>1 DEF Sleep
<1>5. CASE WfPoke(t)      BY <1>0, <1>5 DEF WfPoke
<1>6. CASE WfPokeBlock(t) BY <1>0, <1>6 DEF WfPokeBlock
<1> QED BY <1>1, <1>2, <1>3, <1>4, <1>5, <1>6

-----------------------------------------------------------------------------
(***************************************************************************)
(* The bytes.  The chunks are windows on the bytes sent; the first one     *)
(* starts where the bytes received end, the last one ends where they do.   *)
(***************************************************************************)
Laid(start, cs, all, out) ==
    /\ start \in [1..(Len(cs) + 1) -> Nat]
    /\ start[1] = Len(out) /\ start[Len(cs) + 1] = Len(all)
    /\ Windowed(cs, start, all)

InOrder ==
    /\ Len(received) <= Len(sent)
    /\ \A k \in 1..Len(received) : received[k] = sent[k]
    /\ \E start : Laid(start, chunks, sent, received)

\* A reader that goes to the chunks still wants bytes: with nothing left to read STDINStream
\* would take the chunk for an empty one and free it.
Wants ==
    \A t \in Tasks :
        /\ pc[t] = "wfPoke" => t \in Readers
        /\ t \in Readers /\ pc[t] \in {"acquire", "queued", "copy", "wfPoke", "listed", "blocked"}
              => len[t] > 0

\* A call of WRITE is within the bytes a writer may still write.
Budget == \A w \in Writers : Cardinality(BytesOf(w)) + len[w] <= MaxBytes

BytesInv == SemaInv /\ ChunksFull /\ Wants /\ Budget /\ InOrder

\* No byte is copied.
Quiet == UNCHANGED <<chunks, historyVars>>

\* Nothing is sent, and the only chunk is empty.
LEMMA InitBytes == Init => BytesInv
<1> SUFFICES ASSUME Init PROVE BytesInv
  OBVIOUS
<1>1. TypeOK
  BY PipeAssumption DEF Init, TypeOK, Tasks, Labels
<1>2. ChunksFull
  BY <1>1, PipeAssumption DEF Init, ChunksFull
<1>3. Wants
  BY DEF Init, Wants
<1>4. Budget
  <2>1. \A w \in Writers : BytesOf(w) = {}
    BY DEF Init, BytesOf
  <2>2. Cardinality({}) = 0
    BY FS_EmptySet
  <2>3. \A w \in Writers : len[w] = 0
    BY DEF Init, Tasks
  <2> QED BY <2>1, <2>2, <2>3, PipeAssumption DEF Budget
<1>5. InOrder
  <2>1. Laid([i \in 1..2 |-> 0], << <<>> >>, <<>>, <<>>)
    BY DEF Laid, Windowed
  <2> QED BY <2>1 DEF Init, InOrder
<1> QED BY <1>1, <1>2, <1>3, <1>4, <1>5, InitSema DEF BytesInv

\* Where no byte is copied, the chunks stay as they were.
LEMMA QuietBytes ==
    ASSUME BytesInv, SemaInv', Quiet, Wants', Budget',
           waiter' \in Readers \cup {NULL}, len' \in [Tasks -> 0..MaxLen],
           relent' \in [Tasks -> BOOLEAN], holder' \in Tasks \cup {NULL},
           fault' \in {"none", "TASK_BADUNBLOCK", "POKE_NULLP", "TWO_HOLDERS"}
    PROVE  BytesInv'
<1>1. TypeOK'
  BY DEF BytesInv, ChunksFull, TypeOK, SemaInv, Quiet, historyVars
<1>2. ChunksFull'
  BY <1>1 DEF BytesInv, ChunksFull, Quiet
<1>3. InOrder'
  BY DEF BytesInv, InOrder, Quiet, historyVars
<1> QED BY <1>2, <1>3 DEF BytesInv

\* An ERROR copies nothing.
LEMMA ErrorBytes ==
    ASSUME BytesInv, NEW code \in {"TASK_BADUNBLOCK", "POKE_NULLP"}, Error(code)
    PROVE  BytesInv'
<1>1. Wants' /\ Budget' /\ Quiet
  BY DEF BytesInv, Wants, Budget, BytesOf, Error, Quiet, historyVars
<1>2. SemaInv'
  BY ErrorSema DEF BytesInv
<1> QED BY <1>1, <1>2, QuietBytes DEF BytesInv, ChunksFull, TypeOK, Error, semaVars

\* READ and WRITE up to and after the semaphore.
LEMMA CallBytes == ASSUME BytesInv, NEW t \in Tasks, Call(t) PROVE BytesInv'
<1>1. PICK n \in 1..MaxLen :
        /\ t \in Writers => Cardinality(BytesOf(t)) + n <= MaxBytes
        /\ len' = [len EXCEPT ![t] = n]
  BY DEF Call
<1>2. pc' = [pc EXCEPT ![t] = "acquire"] /\ Quiet /\ UNCHANGED <<semaVars, waiter, relent, fault>>
  BY DEF Call, Goto, Quiet
<1>3. TypeOK
  BY DEF BytesInv, ChunksFull
<1>4. len' \in [Tasks -> 0..MaxLen]
  BY <1>1, <1>3, PipeAssumption DEF TypeOK
<1>5. Wants'
  BY <1>1, <1>2, <1>3, PipeAssumption DEF BytesInv, Wants, TypeOK
<1>6. Budget'
  BY <1>1, <1>2, <1>3, PipeAssumption DEF BytesInv, Budget, BytesOf, TypeOK, Quiet, historyVars, Tasks
<1>7. SemaInv'
  BY MoveSema DEF BytesInv
<1> QED BY <1>2, <1>3, <1>4, <1>5, <1>6, <1>7, QuietBytes DEF TypeOK, semaVars

LEMMA AcquireBytes == ASSUME BytesInv, NEW t \in Tasks, Acquire(t) PROVE BytesInv'
<1>1. /\ pc[t] = "acquire" /\ Quiet /\ UNCHANGED <<waiter, len, relent, fault>>
      /\ holder' \in {holder, t}
      /\ \E label \in {"copy", "queued"} : pc' = [pc EXCEPT ![t] = label]
  BY DEF Acquire, At, Goto, Quiet
<1>2. TypeOK
  BY DEF BytesInv, ChunksFull
<1>3. Wants'
  BY <1>1, <1>2 DEF BytesInv, Wants, TypeOK
<1>4. Budget'
  BY <1>1 DEF BytesInv, Budget, BytesOf, Quiet, historyVars
<1>5. SemaInv'
  BY AcquireSema DEF BytesInv
<1> QED BY <1>1, <1>2, <1>3, <1>4, <1>5, QuietBytes DEF TypeOK

LEMMA ReleaseBytes == ASSUME BytesInv, NEW t \in Tasks, Release(t) PROVE BytesInv'
<1> DEFINE next == AfterRelease(t)
<1>1. /\ pc[t] = "release" /\ Quiet /\ UNCHANGED <<waiter, len, relent>>
      /\ holder' \in Tasks \cup {NULL} /\ fault' \in {fault, "none", "TWO_HOLDERS"}
      /\ \/ pc' = [pc EXCEPT ![t] = next]
         \/ \E u \in Tasks : pc[u] = "queued" /\ pc' = [pc EXCEPT ![t] = next, ![u] = "copy"]
  <2>1. pc[t] = "release" /\ Quiet /\ UNCHANGED <<waiter, len, relent>>
    BY DEF Release, At, Quiet
  <2>2. CASE queue = <<>>
    BY <2>1, <2>2 DEF Release, Goto
  <2>3. CASE queue # <<>>
    <3>1. Head(queue) \in Tasks /\ pc[Head(queue)] = "queued"
      <4>1. Head(queue) \in Tasks /\ Head(queue) \in ToSet(queue)
        BY <2>3 DEF ToSet, BytesInv, SemaInv
      <4> QED BY <4>1 DEF BytesInv, SemaInv, OneInside
    <3> QED BY <2>1, <2>3, <3>1 DEF Release, HandOverFaults
  <2> QED BY <2>1, <2>2, <2>3
<1>2. TypeOK
  BY DEF BytesInv, ChunksFull
<1>3. /\ next = "wfPoke" => t \in Readers
      /\ t \in Readers => (next = "idle" \/ len[t] > 0)
      /\ next \in Labels
  BY <1>2, PipeAssumption DEF AfterRelease, Tasks, Labels, TypeOK
<1> HIDE DEF next
<1>4. Wants'
  BY <1>1, <1>2, <1>3 DEF BytesInv, Wants, TypeOK
<1>5. Budget'
  BY <1>1 DEF BytesInv, Budget, BytesOf, Quiet, historyVars
<1>6. SemaInv'
  BY ReleaseSema DEF BytesInv
<1> QED BY <1>1, <1>2, <1>4, <1>5, <1>6, QuietBytes DEF TypeOK

\* The pokes and the sleep of a writer, and a reader that waits for a poke.
LEMMA PokeBytes ==
    ASSUME BytesInv, NEW t \in Tasks,
           TestWaiter(t) \/ Poke(t) \/ Sleep(t) \/ WfPoke(t) \/ WfPokeBlock(t)
    PROVE  BytesInv'
<1> USE DEF At, Goto, historyVars
<1>1. TypeOK /\ SemaInv'
  BY MoveSema DEF BytesInv, ChunksFull
<1> DEFINE Stops == \E code \in {"TASK_BADUNBLOCK", "POKE_NULLP"} : Error(code)
           Goes  == /\ Quiet /\ UNCHANGED <<holder, len, fault>> /\ Wants'
                    /\ waiter' \in Readers \cup {NULL} /\ relent' \in [Tasks -> BOOLEAN]
<1>2. ASSUME Goes PROVE BytesInv'
  <2>1. Budget'
    BY <1>2 DEF BytesInv, Budget, BytesOf, Quiet
  <2> QED BY <1>1, <1>2, <2>1, QuietBytes DEF TypeOK
<1> SUFFICES Stops \/ Goes
  BY <1>2, ErrorBytes
<1> USE DEF Quiet, semaVars
<1>3. CASE TestWaiter(t)
  BY <1>1, <1>3 DEF TestWaiter, BytesInv, Wants, TypeOK
<1>4. CASE Poke(t)
  <2>1. Continue(t) = "idle" \/ (Continue(t) = "acquire" /\ len[t] > 0)
    BY DEF Continue
  <2>2. CASE waiter = NULL
    BY <1>1, <1>4, <2>1, <2>2 DEF Poke, BytesInv, Wants, TypeOK
  <2>3. CASE waiter # NULL /\ pc[waiter] # "blocked"
    BY <1>4, <2>3 DEF Poke
  <2>4. CASE waiter # NULL /\ pc[waiter] = "blocked"
    <3>1. /\ pc' = [pc EXCEPT ![t] = Continue(t), ![waiter] = "acquire"] /\ waiter' = NULL
          /\ UNCHANGED <<chunks, holder, len, relent, sent, received, fault>>
      BY <1>4, <2>4 DEF Poke
    <3>2. waiter \in Tasks /\ len[waiter] > 0
      BY <1>1, <2>4 DEF TypeOK, Tasks, BytesInv, Wants
    <3>3. Wants'
      <4> HIDE DEF Quiet
      <4> QED BY <1>1, <2>1, <3>1, <3>2 DEF BytesInv, Wants, TypeOK
    <3> QED BY <1>1, <3>1, <3>3 DEF TypeOK
  <2> QED BY <2>2, <2>3, <2>4
<1>5. CASE Sleep(t)
  <2>1. Continue(t) = "idle" \/ (Continue(t) = "acquire" /\ len[t] > 0)
    BY DEF Continue
  <2> QED BY <1>1, <1>5, <2>1 DEF Sleep, BytesInv, Wants, TypeOK
<1>6. CASE WfPoke(t)
  <2>1. CASE waiter # NULL
    BY <1>6, <2>1 DEF WfPoke
  <2>2. CASE waiter = NULL
    <3>1. /\ pc[t] = "wfPoke" /\ waiter' = t /\ relent' = [relent EXCEPT ![t] = FALSE]
          /\ pc' = [pc EXCEPT ![t] = "listed"]
          /\ UNCHANGED <<chunks, holder, len, sent, received, fault>>
      BY <1>6, <2>2 DEF WfPoke
    <3> QED BY <1>1, <3>1 DEF BytesInv, Wants, TypeOK
  <2> QED BY <2>1, <2>2
<1>7. CASE WfPokeBlock(t)
  BY <1>1, <1>7 DEF WfPokeBlock, BytesInv, Wants, TypeOK
<1> QED BY <1>3, <1>4, <1>5, <1>6, <1>7

\* What CopyIn copies: so many bytes of w as fit and are left.
LEMMA NextBytesType ==
    ASSUME BytesInv, NEW w \in Writers, NEW n \in Nat, n <= len[w]
    PROVE  /\ NextBytes(w, n) \in Seq(Bytes) /\ Len(NextBytes(w, n)) = n
           /\ \A i \in 1..n : NextBytes(w, n)[i][1] = w
           /\ Cardinality(BytesOf(w)) \in Nat
<1>1. sent \in Seq(Bytes) /\ len[w] \in Nat
  BY PipeAssumption DEF BytesInv, ChunksFull, TypeOK, Tasks
<1>2. IsFiniteSet(BytesOf(w))
  <2>1. IsFiniteSet(1..Len(sent))
    BY <1>1, FS_Interval
  <2> QED BY <2>1, FS_Subset DEF BytesOf
<1>3. Cardinality(BytesOf(w)) \in Nat
  BY <1>2, FS_CardinalityType
<1>4. ASSUME NEW i \in 1..n PROVE <<w, Cardinality(BytesOf(w)) + i>> \in Bytes
  <2>1. Cardinality(BytesOf(w)) + i \in 1..MaxBytes
    BY <1>1, <1>3, PipeAssumption DEF BytesInv, Budget
  <2> QED BY <2>1 DEF Bytes
<1> QED BY <1>3, <1>4 DEF NextBytes

\* An interval of n numbers has n elements.
LEMMA Behind ==
    ASSUME NEW a \in Nat, NEW n \in Nat
    PROVE  IsFiniteSet((a + 1)..(a + n)) /\ Cardinality((a + 1)..(a + n)) = n
BY FS_Interval

\* The bytes of w are counted: what it sends comes behind what was there.
LEMMA SentBudget ==
    ASSUME BytesInv, NEW w \in Writers, NEW n \in Nat, n <= len[w],
           Len(sent') = Len(sent) + n, len' = [len EXCEPT ![w] = @ - n],
           \A i \in 1..Len(sent) : sent'[i] = sent[i],
           \A i \in (Len(sent) + 1)..(Len(sent) + n) : sent'[i][1] = w
    PROVE  Budget'
<1>1. \A u \in Writers : Cardinality(BytesOf(u)) \in Nat
  <2>1. \A u \in Writers : 0 <= len[u]
    BY PipeAssumption DEF BytesInv, ChunksFull, TypeOK, Tasks
  <2> QED BY <2>1, NextBytesType
<1>2. sent \in Seq(Bytes) /\ len \in [Tasks -> 0..MaxLen]
  BY DEF BytesInv, ChunksFull, TypeOK
<1>3. ASSUME NEW u \in Writers PROVE Cardinality(BytesOf(u))' + len'[u] <= MaxBytes
  <2>1. CASE u = w
    <3> DEFINE new == (Len(sent) + 1)..(Len(sent) + n)
    <3>1. BytesOf(w)' = BytesOf(w) \cup new
      BY <1>2 DEF BytesOf
    <3>2. BytesOf(w) \cap new = {}
      BY <1>2 DEF BytesOf
    <3>3. IsFiniteSet(new) /\ Cardinality(new) = n
      BY <1>2, Behind
    <3>4. IsFiniteSet(BytesOf(w))
      <4>1. IsFiniteSet(1..Len(sent))
        BY <1>2, FS_Interval
      <4> QED BY <4>1, FS_Subset DEF BytesOf
    <3> HIDE DEF new
    <3>5. Cardinality(BytesOf(w) \cup new) = Cardinality(BytesOf(w)) + n
      <4>1. Cardinality(BytesOf(w) \cup new)
              = Cardinality(BytesOf(w)) + Cardinality(new) - Cardinality(BytesOf(w) \cap new)
        BY <3>3, <3>4, FS_Union
      <4>2. Cardinality({}) = 0
        BY FS_EmptySet
      <4>3. Cardinality(BytesOf(w)) \in Nat
        BY <1>1
      <4>4. Cardinality(BytesOf(w) \cup new) = Cardinality(BytesOf(w)) + n - 0
        BY <3>2, <3>3, <4>1, <4>2
      <4> QED BY <4>3, <4>4
    <3>6. len'[w] = len[w] - n
      BY <1>2 DEF Tasks
    <3>7. Cardinality(BytesOf(w)) + len[w] <= MaxBytes
      BY DEF BytesInv, Budget
    <3> QED BY <1>1, <1>2, <2>1, <3>1, <3>5, <3>6, <3>7, PipeAssumption DEF Tasks
  <2>2. CASE u # w
    <3>1. BytesOf(u)' = BytesOf(u)
      BY <1>2, <2>2 DEF BytesOf
    <3>2. len'[u] = len[u]
      BY <1>2, <2>2 DEF Tasks
    <3> QED BY <3>1, <3>2 DEF BytesInv, Budget
  <2> QED BY <2>1, <2>2
<1> QED BY <1>3 DEF Budget

\* STDOUTStream: the chunks go on where the bytes sent end.
LEMMA CopyInBytes ==
    ASSUME BytesInv, NEW w \in Tasks, CopyIn(w)
    PROVE  BytesInv' /\ (Queue!Put \/ UNCHANGED <<sent, received>>)
<1> DEFINE n == Least(Room, len[w])
           bytes == NextBytes(w, n)
           L == Len(chunks)
<1>1. /\ w \in Writers /\ pc[w] = "copy" /\ pc' = [pc EXCEPT ![w] = "release"]
      /\ chunks' = Filled(bytes) /\ sent' = sent \o bytes /\ len' = [len EXCEPT ![w] = @ - Len(bytes)]
      /\ UNCHANGED <<holder, queue, waiter, relent, received, fault>>
  BY DEF CopyIn, At, Goto, semaVars
<1>2. TypeOK
  BY DEF BytesInv, ChunksFull
<1>3. /\ chunks \in Seq(Seq(Bytes)) /\ chunks # <<>> /\ L \in Nat \ {0}
      /\ chunks[L] \in Seq(Bytes) /\ Len(chunks[L]) \in 0..ChunkSize
  <2>1. chunks \in Seq(Seq(Bytes)) /\ chunks # <<>>
    BY <1>2 DEF TypeOK
  <2>2. L \in Nat \ {0} /\ L \in 1..L
    BY <2>1
  <2>3. Len(chunks[L]) <= ChunkSize
    BY <2>2 DEF BytesInv, ChunksFull
  <2> QED BY <2>1, <2>2, <2>3, PipeAssumption
<1>4. /\ n \in Nat /\ n <= len[w] /\ len[w] \in 0..MaxLen /\ n <= ChunkSize
      /\ Len(chunks[L]) < ChunkSize => Len(chunks[L]) + n <= ChunkSize
  BY <1>2, <1>3, PipeAssumption DEF Least, Room, TypeOK, Last
<1>5. bytes \in Seq(Bytes) /\ Len(bytes) = n
  BY <1>1, <1>4, NextBytesType
<1> HIDE DEF n, bytes
<1>6. sent \in Seq(Bytes) /\ sent' \in Seq(Bytes) /\ Len(sent') = Len(sent) + n /\ received \in Seq(Bytes)
  <2>1. sent \in Seq(Bytes) /\ received \in Seq(Bytes)
    BY <1>2 DEF TypeOK
  <2> QED BY <1>1, <1>5, <2>1, Concat
<1>7. /\ \A k \in 1..Len(sent) : sent'[k] = sent[k]
      /\ Len(sent) \in Nat /\ Len(received') <= Len(sent')
      /\ \A k \in 1..Len(received') : received'[k] = sent'[k]
  <2>1. \A k \in 1..Len(sent) : sent'[k] = sent[k]
    BY <1>1, <1>5, <1>6, Concat
  <2>2. Len(received) <= Len(sent) /\ \A k \in 1..Len(received) : received[k] = sent[k]
    BY DEF BytesInv, InOrder
  <2>3. Len(sent) \in Nat /\ Len(received) \in Nat
    BY <1>6
  <2>4. \A k \in 1..Len(received) : k \in 1..Len(sent)
    BY <2>2, <2>3
  <2> QED BY <1>1, <1>4, <1>6, <2>1, <2>2, <2>3, <2>4
<1>8. PICK start : Laid(start, chunks, sent, received)
  BY DEF BytesInv, InOrder
<1>9. /\ start \in [1..(L + 1) -> Nat] /\ Windowed(chunks, start, sent)
      /\ start[1] = Len(received) /\ start[L + 1] = Len(sent)
  BY <1>8 DEF Laid
<1>10. /\ chunks' \in Seq(Seq(Bytes)) /\ chunks' # <<>>
       /\ \A i \in 1..Len(chunks') : Len(chunks'[i]) <= ChunkSize
       /\ \A i \in 2..(Len(chunks') - 1) : Len(chunks'[i]) = ChunkSize
       /\ \E start2 : Laid(start2, chunks', sent', received')
  <2>1. /\ \A i \in 1..L : Len(chunks[i]) <= ChunkSize
        /\ \A i \in 2..(L - 1) : Len(chunks[i]) = ChunkSize
    BY DEF BytesInv, ChunksFull
  <2>2. CASE Len(chunks[L]) < ChunkSize
    <3>1. chunks' = [chunks EXCEPT ![L] = @ \o bytes]
      BY <1>1, <2>2 DEF Filled, Last
    <3>2. chunks[L] \o bytes \in Seq(Bytes) /\ Len(chunks[L] \o bytes) = Len(chunks[L]) + n
      <4>1. chunks[L] \in Seq(Bytes) /\ bytes \in Seq(Bytes) /\ Len(bytes) = n
        BY <1>3, <1>5
      <4> HIDE DEF L
      <4> QED BY <4>1, Concat
    <3>3. /\ chunks' \in Seq(Seq(Bytes)) /\ Len(chunks') = L /\ Len(chunks'[L]) = Len(chunks[L]) + n
          /\ \A i \in 1..L : i # L => chunks'[i] = chunks[i]
      BY <1>3, <3>1, <3>2
    <3>4. /\ \A i \in 1..L : Len(chunks'[i]) <= ChunkSize
          /\ \A i \in 2..(L - 1) : Len(chunks'[i]) = ChunkSize
      <4>1. \A i \in 2..(L - 1) : i \in 1..L /\ i # L
        BY <1>3
      <4> QED BY <1>4, <2>1, <2>2, <3>3, <4>1
    <3> DEFINE start2 == [start EXCEPT ![L + 1] = @ + Len(bytes)]
    <3>5. /\ start2 \in [1..(L + 1) -> Nat] /\ start2[L + 1] = Len(sent) + n
          /\ start2[1] = Len(received)
      BY <1>3, <1>4, <1>5, <1>9
    <3>6. Windowed(chunks', start2, sent')
      <4> HIDE DEF L
      <4>1. start[Len(chunks) + 1] = Len(sent)
        BY <1>9 DEF L
      <4>2. Windowed([chunks EXCEPT ![Len(chunks)] = @ \o bytes],
                     [start EXCEPT ![Len(chunks) + 1] = @ + Len(bytes)], sent \o bytes)
        BY <1>3, <1>5, <1>6, <1>9, <4>1, GrowLast DEF L
      <4> QED BY <1>1, <3>1, <4>2 DEF L
    <3> HIDE DEF start2
    <3>7. Laid(start2, chunks', sent', received')
      BY <1>1, <1>6, <3>3, <3>5, <3>6 DEF Laid
    <3>8. chunks' # <<>>
      BY <1>3, <3>3
    <3> QED BY <3>3, <3>4, <3>7, <3>8
  <2>3. CASE ~(Len(chunks[L]) < ChunkSize)
    <3>1. chunks' = Append(chunks, bytes)
      BY <1>1, <2>3 DEF Filled, Last
    <3>2. /\ chunks' \in Seq(Seq(Bytes)) /\ Len(chunks') = L + 1 /\ chunks'[L + 1] = bytes
          /\ \A i \in 1..L : chunks'[i] = chunks[i]
      BY <1>3, <1>5, <3>1
    <3>3. Len(chunks[L]) = ChunkSize
      BY <1>3, <2>3, PipeAssumption
    <3>4. /\ \A i \in 1..(L + 1) : Len(chunks'[i]) <= ChunkSize
          /\ \A i \in 2..L : Len(chunks'[i]) = ChunkSize
      <4>1. \A i \in 1..(L + 1) : i = L + 1 \/ i \in 1..L
        BY <1>3
      <4>2. \A i \in 2..L : i \in 1..L /\ (i = L \/ i \in 2..(L - 1))
        BY <1>3
      <4> QED BY <1>4, <1>5, <2>1, <3>2, <3>3, <4>1, <4>2
    <3> DEFINE start2 == [i \in 1..(L + 2) |-> IF i = L + 2 THEN Len(sent) + Len(bytes) ELSE start[i]]
    <3>5. /\ start2 \in [1..(L + 2) -> Nat] /\ start2[L + 2] = Len(sent) + n
          /\ start2[1] = Len(received)
      <4>1. \A i \in 1..(L + 2) : i # L + 2 => start[i] \in Nat
        BY <1>3, <1>9
      <4> QED BY <1>3, <1>4, <1>5, <1>7, <1>9, <4>1
    <3>6. Windowed(chunks', start2, sent')
      BY <1>1, <1>3, <1>5, <1>6, <1>9, <3>1, GrowNew
    <3> HIDE DEF start2
    <3>7. (L + 1) + 1 = L + 2 /\ (L + 1) - 1 = L
      BY <1>3
    <3>8. Laid(start2, chunks', sent', received')
      BY <1>1, <1>6, <3>2, <3>5, <3>6, <3>7 DEF Laid
    <3>9. chunks' # <<>>
      BY <1>3, <3>2
    <3> QED BY <3>2, <3>4, <3>7, <3>8, <3>9
  <2> QED BY <2>2, <2>3
<1>11. InOrder'
  BY <1>7, <1>10 DEF InOrder
<1>12. SemaInv'
  BY <1>1, CopySema DEF BytesInv, Goto, semaVars
<1>13. len' \in [Tasks -> 0..MaxLen]
  <2>1. len[w] - n \in 0..MaxLen /\ len \in [Tasks -> 0..MaxLen]
    BY <1>2, <1>4, PipeAssumption DEF TypeOK
  <2> QED BY <1>1, <1>5, <2>1
<1>14. TypeOK'
  BY <1>1, <1>2, <1>6, <1>10, <1>12, <1>13 DEF TypeOK, SemaInv
<1>15. ChunksFull'
  BY <1>10, <1>14 DEF ChunksFull
<1>16. Wants'
  BY <1>1, <1>2, PipeAssumption DEF BytesInv, Wants, TypeOK
<1>17. Budget'
  <2>1. \A i \in 1..n : bytes[i][1] = w
    BY <1>1, <1>4, NextBytesType DEF bytes
  <2>2. \A i \in (Len(sent) + 1)..(Len(sent) + n) :
           i - Len(sent) \in 1..n /\ i = Len(sent) + (i - Len(sent))
    BY <1>4, <1>7
  <2>3. \A k \in 1..n : sent'[Len(sent) + k] = bytes[k]
    BY <1>1, <1>5, <1>6, Concat
  <2>4. \A i \in (Len(sent) + 1)..(Len(sent) + n) : sent'[i][1] = w
    BY <2>1, <2>2, <2>3
  <2>5. len' = [len EXCEPT ![w] = @ - n]
    BY <1>1, <1>5
  <2> QED BY <1>1, <1>4, <1>6, <1>7, <2>4, <2>5, SentBudget
<1>18. Queue!Put \/ UNCHANGED <<sent, received>>
  <2>1. CASE n = 0
    <3>1. bytes = <<>>
      BY <1>5, <2>1
    <3> QED BY <1>1, <1>6, <3>1
  <2>2. CASE n > 0
    <3>1. SubSeq(sent', 1, Len(sent)) = sent
      BY <1>6, <1>7
    <3>2. Len(sent') > Len(sent)
      BY <1>4, <1>6, <1>7, <2>2
    <3> QED BY <1>1, <3>1, <3>2 DEF Queue!Put
  <2> QED BY <1>4, <2>1, <2>2
<1> QED BY <1>11, <1>12, <1>15, <1>16, <1>17, <1>18 DEF BytesInv

\* STDINStream: what is taken is what comes next, and a chunk is only dropped when empty.
LEMMA CopyOutBytes ==
    ASSUME BytesInv, NEW r \in Tasks, CopyOut(r)
    PROVE  BytesInv' /\ (Queue!Take \/ UNCHANGED <<sent, received>>)
<1> DEFINE head == chunks[1]
           n == Least(Len(head), len[r])
           L == Len(chunks)
<1>1. TypeOK
  BY DEF BytesInv, ChunksFull
<1>2. /\ chunks \in Seq(Seq(Bytes)) /\ chunks # <<>> /\ L \in Nat \ {0} /\ 1 \in 1..L
      /\ head \in Seq(Bytes) /\ Len(head) \in Nat /\ Head(chunks) = head
      /\ sent \in Seq(Bytes) /\ received \in Seq(Bytes) /\ len \in [Tasks -> 0..MaxLen]
  BY <1>1 DEF TypeOK
<1>3. /\ r \in Readers /\ pc[r] = "copy" /\ pc' = [pc EXCEPT ![r] = "release"]
      /\ UNCHANGED <<holder, queue, waiter, sent, fault>>
      /\ n = 0 => /\ chunks' = IF OnlyChunk THEN chunks ELSE Tail(chunks)
                  /\ relent' = [relent EXCEPT ![r] = OnlyChunk] /\ UNCHANGED <<len, received>>
      /\ n # 0 => /\ chunks' = [chunks EXCEPT ![1] = Kept(head, n)]
                  /\ received' = received \o SubSeq(head, 1, n)
                  /\ len' = [len EXCEPT ![r] = @ - n] /\ UNCHANGED relent
  BY <1>2 DEF CopyOut, At, Goto, semaVars
<1>4. len[r] > 0 /\ len[r] \in 0..MaxLen
  BY <1>2, <1>3 DEF BytesInv, Wants
<1>5. n \in Nat /\ n <= Len(head) /\ n <= len[r] /\ (n = 0 => Len(head) = 0)
  BY <1>2, <1>4, PipeAssumption DEF Least
<1> HIDE DEF n
<1>6. PICK start : Laid(start, chunks, sent, received)
  BY DEF BytesInv, InOrder
<1>7. /\ start \in [1..(L + 1) -> Nat] /\ Windowed(chunks, start, sent)
      /\ start[1] = Len(received) /\ start[L + 1] = Len(sent)
      /\ Len(received) <= Len(sent) /\ \A k \in 1..Len(received) : received[k] = sent[k]
  BY <1>6 DEF Laid, BytesInv, InOrder
<1>8. \A j \in 1..Len(head) : /\ Len(received) + j \in 1..Len(sent)
                              /\ head[j] = sent[Len(received) + j]
  BY <1>2, <1>7 DEF Windowed
<1>9. /\ \A i \in 1..L : Len(chunks[i]) <= ChunkSize
      /\ \A i \in 2..(L - 1) : Len(chunks[i]) = ChunkSize
  BY DEF BytesInv, ChunksFull
<1>10. SemaInv'
  BY <1>3, CopySema DEF BytesInv, Goto, semaVars
<1>11. CASE n = 0
  <2>1. UNCHANGED <<len, received, sent>> /\ relent' \in [Tasks -> BOOLEAN]
    BY <1>1, <1>3, <1>11 DEF TypeOK, OnlyChunk
  <2>2. Wants' /\ Budget'
    <3>1. Wants'
      BY <1>1, <1>3, <2>1 DEF BytesInv, Wants, TypeOK
    <3>2. Budget'
      BY <2>1 DEF BytesInv, Budget, BytesOf
    <3> QED BY <3>1, <3>2
  <2>3. CASE OnlyChunk
    <3>1. UNCHANGED chunks
      BY <1>3, <1>11, <2>3
    <3>2. ChunksFull'
      BY <1>1, <1>3, <1>9, <1>10, <2>1, <3>1 DEF ChunksFull, TypeOK, SemaInv
    <3>3. InOrder'
      BY <2>1, <3>1 DEF BytesInv, InOrder
    <3> QED BY <1>10, <2>1, <2>2, <3>2, <3>3 DEF BytesInv
  <2>4. CASE ~OnlyChunk
    <3>1. chunks' = Tail(chunks)
      BY <1>3, <1>11, <2>4
    <3>2. L > 1
      <4>1. L \in Nat \ {0}
        BY <1>2
      <4>2. L # 1
        BY <2>4 DEF OnlyChunk
      <4> HIDE DEF L
      <4> QED BY <4>1, <4>2
    <3>3. /\ chunks' \in Seq(Seq(Bytes)) /\ Len(chunks') = L - 1
          /\ \A i \in 1..(L - 1) : chunks'[i] = chunks[i + 1]
      BY <1>2, <3>1
    <3>4. chunks' # <<>>
      BY <1>2, <3>2, <3>3
    <3>5. /\ \A i \in 1..(L - 1) : Len(chunks'[i]) <= ChunkSize
          /\ \A i \in 2..((L - 1) - 1) : Len(chunks'[i]) = ChunkSize
      <4>1. \A i \in 1..(L - 1) : i + 1 \in 1..L
        BY <1>2
      <4>2. \A i \in 2..((L - 1) - 1) : i \in 1..(L - 1) /\ i + 1 \in 2..(L - 1)
        BY <1>2
      <4> QED BY <1>9, <3>3, <4>1, <4>2
    <3>6. ChunksFull'
      BY <1>1, <1>3, <1>10, <2>1, <3>3, <3>4, <3>5 DEF ChunksFull, TypeOK, SemaInv
    <3> DEFINE start2 == [i \in 1..L |-> start[i + 1]]
    <3>7. /\ start2 \in [1..((L - 1) + 1) -> Nat] /\ start2[1] = Len(received)
          /\ start2[(L - 1) + 1] = Len(sent)
      <4>1. (L - 1) + 1 = L /\ L \in 1..L /\ \A i \in 1..L : i + 1 \in 1..(L + 1)
        BY <1>2
      <4>2. start[1 + 1] = start[1] + Len(head)
        BY <1>2, <1>7 DEF Windowed
      <4>3. start[1 + 1] = Len(received)
        BY <1>2, <1>5, <1>7, <1>11, <4>2
      <4> QED BY <1>2, <1>7, <4>1, <4>3
    <3>8. Windowed(chunks', start2, sent)
      BY <1>2, <1>7, <3>1, DropFirst
    <3> HIDE DEF start2
    <3>9. Laid(start2, chunks', sent', received')
      BY <2>1, <3>3, <3>7, <3>8 DEF Laid
    <3>10. InOrder'
      BY <1>7, <2>1, <3>9 DEF InOrder
    <3> QED BY <1>10, <2>1, <2>2, <3>6, <3>10 DEF BytesInv
  <2> QED BY <2>3, <2>4
<1>12. CASE n # 0
  <2> DEFINE taken == SubSeq(head, 1, n)
             kept == SubSeq(head, n + 1, Len(head))
  <2>1. n \in 0..Len(head)
    BY <1>2, <1>5
  <2>2. /\ kept \in Seq(Bytes) /\ Len(kept) = Len(head) - n
        /\ taken \in Seq(Bytes) /\ Len(taken) = n /\ \A i \in 1..n : taken[i] = head[i]
    BY <1>2, <2>1, Cut
  <2>3. chunks' = [chunks EXCEPT ![1] = kept] /\ received' = received \o taken
    BY <1>3, <1>12 DEF Kept
  <2> HIDE DEF kept, taken
  <2>4. /\ chunks' \in Seq(Seq(Bytes)) /\ chunks' # <<>> /\ Len(chunks') = L /\ chunks'[1] = kept
        /\ \A i \in 1..L : i # 1 => chunks'[i] = chunks[i]
    BY <1>2, <2>2, <2>3
  <2>5. /\ \A i \in 1..L : Len(chunks'[i]) <= ChunkSize
        /\ \A i \in 2..(L - 1) : Len(chunks'[i]) = ChunkSize
    <3>1. Len(kept) <= ChunkSize
      BY <1>2, <1>5, <1>9, <2>2, PipeAssumption
    <3>2. \A i \in 2..(L - 1) : i \in 1..L /\ i # 1
      BY <1>2
    <3> QED BY <1>9, <2>4, <3>1, <3>2
  <2>6. /\ received' \in Seq(Bytes) /\ Len(received') = Len(received) + n
        /\ \A k \in 1..Len(received) : received'[k] = received[k]
        /\ \A k \in 1..n : received'[Len(received) + k] = taken[k]
    <3>1. /\ Len(received \o taken) = Len(received) + Len(taken)
          /\ received \o taken \in Seq(Bytes)
          /\ \A k \in 1..Len(received) : (received \o taken)[k] = received[k]
          /\ \A k \in 1..Len(taken) : (received \o taken)[Len(received) + k] = taken[k]
      <4>1. received \in Seq(Bytes) /\ taken \in Seq(Bytes)
        BY <1>2, <2>2
      <4> HIDE DEF L, head
      <4> QED BY <4>1, Concat
    <3> QED BY <2>2, <2>3, <3>1
  <2>7. /\ Len(received) \in Nat /\ Len(received) + n \in 1..Len(sent)
        /\ \A k \in 1..(Len(received) + n) : received'[k] = sent[k]
    <3>1. Len(received) \in Nat /\ Len(received) + n \in 1..Len(sent)
      <4>1. n \in 1..Len(head)
        BY <1>2, <1>5, <1>12
      <4> QED BY <1>2, <1>8, <4>1
    <3>2. ASSUME NEW k \in 1..(Len(received) + n) PROVE received'[k] = sent[k]
      <4>1. CASE k \in 1..Len(received)
        BY <1>7, <2>6, <4>1
      <4>2. CASE k \notin 1..Len(received)
        <5>1. k - Len(received) \in 1..n /\ k = Len(received) + (k - Len(received))
          BY <1>5, <3>1, <4>2
        <5>2. k - Len(received) \in 1..Len(head)
          BY <1>2, <1>5, <5>1
        <5> QED BY <1>8, <2>2, <2>6, <5>1, <5>2
      <4> QED BY <4>1, <4>2
    <3> QED BY <3>1, <3>2
  <2>8. len' \in [Tasks -> 0..MaxLen] /\ UNCHANGED relent
    <3>1. len[r] - n \in 0..MaxLen
      BY <1>4, <1>5, PipeAssumption
    <3> QED BY <1>2, <1>3, <1>12, <3>1
  <2>9. ChunksFull'
    BY <1>1, <1>3, <1>10, <2>4, <2>5, <2>6, <2>8 DEF ChunksFull, TypeOK, SemaInv
  <2>10. Wants'
    BY <1>1, <1>3, <1>12, PipeAssumption DEF BytesInv, Wants, TypeOK
  <2>11. Budget'
    <3>1. \A w \in Writers : BytesOf(w)' = BytesOf(w) /\ len'[w] = len[w]
      BY <1>2, <1>3, <1>12, PipeAssumption DEF BytesOf, Tasks
    <3> QED BY <3>1 DEF BytesInv, Budget
  <2> DEFINE start2 == [start EXCEPT ![1] = @ + n]
  <2>12. /\ start2 \in [1..(L + 1) -> Nat] /\ start2[1] = Len(received) + n
         /\ start2[L + 1] = Len(sent)
    BY <1>2, <1>5, <1>7
  <2>13. Windowed(chunks', start2, sent)
    <3>1. Windowed([chunks EXCEPT ![1] = SubSeq(@, n + 1, Len(@))], start2, sent)
      BY <1>2, <1>7, <2>1, ShrinkFirst
    <3> QED BY <2>3, <3>1 DEF kept
  <2> HIDE DEF start2
  <2>14. Laid(start2, chunks', sent', received')
    BY <1>3, <2>4, <2>6, <2>12, <2>13 DEF Laid
  <2>15. InOrder'
    BY <1>2, <1>3, <2>6, <2>7, <2>14 DEF InOrder
  <2>16. Queue!Take
    <3>1. received' = SubSeq(sent, 1, Len(received) + n)
      <4>1. /\ SubSeq(sent, 1, Len(received) + n) \in Seq(Bytes)
            /\ Len(SubSeq(sent, 1, Len(received) + n)) = Len(received) + n
            /\ \A i \in 1..(Len(received) + n) : SubSeq(sent, 1, Len(received) + n)[i] = sent[i]
        BY <1>2, <2>7, Cut
      <4> QED BY <2>6, <2>7, <4>1
    <3>2. Len(received) + n \in (Len(received) + 1)..Len(sent)
      BY <1>5, <1>12, <2>7
    <3> QED BY <1>3, <3>1, <3>2 DEF Queue!Take
  <2> QED BY <1>10, <2>9, <2>10, <2>11, <2>15, <2>16 DEF BytesInv
<1> QED BY <1>11, <1>12

\* Every step keeps the bytes in order, and is one of the queue of bytes or none.
LEMMA NextBytesInv ==
    ASSUME BytesInv, [Next]_vars
    PROVE  BytesInv' /\ (Queue!Next \/ UNCHANGED <<sent, received>>)
<1>1. CASE UNCHANGED vars
  <2>1. SemaInv' /\ ChunksFull' /\ Wants' /\ Budget'
    BY <1>1 DEF vars, semaVars, historyVars, BytesInv, SemaInv, QueuedOnce, OneInside, ChunksFull,
       TypeOK, Wants, Budget, BytesOf
  <2>2. InOrder'
    BY <1>1 DEF vars, historyVars, BytesInv, InOrder
  <2> QED BY <1>1, <2>1, <2>2 DEF vars, historyVars, BytesInv
<1>2. CASE Halted
  BY <1>1, <1>2 DEF Halted
<1>3. ASSUME NEW t \in Tasks, Call(t) \/ Move(t)
      PROVE  BytesInv' /\ (Queue!Next \/ UNCHANGED <<sent, received>>)
  <2>1. CASE CopyIn(t)
    BY <2>1, CopyInBytes DEF Queue!Next
  <2>2. CASE CopyOut(t)
    BY <2>2, CopyOutBytes DEF Queue!Next
  <2>3. CASE /\ ~CopyIn(t) /\ ~CopyOut(t)
    <3>1. BytesInv'
      BY <1>3, <2>3, CallBytes, AcquireBytes, ReleaseBytes, PokeBytes DEF Move
    <3>2. UNCHANGED <<sent, received>>
      BY <1>3, <2>3 DEF Move, Call, Acquire, Release, TestWaiter, Poke, Sleep, WfPoke, WfPokeBlock,
         Error, historyVars
    <3> QED BY <3>1, <3>2
  <2> QED BY <2>1, <2>2, <2>3
<1> QED BY <1>1, <1>2, <1>3 DEF Next

\* The chunks of a pipe: full before the writers leave them, never too full, and the types
\* of everything else.
THEOREM ChunksFullCorrect == Spec => []ChunksFull
<1>1. BytesInv /\ [Next]_vars => BytesInv'
  BY NextBytesInv
<1>2. BytesInv => ChunksFull
  BY DEF BytesInv
<1> QED BY InitBytes, <1>1, <1>2, PTL DEF Spec

\* A pipe is a queue of bytes: whatever the readers and writers do at once, the bytes come
\* out as they went in, each once and in order, across chunks, calls and hand-overs.
THEOREM ImplementsQueueCorrect == Spec => ImplementsQueue
<1>1. Init => Queue!Init
  BY DEF Init, Queue!Init
<1>2. BytesInv /\ [Next]_vars => BytesInv' /\ [Queue!Next]_<<sent, received>>
  BY NextBytesInv
<1> QED BY InitBytes, <1>1, <1>2, PTL DEF Spec, ImplementsQueue, Queue!Spec

================================================================================
