------------------------------ MODULE PagesProofs ------------------------------
(***************************************************************************)
(* Pages, for memories, pools and tables of every size and any number of   *)
(* tasks: a task that runs finds its own half, no page has two owners, and *)
(* the pool of KPALLOC never runs dry.                                     *)
(*                                                                         *)
(* The memory is a record that the operators of Pages turn into another;   *)
(* what each of them keeps is said of such a record, of the pages in use   *)
(* outside the pool (Out) and of the physical pages the user halves map    *)
(* (U).  The chains of a refill and of a run are followed by induction     *)
(* over their steps.                                                       *)
(***************************************************************************)
EXTENDS Pages, WellFoundedInduction, FiniteSetTheorems, TLAPS

\* A set of numbers with 0 and every successor is all of them.
LEMMA Induction ==
    ASSUME NEW S, 0 \in S, \A n \in Nat : n \in S => n + 1 \in S
    PROVE  Nat \subseteq S
<1> SUFFICES ASSUME Nat \ S # {} PROVE FALSE
  OBVIOUS
<1>1. PICK x \in Nat \ S : \A y \in Nat \ S : <<y, x>> \notin OpToRel(<, Nat)
  BY WFMin, NatLessThanWellFounded
<1>2. \A y \in Nat \ S : ~(y < x)
  BY <1>1 DEF OpToRel
<1>3. x - 1 \in Nat
  OBVIOUS
<1> QED BY <1>2, <1>3

\* A set of numbers that is not empty has a lowest.
LEMMA LowestIs ==
    ASSUME NEW S \in SUBSET Nat, S # {}
    PROVE  Lowest(S) \in S /\ \A y \in S : Lowest(S) <= y
<1>1. PICK x \in S : \A y \in S : <<y, x>> \notin OpToRel(<, Nat)
  BY WFMin, NatLessThanWellFounded
<1>2. \A y \in S : ~(y < x)
  BY <1>1 DEF OpToRel
<1>3. \A y \in S : x <= y
  BY <1>2
<1> QED BY <1>3 DEF Lowest

-----------------------------------------------------------------------------
\* A page by its word and its bit.
LEMMA Coordinates ==
    ASSUME NEW a \in Nat
    PROVE  /\ a \div Width \in Nat /\ a % Width \in 0..(Width - 1)
           /\ a = ((a \div Width) * Width) + (a % Width)
<1>1. Width \in Nat \ {0}
  BY PagesAssumption DEF Width
<1> HIDE DEF Width
<1> QED BY <1>1

\* Multiplication by a natural number respects the order.
LEMMA Multiply == ASSUME NEW k \in Nat, NEW v \in Int, NEW w \in Int, v <= w PROVE v * k <= w * k
OBVIOUS

\* A word and a bit of it are those of one page.
LEMMA OneCoordinate ==
    ASSUME NEW w \in Nat, NEW b \in 0..(Width - 1)
    PROVE  /\ (w * Width) + b \in Nat
           /\ ((w * Width) + b) \div Width = w /\ ((w * Width) + b) % Width = b
<1> DEFINE a == (w * Width) + b
<1>1. Width \in Nat \ {0}
  BY PagesAssumption DEF Width
<1>2. a \in Nat
  BY <1>1
<1>3. ASSUME NEW x \in Nat, NEW y \in Nat, NEW d \in 0..(Width - 1), NEW e \in 0..(Width - 1), x < y
      PROVE  (x * Width) + d # (y * Width) + e
  <2> HIDE DEF Width
  <2>1. (x + 1) * Width <= y * Width
    BY <1>1, <1>3, Multiply
  <2>2. (x + 1) * Width = (x * Width) + Width
    BY <1>1
  <2>3. x * Width \in Nat /\ y * Width \in Nat
    BY <1>1
  <2> QED BY <1>1, <2>1, <2>2, <2>3
<1>4. a \div Width \in Nat /\ a % Width \in 0..(Width - 1) /\ a = ((a \div Width) * Width) + (a % Width)
  BY <1>2, Coordinates
<1>5. a = (w * Width) + b
  OBVIOUS
<1> HIDE DEF a, Width
<1>6. ~(a \div Width < w) /\ ~(w < a \div Width)
  BY <1>3, <1>4, <1>5
<1>7. a \div Width = w
  BY <1>4, <1>6
<1>8. a % Width = b
  <2>1. w * Width \in Nat
    BY <1>1
  <2> QED BY <1>1, <1>4, <1>5, <1>7, <2>1
<1> QED BY <1>2, <1>5, <1>7, <1>8

\* The pages below a multiple of the width are those of the words below.
LEMMA WordBelow ==
    ASSUME NEW a \in Nat, NEW k \in Nat
    PROVE  a \in 0..((k * Width) - 1) <=> a \div Width < k
<1>1. Width \in Nat \ {0}
  BY PagesAssumption DEF Width
<1> DEFINE w == a \div Width
<1>2. w \in Nat /\ a % Width \in 0..(Width - 1) /\ a = (w * Width) + (a % Width)
  BY Coordinates
<1> HIDE DEF w, Width
<1>3. CASE w < k
  <2>1. (w + 1) * Width <= k * Width /\ (w + 1) * Width = (w * Width) + Width /\ w * Width \in Nat /\ k * Width \in Nat
    BY <1>1, <1>2, <1>3, Multiply
  <2> QED BY <1>1, <1>2, <1>3, <2>1 DEF w
<1>4. CASE k <= w
  <2>1. k * Width <= w * Width /\ w * Width \in Nat /\ k * Width \in Nat
    BY <1>1, <1>2, <1>4, Multiply
  <2> QED BY <1>1, <1>2, <1>4, <2>1 DEF w
<1> QED BY <1>2, <1>3, <1>4

\* The lower half of a word, whose bits a mask made from an int can say.
Lower(a) == a % Width < IntWidth

\* A page the boot has not used whose bit the masks can say.
Fresh(a) == a \in Phys /\ Lower(a) /\ a \notin BootPages

\* The page of the sign bit of the word of a page.
Sign(a) == ((a \div Width) * Width) + (IntWidth - 1)

\* The upper half of a word is marked with its sign bit, and the boot pages are marked.
BitInv(S) ==
    /\ BootPages \subseteq S /\ S \subseteq Phys
    /\ \A a \in Phys : Lower(a) \/ (a \in S <=> Sign(a) \in S)

-----------------------------------------------------------------------------
\* Facts about the widths.
LEMMA Widths ==
    /\ IntWidth \in Nat \ {0} /\ Width \in Nat \ {0} /\ IntWidth <= Width /\ Width = IntWidth + IntWidth
    /\ Words \in Nat /\ BootWords \in Nat /\ BootWords <= Words
    /\ Beyond \in Nat /\ Phys \subseteq Nat /\ BootPages \subseteq Phys /\ Beyond \notin Phys
    /\ \A a \in Phys : a < Beyond
<1>1. /\ IntWidth \in Nat \ {0} /\ Words \in Nat \ {0} /\ BootWords \in Nat \ {0} /\ BootWords <= Words
  BY PagesAssumption
<1>2. Width \in Nat \ {0} /\ IntWidth <= Width /\ Width = IntWidth + IntWidth
  BY <1>1 DEF Width
<1>3. BootWords * Width <= Words * Width /\ BootWords * Width \in Nat /\ Words * Width \in Nat
  BY <1>1, <1>2, Multiply
<1> QED BY <1>1, <1>2, <1>3 DEF Phys, BootPages, Beyond

\* The page at a word and a bit.
LEMMA PhysWord == ASSUME NEW a \in Nat PROVE a \in Phys <=> a \div Width < Words
BY Widths, WordBelow DEF Phys
LEMMA BootWord == ASSUME NEW a \in Nat PROVE a \in BootPages <=> a \div Width < BootWords
BY Widths, WordBelow DEF BootPages

\* The sign bit is the highest of the lower half of the same word.
LEMMA SignOf ==
    ASSUME NEW a \in Phys
    PROVE  /\ Sign(a) \in Phys /\ Lower(Sign(a)) /\ Sign(a) \div Width = a \div Width
           /\ Sign(a) % Width = IntWidth - 1
           /\ (Lower(a) \/ Sign(a) < a)
           /\ (a % Width = IntWidth - 1 => Sign(a) = a)
           /\ (Sign(a) \in BootPages <=> a \in BootPages)
<1>1. a \in Nat
  BY Widths
<1>2. a \div Width \in Nat /\ a % Width \in 0..(Width - 1) /\ a = ((a \div Width) * Width) + (a % Width)
  BY <1>1, Coordinates
<1>3. IntWidth - 1 \in 0..(Width - 1)
  BY Widths
<1>4. Sign(a) \in Nat /\ Sign(a) \div Width = a \div Width /\ Sign(a) % Width = IntWidth - 1
  BY <1>2, <1>3, OneCoordinate DEF Sign
<1>5. Sign(a) \in Phys /\ (Sign(a) \in BootPages <=> a \in BootPages)
  BY <1>1, <1>4, PhysWord, BootWord
<1>6. Lower(Sign(a))
  BY <1>4, Widths DEF Lower
<1>7. Lower(a) \/ Sign(a) < a
  <2>1. (a \div Width) * Width \in Nat
    BY <1>2, Widths
  <2> HIDE DEF Width
  <2> QED BY <1>1, <1>2, <2>1, Widths DEF Lower, Sign
<1>8. a % Width = IntWidth - 1 => Sign(a) = a
  BY <1>2 DEF Sign
<1> QED BY <1>4, <1>5, <1>6, <1>7, <1>8

\* A word is the pages that share its number.
LEMMA WordOf ==
    ASSUME NEW a \in Phys, NEW p
    PROVE  p \in Word(a) <=> p \in Phys /\ p \div Width = a \div Width
<1>1. a \in Nat /\ a \div Width \in Nat
  BY Widths, Coordinates
<1>2. ASSUME p \in Word(a) PROVE p \in Phys /\ p \div Width = a \div Width
  <2>1. PICK b \in 0..(Width - 1) : p = ((a \div Width) * Width) + b
    BY <1>2 DEF Word
  <2>2. p \in Nat /\ p \div Width = a \div Width
    BY <1>1, <2>1, OneCoordinate
  <2> QED BY <1>1, <2>2, PhysWord
<1>3. ASSUME p \in Phys, p \div Width = a \div Width PROVE p \in Word(a)
  <2>1. p \in Nat
    BY <1>3, Widths
  <2>2. p % Width \in 0..(Width - 1) /\ p = ((a \div Width) * Width) + (p % Width)
    BY <1>3, <2>1, Coordinates
  <2> QED BY <2>2 DEF Word
<1> QED BY <1>2, <1>3

\* What the mask of a page of the lower half says: the page, and the upper half of its
\* word if the page is the sign bit.
LEMMA BitsOf ==
    ASSUME NEW a \in Phys, Lower(a), NEW p
    PROVE  p \in IntBits(a) <=> p = a \/ (p \in Phys /\ ~Lower(p) /\ Sign(p) = a)
<1>1. a \in Nat /\ a \div Width \in Nat /\ a % Width \in 0..(Width - 1)
      /\ a = ((a \div Width) * Width) + (a % Width)
  BY Widths, Coordinates
<1>2. a % IntWidth = a % Width
  <2> DEFINE w == a \div Width
             b == a % Width
  <2>1. w \in Nat /\ b \in 0..(IntWidth - 1)
    BY <1>1, Widths DEF Lower
  <2>2. a = ((w + w) * IntWidth) + b
    <3> HIDE DEF w, b
    <3>1. a = (w * Width) + b
      BY <1>1 DEF w, b
    <3>2. w * Width = (w + w) * IntWidth
      BY <2>1, Widths
    <3> QED BY <3>1, <3>2
  <2>3. b = a % IntWidth
    <3> HIDE DEF w, b
    <3>1. ASSUME NEW k \in Nat \ {0}, NEW v \in Nat, NEW c \in 0..(k - 1), NEW n \in Nat, n = (v * k) + c
          PROVE  n % k = c
      <4>1. n \div k \in Nat /\ n % k \in 0..(k - 1) /\ n = ((n \div k) * k) + (n % k)
        OBVIOUS
      <4> DEFINE q == n \div k
                 r == n % k
      <4>2. q \in Nat /\ r \in 0..(k - 1) /\ n = (q * k) + r
        BY <4>1
      <4> HIDE DEF q, r
      <4>3. ~(q < v)
        <5> SUFFICES ASSUME q < v PROVE FALSE
          OBVIOUS
        <5>1. (q + 1) * k <= v * k /\ (q + 1) * k = (q * k) + k /\ q * k \in Nat /\ v * k \in Nat
          BY <4>2, Multiply
        <5> QED BY <3>1, <4>2, <5>1
      <4>4. ~(v < q)
        <5> SUFFICES ASSUME v < q PROVE FALSE
          OBVIOUS
        <5>1. (v + 1) * k <= q * k /\ (v + 1) * k = (v * k) + k /\ q * k \in Nat /\ v * k \in Nat
          BY <4>2, Multiply
        <5> QED BY <3>1, <4>2, <5>1
      <4>5. q = v
        BY <4>2, <4>3, <4>4
      <4>6. q * k \in Nat
        BY <4>2
      <4> QED BY <3>1, <4>2, <4>5, <4>6 DEF r
    <3>2. w + w \in Nat /\ IntWidth \in Nat \ {0}
      BY <2>1, Widths
    <3> QED BY <1>1, <2>1, <2>2, <3>1, <3>2
  <2> QED BY <2>3
<1>3. ((a \div Width) * Width) + (a % IntWidth) = a
  BY <1>1, <1>2
<1>4. CASE a % Width = IntWidth - 1
  <2>1. IntBits(a) = {q \in Word(a) : q >= a}
    BY <1>2, <1>3, <1>4 DEF IntBits
  <2>2. Sign(a) = a
    BY <1>4, SignOf
  <2>3. ASSUME p \in Word(a), p >= a, p # a PROVE p \in Phys /\ ~Lower(p) /\ Sign(p) = a
    <3>1. p \in Phys /\ p \div Width = a \div Width /\ p \in Nat
      BY <2>3, WordOf, Widths
    <3>2. p % Width \in 0..(Width - 1) /\ p = ((a \div Width) * Width) + (p % Width)
      BY <3>1, Coordinates
    <3>3. a % Width < p % Width
      <4>1. (a \div Width) * Width \in Nat
        BY <1>1, Widths
      <4> HIDE DEF Width
      <4> QED BY <1>1, <2>3, <3>1, <3>2, <4>1
    <3> QED BY <1>1, <1>4, <2>2, <3>1, <3>2, <3>3, Widths DEF Lower, Sign
  <2>4. ASSUME p \in Phys, ~Lower(p), Sign(p) = a PROVE p \in Word(a) /\ p >= a
    BY <1>1, <2>4, SignOf, WordOf, Widths
  <2>5. a \in Word(a)
    BY WordOf
  <2> QED BY <1>1, <2>1, <2>3, <2>4, <2>5
<1>5. CASE a % Width # IntWidth - 1
  <2>1. IntBits(a) = {a}
    BY <1>2, <1>3, <1>5 DEF IntBits
  <2>2. ~(p \in Phys /\ Sign(p) = a)
    BY <1>5, SignOf
  <2> QED BY <2>1, <2>2
<1> QED BY <1>4, <1>5

\* The state of the pages, as a record.
IsMem(m) ==
    m = [marked |-> m.marked, pool |-> m.pool, kpt |-> m.kpt, ktables |-> m.ktables, fault |-> m.fault]

\* The bitmap marks what the kernel's entries map and the pages of U, which differ; the
\* boot pages are mapped to themselves, and the bits of the others can be cleared alone.
PhysInv(m, U) ==
    /\ BitInv(m.marked)
    /\ \A p \in DOMAIN m.kpt :
         /\ m.kpt[p] \in m.marked /\ m.kpt[p] \notin U
         /\ IF p \in BootPages THEN m.kpt[p] = p ELSE Fresh(m.kpt[p])
    /\ \A p, q \in DOMAIN m.kpt : m.kpt[p] = m.kpt[q] => p = q
    /\ \A a \in U : a \in m.marked /\ Fresh(a)

\* So it is until the pages the bitmap describes run out.
Sound(m, U) ==
    \/ m.fault = "none" /\ PhysInv(m, U)
    \/ m.fault = "second level" /\ m.marked = Phys

-----------------------------------------------------------------------------
\* Setting a bit with the masks keeps the upper half of the word with its sign bit.
LEMMA SetBit ==
    ASSUME NEW S, BitInv(S), NEW a \in Phys, Lower(a)
    PROVE  BitInv(S \cup IntBits(a)) /\ a \in S \cup IntBits(a)
<1>1. ASSUME NEW p \in Phys, ~Lower(p) PROVE p \in S \cup IntBits(a) <=> Sign(p) \in S \cup IntBits(a)
  <2>1. p \in IntBits(a) <=> Sign(p) = a
    BY <1>1, BitsOf
  <2>2. Sign(p) \in IntBits(a) <=> Sign(p) = a
    BY <1>1, BitsOf, SignOf
  <2> QED BY <1>1, <2>1, <2>2 DEF BitInv
<1>2. IntBits(a) \subseteq Phys /\ a \in IntBits(a)
  BY BitsOf
<1> QED BY <1>1, <1>2 DEF BitInv

\* So does clearing one, and the bits of other pages of the lower half stay.
LEMMA ClearBit ==
    ASSUME NEW S, BitInv(S), NEW a, Fresh(a)
    PROVE  /\ BitInv(S \ IntBits(a))
           /\ \A p \in S : p # a /\ (Fresh(p) \/ p \in BootPages) => p \in S \ IntBits(a)
<1>1. a \in Phys /\ Lower(a) /\ a \notin BootPages
  BY DEF Fresh
<1>2. ASSUME NEW p \in Phys, ~Lower(p) PROVE p \in S \ IntBits(a) <=> Sign(p) \in S \ IntBits(a)
  <2>1. p \in IntBits(a) <=> Sign(p) = a
    BY <1>1, <1>2, BitsOf
  <2>2. Sign(p) \in IntBits(a) <=> Sign(p) = a
    BY <1>1, <1>2, BitsOf, SignOf
  <2> QED BY <1>2, <2>1, <2>2 DEF BitInv
<1>3. ASSUME NEW p \in BootPages PROVE p \notin IntBits(a)
  BY <1>1, BitsOf, SignOf, Widths
<1>4. ASSUME NEW p \in S, p # a, Fresh(p) PROVE p \notin IntBits(a)
  BY <1>1, <1>4, BitsOf DEF Fresh
<1> QED BY <1>2, <1>3, <1>4 DEF BitInv

\* The lowest page that is clear is one the masks can say, and PL_FN's search with the
\* masks finds the same one.
LEMMA LowestClear ==
    ASSUME NEW m, BitInv(m.marked)
    PROVE  \/ PL_FN(m) = Beyond /\ m.marked = Phys
           \/ /\ PL_FN(m) # Beyond /\ Fresh(PL_FN(m)) /\ PL_FN(m) \notin m.marked
              /\ PL_FN_Agrees(m, PL_FN(m))
<1> DEFINE S == (Phys \cup {Beyond}) \ m.marked
           ad == PL_FN(m)
<1>1. S \in SUBSET Nat /\ Beyond \in S
  BY Widths DEF BitInv
<1>2. ad \in S /\ \A y \in S : ad <= y
  BY <1>1, LowestIs DEF PL_FN
<1>3. CASE ad = Beyond
  <2>1. ASSUME NEW p \in Phys, p \notin m.marked PROVE FALSE
    BY <1>2, <1>3, <2>1, Widths
  <2> QED BY <1>3, <2>1 DEF BitInv
<1>4. CASE ad # Beyond
  <2>1. ad \in Phys /\ ad \notin m.marked
    BY <1>2, <1>4
  <2>2. Lower(ad)
    <3> SUFFICES ASSUME ~Lower(ad) PROVE FALSE
      OBVIOUS
    <3> HIDE DEF ad
    <3>1. Sign(ad) \in Phys /\ Sign(ad) < ad
      BY <2>1, SignOf
    <3>2. Sign(ad) \notin m.marked
      BY <2>1 DEF BitInv
    <3>3. ad <= Sign(ad)
      BY <1>2, <3>1, <3>2
    <3>4. ad \in Nat /\ Sign(ad) \in Nat
      BY <2>1, <3>1, Widths
    <3> QED BY <3>1, <3>3, <3>4
  <2>3. ad \notin BootPages
    BY <2>1 DEF BitInv
  <2>4. IntBits(ad) \cap m.marked = {}
    BY <2>1, <2>2, BitsOf DEF BitInv
  <2> DEFINE tried == {i \in Word(ad) : i % Width < IntWidth /\ IntBits(i) \cap m.marked = {}}
  <2>5. ad \in tried
    BY <2>1, <2>2, <2>4, WordOf DEF Lower
  <2>6. \A i \in tried : i \in Phys /\ ad <= i
    <3> TAKE i \in tried
    <3>1. i \in Phys /\ Lower(i)
      BY <2>1, WordOf DEF Lower
    <3>2. i \in IntBits(i)
      BY <3>1, BitsOf
    <3> QED BY <1>2, <3>1, <3>2
  <2>7. tried # {} /\ Lowest(tried) = ad
    <3>1. tried \in SUBSET Nat
      BY <2>6, Widths
    <3>2. Lowest(tried) \in tried /\ Lowest(tried) <= ad
      BY <2>5, <3>1, LowestIs
    <3>3. ad <= Lowest(tried)
      BY <2>6, <3>2
    <3>4. ad \in Nat /\ Lowest(tried) \in Nat
      BY <2>5, <3>1, <3>2
    <3> QED BY <2>5, <3>2, <3>3, <3>4
  <2>8. PL_FN_Agrees(m, ad)
    BY <2>7 DEF PL_FN_Agrees
  <2> QED BY <1>4, <2>1, <2>2, <2>3, <2>8 DEF Fresh
<1> QED BY <1>3, <1>4

-----------------------------------------------------------------------------
\* An allocation begins with a page nobody has, or finds none.
LEMMA MarkedSound ==
    ASSUME NEW m, IsMem(m), NEW U, Sound(m, U)
    PROVE  LET ad == PL_FN(m)
               r == Marked(m, ad)
           IN  /\ IsMem(r) /\ r.pool = m.pool /\ r.kpt = m.kpt /\ r.ktables = m.ktables
               /\ Sound(r, U \cup {ad})
               /\ r.fault = "none" => ad \notin U
<1> DEFINE ad == PL_FN(m)
           r == Marked(m, ad)
<1>1. CASE m.fault = "none" /\ PhysInv(m, U) /\ ad # Beyond
  <2>1. Fresh(ad) /\ ad \notin m.marked /\ PL_FN_Agrees(m, ad)
    BY <1>1, LowestClear DEF PhysInv
  <2> HIDE DEF ad
  <2>2. r = PL_SV(m, ad, 1)
    BY <1>1, <2>1 DEF Marked
  <2>3. r = [m EXCEPT !.marked = m.marked \cup IntBits(ad)]
    BY <2>2 DEF PL_SV
  <2> HIDE DEF r
  <2>4. /\ IsMem(r) /\ r.pool = m.pool /\ r.kpt = m.kpt /\ r.ktables = m.ktables /\ r.fault = m.fault
        /\ r.marked = m.marked \cup IntBits(ad)
    BY <2>3 DEF IsMem
  <2>5. BitInv(r.marked) /\ ad \in r.marked
    BY <1>1, <2>1, <2>4, SetBit DEF PhysInv, Fresh
  <2>6. PhysInv(r, U \cup {ad}) /\ ad \notin U
    BY <1>1, <2>1, <2>4, <2>5 DEF PhysInv
  <2> QED BY <1>1, <2>4, <2>6 DEF Sound, r, ad
<1>2. CASE ad = Beyond
  <2>1. m.marked = Phys
    BY <1>2, LowestClear DEF Sound, PhysInv
  <2>2. r = [m EXCEPT !.fault = "second level"]
    BY <1>2 DEF Marked
  <2> HIDE DEF ad, r
  <2>3. IsMem(r) /\ r.marked = m.marked /\ r.pool = m.pool /\ r.kpt = m.kpt /\ r.ktables = m.ktables
        /\ r.fault = "second level"
    BY <2>2 DEF IsMem
  <2> QED BY <2>1, <2>3 DEF Sound, r, ad
<1>3. CASE m.marked = Phys
  <2>1. ad = Beyond
    <3>1. (Phys \cup {Beyond}) \ m.marked = {Beyond}
      BY <1>3, Widths
    <3> QED BY <3>1, LowestIs, Widths DEF PL_FN
  <2> QED BY <1>2, <2>1
<1> QED BY <1>1, <1>2, <1>3 DEF Sound

\* An entry of the kernel's half.
LEMMA EnterFields ==
    ASSUME NEW m, IsMem(m), NEW p, NEW ad
    PROVE  LET r == Enter(m, p, ad)
           IN  /\ IsMem(r) /\ r.marked = m.marked /\ r.pool = m.pool /\ r.ktables = m.ktables
               /\ r.fault = m.fault /\ DOMAIN r.kpt = DOMAIN m.kpt \cup {p}
               /\ r.kpt[p] = ad /\ \A q \in DOMAIN m.kpt : q # p => r.kpt[q] = m.kpt[q]
<1> DEFINE r == Enter(m, p, ad)
<1>1. r = [m EXCEPT !.kpt = With(m.kpt, p, ad)]
  BY DEF Enter
<1> HIDE DEF r
<1>2. /\ IsMem(r) /\ r.marked = m.marked /\ r.pool = m.pool /\ r.ktables = m.ktables
      /\ r.fault = m.fault /\ r.kpt = With(m.kpt, p, ad)
  BY <1>1 DEF IsMem
<1>3. /\ DOMAIN r.kpt = DOMAIN m.kpt \cup {p} /\ r.kpt[p] = ad
      /\ \A q \in DOMAIN m.kpt : q # p => r.kpt[q] = m.kpt[q]
  BY <1>2 DEF With
<1> QED BY <1>2, <1>3 DEF r

\* It takes a page that is not mapped, and the physical page the allocation began with.
LEMMA EnterSound ==
    ASSUME NEW m, IsMem(m), NEW U, NEW ad, Sound(m, U \cup {ad}), m.fault = "none" => ad \notin U,
           NEW p, p \notin DOMAIN m.kpt, p \notin BootPages
    PROVE  Sound(Enter(m, p, ad), U)
<1> DEFINE r == Enter(m, p, ad)
<1>1. /\ r.marked = m.marked /\ r.fault = m.fault /\ DOMAIN r.kpt = DOMAIN m.kpt \cup {p}
      /\ r.kpt[p] = ad /\ \A q \in DOMAIN m.kpt : q # p => r.kpt[q] = m.kpt[q]
  BY EnterFields
<1> HIDE DEF r
<1>2. CASE m.fault = "none" /\ PhysInv(m, U \cup {ad})
  <2>1. ad \in m.marked /\ Fresh(ad) /\ \A q \in DOMAIN m.kpt : m.kpt[q] # ad
    BY <1>2 DEF PhysInv
  <2>2. PhysInv(r, U)
    BY <1>1, <1>2, <2>1 DEF PhysInv
  <2> QED BY <1>1, <1>2, <2>2 DEF Sound, r
<1>3. CASE m.fault = "second level" /\ m.marked = Phys
  BY <1>1, <1>3 DEF Sound, r
<1> QED BY <1>2, <1>3 DEF Sound

\* Freeing a page that is not the boot's clears its bit and no other's.
LEMMA FreeSound ==
    ASSUME NEW m, IsMem(m), NEW U, PhysInv(m, U), NEW p \in DOMAIN m.kpt, p \notin BootPages
    PROVE  LET r == P_FREE(m, p)
           IN  /\ IsMem(r) /\ r.pool = m.pool /\ r.ktables = m.ktables /\ r.fault = m.fault
               /\ DOMAIN r.kpt = DOMAIN m.kpt \ {p}
               /\ PhysInv(r, U)
<1> DEFINE r == P_FREE(m, p)
           ad == m.kpt[p]
<1>1. r = [m EXCEPT !.marked = m.marked \ IntBits(ad), !.kpt = Without(m.kpt, p)]
  BY DEF P_FREE, PL_SV, IsMem
<1> HIDE DEF r
<1>2. /\ IsMem(r) /\ r.marked = m.marked \ IntBits(ad) /\ r.pool = m.pool /\ r.ktables = m.ktables
      /\ r.fault = m.fault /\ r.kpt = Without(m.kpt, p)
  BY <1>1 DEF IsMem
<1>3. DOMAIN r.kpt = DOMAIN m.kpt \ {p} /\ \A q \in DOMAIN r.kpt : r.kpt[q] = m.kpt[q]
  BY <1>2 DEF Without
<1>4. Fresh(ad) /\ ad \notin U /\ \A q \in DOMAIN r.kpt : r.kpt[q] # ad
  BY <1>3 DEF PhysInv
<1>5. BitInv(r.marked) /\ \A q \in m.marked : q # ad /\ (Fresh(q) \/ q \in BootPages) => q \in r.marked
  BY <1>2, <1>4, ClearBit DEF PhysInv
<1> HIDE DEF ad
<1>6. PhysInv(r, U)
  <2>1. \A q \in DOMAIN r.kpt : r.kpt[q] \in r.marked /\ r.kpt[q] \notin U
                              /\ IF q \in BootPages THEN r.kpt[q] = q ELSE Fresh(r.kpt[q])
    BY <1>3, <1>4, <1>5 DEF PhysInv
  <2>2. \A q, s \in DOMAIN r.kpt : r.kpt[q] = r.kpt[s] => q = s
    BY <1>3 DEF PhysInv
  <2>3. \A a \in U : a \in r.marked /\ Fresh(a)
    BY <1>4, <1>5 DEF PhysInv
  <2> QED BY <1>5, <2>1, <2>2, <2>3 DEF PhysInv
<1> QED BY <1>2, <1>3, <1>6 DEF r

\* The pages of the pool, those that hold tables and those of Out, which are in use, are
\* mapped and differ; the tables describe what is mapped; the boot's pages are not among
\* those the pool is filled with.
VirtInv(m, Out) ==
    /\ m.pool \in [Slot -> {Nothing} \cup Nat]
    /\ \A s \in FullSlots(m) : /\ m.pool[s] \in (DOMAIN m.kpt) \ (m.ktables \cup Out)
                               /\ m.pool[s] \in BootPages => Low <= s
    /\ \A s, u \in FullSlots(m) : m.pool[s] = m.pool[u] => s = u
    /\ IsFiniteSet(m.ktables) /\ m.ktables \subseteq (DOMAIN m.kpt) \ Out
    /\ Out \subseteq DOMAIN m.kpt
    /\ BootPages \subseteq DOMAIN m.kpt /\ DOMAIN m.kpt \subseteq Described(m)

\* The last entries that the tables describe are free, all but s of the last table.
LastFree(m, s) ==
    \A p \in Described(m) : (Cardinality(m.ktables) * PerTable) + s <= p => p \notin DOMAIN m.kpt

-----------------------------------------------------------------------------
\* Facts about the constants of the pool.
LEMMA PoolFacts ==
    /\ Low \in Nat /\ Threshold \in Nat /\ PerTable \in Nat \ {0} /\ LastSlot \in Nat /\ Nothing \notin Nat
    /\ 1 <= Threshold /\ Threshold <= Low - 2 /\ Low <= PerTable /\ Low <= LastSlot - 1
    /\ Slot \subseteq Nat /\ 0..(Low - 1) \subseteq Slot /\ PerTable = BootWords * Width
    /\ DOMAIN BootPool \subseteq Slot /\ DOMAIN BootPool \subseteq Low..(LastSlot - 1)
<1>1. /\ Low \in Nat /\ Threshold \in Nat /\ PerTable \in Nat \ {0} /\ LastSlot \in Nat /\ Nothing \notin Nat
      /\ 1 <= Threshold /\ Threshold <= Low - 2 /\ Low <= PerTable /\ PerTable = BootWords * Width
      /\ DOMAIN BootPool \subseteq Low..(LastSlot - 1)
  BY PagesAssumption
<1>2. PICK s \in DOMAIN BootPool : TRUE
  BY PagesAssumption
<1>3. s \in Low..(LastSlot - 1)
  BY <1>1, <1>2
<1>4. Low <= LastSlot - 1
  BY <1>1, <1>3
<1> QED BY <1>1, <1>4 DEF Slot

\* One multiple more.
LEMMA OneMore ==
    ASSUME NEW c \in Nat, NEW k \in Nat PROVE c * k \in Nat /\ (1 + c) * k = (c * k) + k
OBVIOUS

\* The tables describe the pages below a multiple of PerTable.
LEMMA DescribedIs ==
    ASSUME NEW m, IsFiniteSet(m.ktables)
    PROVE  /\ Cardinality(m.ktables) \in Nat /\ Cardinality(m.ktables) * PerTable \in Nat
           /\ (1 + Cardinality(m.ktables)) * PerTable = (Cardinality(m.ktables) * PerTable) + PerTable
           /\ Described(m) = 0..((Cardinality(m.ktables) * PerTable) + PerTable - 1)
           /\ Described(m) \subseteq Nat
<1>1. Cardinality(m.ktables) \in Nat
  BY FS_CardinalityType
<1> DEFINE c == Cardinality(m.ktables)
<1>2. c \in Nat
  BY <1>1
<1>3. Described(m) = 0..((1 + c) * PerTable - 1)
  BY DEF Described
<1> HIDE DEF c
<1>4. c * PerTable \in Nat /\ (1 + c) * PerTable = (c * PerTable) + PerTable
  <2>1. PerTable \in Nat
    BY PoolFacts
  <2> QED BY <1>2, <2>1, OneMore
<1>5. Described(m) = 0..((c * PerTable) + PerTable - 1)
  <2>1. PerTable \in Nat
    BY PoolFacts
  <2> QED BY <1>2, <1>3, <1>4, <2>1
<1>6. Described(m) \subseteq Nat
  BY <1>5
<1> QED BY <1>2, <1>4, <1>5, <1>6 DEF c

\* Fewer pages in use.
LEMMA VirtFewer ==
    ASSUME NEW m, NEW Out, VirtInv(m, Out), NEW Left \in SUBSET Out
    PROVE  VirtInv(m, Left)
BY DEF VirtInv

\* The state of the bitmap does not depend on the pool, nor on the tables.
LEMMA SameSound ==
    ASSUME NEW m, NEW r, NEW U, Sound(m, U), r.marked = m.marked, r.kpt = m.kpt, r.fault = m.fault
    PROVE  Sound(r, U)
BY DEF Sound, PhysInv

\* A page taken from the pool is in use.
LEMMA TakeFromInv ==
    ASSUME NEW m, NEW Out, NEW U, IsMem(m), VirtInv(m, Out), Sound(m, U), NEW s \in FullSlots(m)
    PROVE  LET r == TakeFrom(m, s).mem
           IN  /\ IsMem(r) /\ VirtInv(r, Out \cup {m.pool[s]}) /\ Sound(r, U)
               /\ r.kpt = m.kpt /\ r.ktables = m.ktables /\ r.fault = m.fault
               /\ FullSlots(r) = FullSlots(m) \ {s}
               /\ m.pool[s] \in Nat /\ m.pool[s] \in DOMAIN m.kpt /\ m.pool[s] \notin Out
<1> DEFINE r == TakeFrom(m, s).mem
<1>1. r = [m EXCEPT !.pool = [m.pool EXCEPT ![s] = Nothing]] /\ s \in Slot
  BY DEF TakeFrom, FullSlots
<1> HIDE DEF r
<1>2. /\ IsMem(r) /\ r.kpt = m.kpt /\ r.ktables = m.ktables /\ r.fault = m.fault /\ r.marked = m.marked
      /\ r.pool = [m.pool EXCEPT ![s] = Nothing]
  BY <1>1 DEF IsMem
<1>3. r.pool \in [Slot -> {Nothing} \cup Nat] /\ \A u \in Slot : r.pool[u] = IF u = s THEN Nothing ELSE m.pool[u]
  BY <1>1, <1>2 DEF VirtInv
<1>4. FullSlots(r) = FullSlots(m) \ {s} /\ \A u \in FullSlots(r) : r.pool[u] = m.pool[u]
  BY <1>3 DEF FullSlots
<1>5. m.pool[s] \in Nat /\ m.pool[s] \in DOMAIN m.kpt /\ m.pool[s] \notin Out /\ m.pool[s] \notin m.ktables
  BY <1>1 DEF VirtInv, FullSlots
<1>6. Described(r) = Described(m)
  BY <1>2 DEF Described
<1>7. VirtInv(r, Out \cup {m.pool[s]})
  BY <1>2, <1>3, <1>4, <1>5, <1>6 DEF VirtInv
<1>8. Sound(r, U)
  BY <1>2, SameSound
<1> QED BY <1>2, <1>4, <1>5, <1>7, <1>8 DEF r

\* KPALLOC takes the page of the lowest slot that is not empty.
LEMMA TakeIs ==
    ASSUME NEW m, FullSlots(m) # {}
    PROVE  LET s == Lowest(FullSlots(m))
           IN  s \in FullSlots(m) /\ (\A u \in FullSlots(m) : s <= u) /\ Take(m) = TakeFrom(m, s)
<1>1. FullSlots(m) \in SUBSET Nat
  BY PoolFacts DEF FullSlots
<1> QED BY <1>1, LowestIs DEF Take

\* An entry for a page that was not mapped is in use.
LEMMA EnterInv ==
    ASSUME NEW m, NEW r, NEW Out, VirtInv(m, Out), NEW p \in Described(m), p \notin DOMAIN m.kpt,
           r.pool = m.pool, r.ktables = m.ktables, DOMAIN r.kpt = DOMAIN m.kpt \cup {p}
    PROVE  VirtInv(r, Out \cup {p}) /\ Described(r) = Described(m) /\ FullSlots(r) = FullSlots(m)
<1>1. Described(r) = Described(m) /\ FullSlots(r) = FullSlots(m)
  BY DEF Described, FullSlots
<1> QED BY <1>1 DEF VirtInv

\* A page in use that becomes a table describes PerTable pages more.
LEMMA MoreTables ==
    ASSUME NEW m, NEW r, NEW t, IsFiniteSet(m.ktables), t \notin m.ktables, r.ktables = m.ktables \cup {t}
    PROVE  /\ IsFiniteSet(r.ktables) /\ Cardinality(r.ktables) = 1 + Cardinality(m.ktables)
           /\ Described(m) \subseteq Described(r)
<1>1. IsFiniteSet(r.ktables) /\ Cardinality(r.ktables) = 1 + Cardinality(m.ktables)
  BY FS_AddElement, FS_CardinalityType
<1>2. Described(m) \subseteq Described(r)
  <2> DEFINE c == Cardinality(m.ktables)
  <2>1. /\ c \in Nat /\ c * PerTable \in Nat /\ (1 + c) * PerTable = (c * PerTable) + PerTable
        /\ Described(m) = 0..((c * PerTable) + PerTable - 1)
    BY DescribedIs
  <2>2. Described(r) = 0..(((1 + c) * PerTable) + PerTable - 1)
    BY <1>1, DescribedIs
  <2>3. PerTable \in Nat
    BY PoolFacts
  <2> HIDE DEF c
  <2> QED BY <2>1, <2>2, <2>3
<1> QED BY <1>1, <1>2

\* It is then a table, and no longer in use by a caller.
LEMMA TableInv ==
    ASSUME NEW m, NEW r, NEW Out, NEW t, t \notin Out, VirtInv(m, Out \cup {t}),
           r.pool = m.pool, r.ktables = m.ktables \cup {t}, r.kpt = m.kpt
    PROVE  VirtInv(r, Out)
<1>1. IsFiniteSet(m.ktables) /\ t \notin m.ktables
  BY DEF VirtInv
<1>2. IsFiniteSet(r.ktables) /\ Described(m) \subseteq Described(r)
  BY <1>1, MoreTables
<1>3. FullSlots(r) = FullSlots(m)
  BY DEF FullSlots
<1> QED BY <1>1, <1>2, <1>3 DEF VirtInv

\* What KP_ALLOC3 leaves, when an entry or a page for a table is there.
LEMMA EntryInv ==
    ASSUME NEW m, NEW Out, NEW U, IsMem(m), VirtInv(m, Out), Sound(m, U),
           FreeEntries(m) # {} \/ FullSlots(m) # {}
    PROVE  LET got == KP_ALLOC3(m)
               r == got.mem
           IN  /\ IsMem(r) /\ VirtInv(r, Out \cup {got.page}) /\ Sound(r, U)
               /\ got.page \in Nat /\ got.page \notin DOMAIN m.kpt
               /\ \/ /\ FreeEntries(m) # {} /\ got.page = Lowest(FreeEntries(m))
                     /\ r.pool = m.pool /\ r.ktables = m.ktables /\ DOMAIN r.kpt = DOMAIN m.kpt \cup {got.page}
                  \/ /\ FreeEntries(m) = {} /\ FullSlots(r) = FullSlots(m) \ {Lowest(FullSlots(m))}
                     /\ Cardinality(r.ktables) = 1 + Cardinality(m.ktables) /\ IsFiniteSet(m.ktables)
                     /\ got.page = Cardinality(r.ktables) * PerTable
                     /\ DOMAIN r.kpt = DOMAIN m.kpt \cup {got.page}
<1> DEFINE ad == PL_FN(m)
           d == Marked(m, ad)
           got == KP_ALLOC3(m)
           r == got.mem
<1>1. /\ IsMem(d) /\ d.pool = m.pool /\ d.kpt = m.kpt /\ d.ktables = m.ktables
      /\ Sound(d, U \cup {ad}) /\ (d.fault = "none" => ad \notin U)
  BY MarkedSound
<1>2. got = FirstEntry(d, ad)
  BY DEF KP_ALLOC3
<1> HIDE DEF d, ad
<1>3. Described(d) = Described(m) /\ FreeEntries(d) = FreeEntries(m) /\ FullSlots(d) = FullSlots(m)
  BY <1>1 DEF Described, FreeEntries, FullSlots
<1>4. VirtInv(d, Out)
  BY <1>1, <1>3 DEF VirtInv
<1>5. IsFiniteSet(m.ktables) /\ Described(m) \subseteq Nat
  BY DescribedIs DEF VirtInv
<1>6. CASE FreeEntries(m) # {}
  <2> DEFINE p == Lowest(FreeEntries(m))
  <2>1. got.page = p /\ r = Enter(d, p, ad)
    BY <1>2, <1>3, <1>6 DEF FirstEntry
  <2>2. p \in FreeEntries(m)
    <3>1. FreeEntries(m) \in SUBSET Nat
      BY <1>5 DEF FreeEntries
    <3> QED BY <1>6, <3>1, LowestIs
  <2> HIDE DEF p
  <2>3. p \in Nat /\ p \notin DOMAIN m.kpt /\ p \in Described(d) /\ p \notin BootPages
    BY <1>3, <1>5, <2>2 DEF FreeEntries, VirtInv
  <2> HIDE DEF r
  <2>4. /\ IsMem(r) /\ r.pool = d.pool /\ r.ktables = d.ktables /\ DOMAIN r.kpt = DOMAIN d.kpt \cup {p}
        /\ Sound(r, U)
    <3>1. /\ IsMem(r) /\ r.pool = d.pool /\ r.ktables = d.ktables /\ DOMAIN r.kpt = DOMAIN d.kpt \cup {p}
      BY <1>1, <2>1, EnterFields
    <3>2. p \notin DOMAIN d.kpt
      BY <1>1, <2>3
    <3>3. Sound(Enter(d, p, ad), U)
      BY <1>1, <2>3, <3>2, EnterSound
    <3> QED BY <2>1, <3>1, <3>3
  <2>5. VirtInv(r, Out \cup {p})
    BY <1>1, <1>4, <2>3, <2>4, EnterInv
  <2>6. p = Lowest(FreeEntries(m))
    BY DEF p
  <2> QED BY <1>1, <1>6, <2>1, <2>3, <2>4, <2>5, <2>6 DEF r
<1>7. CASE FreeEntries(m) = {}
  <2> DEFINE s == Lowest(FullSlots(m))
             k == Take(d)
             t == k.page
             page == (1 + Cardinality(d.ktables)) * PerTable
             e == Enter(k.mem, page, ad)
  <2>1. FullSlots(d) # {} /\ FullSlots(m) # {}
    BY <1>3, <1>7
  <2>2. s \in FullSlots(d) /\ k = TakeFrom(d, s)
    BY <1>3, <2>1, TakeIs
  <2>3. got = NewTable(k, page, ad)
    BY <1>2, <1>3, <1>7 DEF FirstEntry
  <2>4. got.page = page /\ r = [e EXCEPT !.ktables = e.ktables \cup {t}]
    BY <2>3 DEF NewTable
  <2>s. s = Lowest(FullSlots(m))
    OBVIOUS
  <2> HIDE DEF s
  <2>5. /\ IsMem(k.mem) /\ VirtInv(k.mem, Out \cup {t}) /\ Sound(k.mem, U \cup {ad})
        /\ k.mem.kpt = d.kpt /\ k.mem.ktables = d.ktables /\ k.mem.fault = d.fault
        /\ FullSlots(k.mem) = FullSlots(d) \ {s}
        /\ t \in Nat /\ t \in DOMAIN d.kpt /\ t \notin Out
    <3> DEFINE V == U \cup {ad}
    <3>1. /\ IsMem(d) /\ VirtInv(d, Out) /\ Sound(d, V) /\ s \in FullSlots(d)
      BY <1>1, <1>4, <2>2
    <3> DEFINE f == TakeFrom(d, s)
    <3>2. k = f
      BY <2>2
    <3> HIDE DEF V, k
    <3>3. /\ IsMem(f.mem) /\ VirtInv(f.mem, Out \cup {d.pool[s]}) /\ Sound(f.mem, V)
          /\ f.mem.kpt = d.kpt /\ f.mem.ktables = d.ktables /\ f.mem.fault = d.fault
          /\ FullSlots(f.mem) = FullSlots(d) \ {s}
          /\ d.pool[s] \in Nat /\ d.pool[s] \in DOMAIN d.kpt /\ d.pool[s] \notin Out
      BY <3>1, TakeFromInv
    <3>4. f.page = d.pool[s]
      BY DEF TakeFrom
    <3> HIDE DEF f
    <3> QED BY <3>2, <3>3, <3>4 DEF V
  <2> HIDE DEF k, t, r, e
  <2> DEFINE c == Cardinality(m.ktables)
  <2>6. /\ c \in Nat /\ c * PerTable \in Nat /\ (1 + c) * PerTable = (c * PerTable) + PerTable
        /\ Described(m) = 0..((c * PerTable) + PerTable - 1)
    BY <1>5, DescribedIs
  <2>7. page = (1 + c) * PerTable
    BY <1>1
  <2>8. PerTable \in Nat
    BY PoolFacts
  <2>9. page \in Nat /\ page \notin Described(m) /\ page \notin DOMAIN m.kpt /\ page \notin BootPages
    <3> HIDE DEF c, page
    <3>1. page \in Nat /\ page \notin Described(m)
      BY <2>6, <2>7, <2>8
    <3> QED BY <3>1 DEF VirtInv
  <2> HIDE DEF page
  <2>10. /\ IsMem(e) /\ e.marked = k.mem.marked /\ e.pool = k.mem.pool /\ e.ktables = d.ktables
         /\ e.fault = d.fault /\ DOMAIN e.kpt = DOMAIN m.kpt \cup {page} /\ Sound(e, U)
    <3>1. /\ IsMem(e) /\ e.marked = k.mem.marked /\ e.pool = k.mem.pool /\ e.ktables = k.mem.ktables
          /\ e.fault = k.mem.fault /\ DOMAIN e.kpt = DOMAIN k.mem.kpt \cup {page}
      BY <2>5, EnterFields DEF e
    <3>2. (k.mem.fault = "none" => ad \notin U) /\ page \notin DOMAIN k.mem.kpt
      BY <1>1, <2>5, <2>9
    <3>3. Sound(e, U)
      BY <2>5, <2>9, <3>2, EnterSound DEF e
    <3> QED BY <1>1, <2>5, <3>1, <3>3
  <2>11. /\ IsMem(r) /\ r.marked = e.marked /\ r.pool = e.pool /\ r.kpt = e.kpt /\ r.fault = e.fault
         /\ r.ktables = d.ktables \cup {t}
    BY <2>4, <2>10 DEF IsMem
  <2>12. Sound(r, U)
    BY <2>10, <2>11, SameSound
  <2> DEFINE x == [k.mem EXCEPT !.ktables = k.mem.ktables \cup {t}]
  <2>13. x.pool = k.mem.pool /\ x.kpt = k.mem.kpt /\ x.ktables = k.mem.ktables \cup {t}
    BY <2>5 DEF IsMem
  <2> HIDE DEF x
  <2>14. /\ VirtInv(x, Out) /\ FullSlots(x) = FullSlots(k.mem) /\ IsFiniteSet(x.ktables)
         /\ Cardinality(x.ktables) = 1 + c
    <3>1. VirtInv(x, Out)
      BY <2>5, <2>13, TableInv
    <3>2. FullSlots(x) = FullSlots(k.mem)
      BY <2>13 DEF FullSlots
    <3>3. IsFiniteSet(k.mem.ktables) /\ t \notin k.mem.ktables
      BY <2>5 DEF VirtInv
    <3>4. IsFiniteSet(x.ktables) /\ Cardinality(x.ktables) = 1 + Cardinality(k.mem.ktables)
      BY <2>13, <3>3, MoreTables
    <3> QED BY <1>1, <2>5, <3>1, <3>2, <3>4
  <2>15. page \in Described(x)
    <3> HIDE DEF c
    <3>1. Described(x) = 0..(((1 + c) * PerTable) + PerTable - 1)
      BY <2>14, DescribedIs
    <3>2. PerTable \in Nat \ {0}
      BY PoolFacts
    <3> QED BY <2>6, <2>7, <2>9, <3>1, <3>2
  <2>16. VirtInv(r, Out \cup {page}) /\ FullSlots(r) = FullSlots(x)
    <3>1. /\ r.pool = x.pool /\ r.ktables = x.ktables /\ DOMAIN r.kpt = DOMAIN x.kpt \cup {page}
          /\ page \notin DOMAIN x.kpt
      BY <1>1, <2>5, <2>9, <2>10, <2>11, <2>13
    <3> QED BY <2>14, <2>15, <3>1, EnterInv
  <2>17. Cardinality(r.ktables) = 1 + c
    BY <2>5, <2>11, <2>13, <2>14
  <2> QED BY <1>1, <1>3, <1>5, <1>7, <2>s, <2>4, <2>5, <2>7, <2>9, <2>10, <2>11, <2>12, <2>14, <2>16, <2>17 DEF r
<1> QED BY <1>6, <1>7

\* After an entry in a new table, or in the last one while it is being filled.
LEMMA EntryLast ==
    ASSUME NEW m, NEW Out, NEW U, IsMem(m), VirtInv(m, Out), Sound(m, U), NEW s \in 0..(PerTable - 1)
    PROVE  /\ LastFree(m, s) => FreeEntries(m) # {} /\ LastFree(KP_ALLOC3(m).mem, s + 1)
           /\ FreeEntries(m) = {} /\ FullSlots(m) # {} => LastFree(KP_ALLOC3(m).mem, 1)
<1> DEFINE c == Cardinality(m.ktables)
           got == KP_ALLOC3(m)
           r == got.mem
<1>1. /\ c \in Nat /\ c * PerTable \in Nat /\ Described(m) = 0..((c * PerTable) + PerTable - 1)
  BY DescribedIs DEF VirtInv
<1>2. PerTable \in Nat \ {0}
  BY PoolFacts
<1> HIDE DEF got
<1>3. ASSUME LastFree(m, s) PROVE FreeEntries(m) # {} /\ LastFree(r, s + 1)
  <2>1. (c * PerTable) + s \in FreeEntries(m)
    <3>1. (c * PerTable) + s \in Described(m)
      <4> HIDE DEF c
      <4> QED BY <1>1, <1>2
    <3>2. (c * PerTable) + s <= (c * PerTable) + s
      <4> HIDE DEF c
      <4> QED BY <1>1
    <3> QED BY <1>3, <3>1, <3>2 DEF LastFree, FreeEntries
  <2>2. got.page = Lowest(FreeEntries(m)) /\ r.ktables = m.ktables /\ DOMAIN r.kpt = DOMAIN m.kpt \cup {got.page}
    BY <2>1, EntryInv DEF got
  <2>3. got.page <= (c * PerTable) + s /\ got.page \in Nat
    <3>1. FreeEntries(m) \in SUBSET Nat
      BY DescribedIs DEF FreeEntries, VirtInv
    <3> QED BY <2>1, <2>2, <3>1, LowestIs
  <2>4. Described(r) = Described(m) /\ Cardinality(r.ktables) = c
    BY <2>2 DEF Described
  <2>5. ASSUME NEW p \in Described(m), (c * PerTable) + (s + 1) <= p PROVE p \notin DOMAIN r.kpt
    <3> HIDE DEF c
    <3>1. p \in Nat /\ (c * PerTable) + s <= p /\ p # got.page
      BY <1>1, <2>3, <2>5
    <3> QED BY <1>3, <2>2, <3>1 DEF LastFree, c
  <2> QED BY <2>1, <2>4, <2>5 DEF LastFree
<1>4. ASSUME FreeEntries(m) = {}, FullSlots(m) # {} PROVE LastFree(r, 1)
  <2>1. /\ Cardinality(r.ktables) = 1 + c /\ got.page = (1 + c) * PerTable
        /\ DOMAIN r.kpt = DOMAIN m.kpt \cup {got.page}
    BY <1>4, EntryInv DEF got
  <2>2. (1 + c) * PerTable = (c * PerTable) + PerTable
    BY DescribedIs DEF VirtInv
  <2>3. ASSUME NEW p \in Described(r), ((1 + c) * PerTable) + 1 <= p PROVE p \notin DOMAIN r.kpt
    <3>1. p \in Nat
      <4>1. VirtInv(r, Out \cup {got.page})
        BY <1>4, EntryInv DEF got
      <4>2. Described(r) \subseteq Nat
        BY <4>1, DescribedIs DEF VirtInv
      <4> QED BY <2>3, <4>2
    <3>2. p \notin Described(m) /\ p # (1 + c) * PerTable
      <4> HIDE DEF c
      <4> QED BY <1>1, <1>2, <2>2, <2>3, <3>1
    <3> QED BY <2>1, <3>2 DEF VirtInv
  <2> QED BY <2>1, <2>3 DEF LastFree
<1> QED BY <1>3, <1>4 DEF got

\* KPALLOC's refill when it comes to slot s: the slots before are full but for slot 0,
\* whose page has become a table if the entries ran out; the new table holds the rest.
RefillAt(m, Out, U, s) ==
    /\ IsMem(m) /\ VirtInv(m, Out) /\ Sound(m, U)
    /\ m.fault = "none" =>
         /\ 1..(s - 1) \subseteq FullSlots(m)
         /\ \/ FullSlots(m) # {} /\ (s > 0 => 0 \in FullSlots(m))
            \/ LastFree(m, s)

\* The slots from which KPALLOC starts to fill them again are full.
Stocked(m) == Threshold..(Low - 1) \subseteq FullSlots(m)

-----------------------------------------------------------------------------
\* A page in use that goes to a slot is no longer in use.
LEMMA IntoInv ==
    ASSUME NEW new, NEW Out, NEW U, IsMem(new.mem), VirtInv(new.mem, Out \cup {new.page}), Sound(new.mem, U),
           new.page \in Nat, new.page \notin Out, NEW s \in Slot, new.page \in BootPages => Low <= s
    PROVE  LET r == Into(new, s)
           IN  /\ IsMem(r) /\ VirtInv(r, Out) /\ Sound(r, U)
               /\ r.kpt = new.mem.kpt /\ r.ktables = new.mem.ktables /\ r.fault = new.mem.fault
               /\ FullSlots(r) = FullSlots(new.mem) \cup {s}
<1> DEFINE m == new.mem
           p == new.page
           r == Into(new, s)
<1>1. r = [m EXCEPT !.pool = [m.pool EXCEPT ![s] = p]]
  BY DEF Into
<1> HIDE DEF r, m, p
<1>2. IsMem(m) /\ VirtInv(m, Out \cup {p}) /\ Sound(m, U) /\ p \in Nat /\ p \notin Out /\ (p \in BootPages => Low <= s)
  BY DEF m, p
<1>3. /\ IsMem(r) /\ r.kpt = m.kpt /\ r.ktables = m.ktables /\ r.fault = m.fault /\ r.marked = m.marked
      /\ r.pool = [m.pool EXCEPT ![s] = p]
  BY <1>1, <1>2 DEF IsMem
<1>4. r.pool \in [Slot -> {Nothing} \cup Nat] /\ \A u \in Slot : r.pool[u] = IF u = s THEN p ELSE m.pool[u]
  BY <1>2, <1>3 DEF VirtInv
<1>5. FullSlots(r) = FullSlots(m) \cup {s} /\ \A u \in FullSlots(m) : u # s => r.pool[u] = m.pool[u]
  BY <1>2, <1>4, PoolFacts DEF FullSlots
<1>6. r.pool[s] = p /\ Described(r) = Described(m)
  BY <1>3, <1>4 DEF Described
<1>7. VirtInv(r, Out)
  BY <1>2, <1>3, <1>4, <1>5, <1>6 DEF VirtInv
<1>8. Sound(r, U)
  BY <1>2, <1>3, SameSound
<1> QED BY <1>3, <1>5, <1>7, <1>8 DEF r, m

\* The refill goes from a slot to the next.
LEMMA FilledInv ==
    ASSUME NEW m, NEW Out, NEW U, NEW s \in 0..(Low - 1), RefillAt(m, Out, U, s)
    PROVE  RefillAt(Filled(m, s), Out, U, s + 1)
<1>1. s \in Nat /\ s \in Slot /\ s \in 0..(PerTable - 1)
  BY PoolFacts
<1>2. CASE m.fault # "none"
  BY <1>2 DEF RefillAt, Filled
<1>3. CASE m.fault = "none" /\ m.pool[s] # Nothing
  <2>1. Filled(m, s) = m /\ s \in FullSlots(m)
    BY <1>1, <1>3 DEF Filled, FullSlots
  <2>2. 1..((s + 1) - 1) \subseteq FullSlots(m)
    <3> SUFFICES ASSUME NEW x \in 1..((s + 1) - 1) PROVE x \in FullSlots(m)
      OBVIOUS
    <3>1. x = s \/ x \in 1..(s - 1)
      BY <1>1
    <3> QED BY <1>3, <2>1, <3>1 DEF RefillAt
  <2>3. LastFree(m, s) => LastFree(m, s + 1)
    <3> SUFFICES ASSUME LastFree(m, s), NEW p \in Described(m), (Cardinality(m.ktables) * PerTable) + (s + 1) <= p
                 PROVE  p \notin DOMAIN m.kpt
      BY DEF LastFree
    <3>1. Cardinality(m.ktables) * PerTable \in Nat /\ p \in Nat
      BY DescribedIs DEF RefillAt, VirtInv
    <3>2. (Cardinality(m.ktables) * PerTable) + s <= p
      BY <1>1, <3>1
    <3> QED BY <3>2 DEF LastFree
  <2>4. s + 1 > 0 /\ (s > 0 \/ s = 0)
    BY <1>1
  <2> QED BY <1>3, <2>1, <2>2, <2>3, <2>4 DEF RefillAt
<1>4. CASE m.fault = "none" /\ m.pool[s] = Nothing
  <2> DEFINE got == KP_ALLOC3(m)
             n == got.mem
             r == Into(got, s)
  <2>1. Filled(m, s) = r /\ s \notin FullSlots(m)
    BY <1>4 DEF Filled, FullSlots
  <2>2. IsMem(m) /\ VirtInv(m, Out) /\ Sound(m, U)
    BY DEF RefillAt
  <2>3. LastFree(m, s) => FreeEntries(m) # {} /\ LastFree(n, s + 1)
    BY <1>1, <2>2, EntryLast
  <2>4. FreeEntries(m) # {} \/ FullSlots(m) # {}
    BY <1>4, <2>3 DEF RefillAt
  <2>5. /\ IsMem(n) /\ VirtInv(n, Out \cup {got.page}) /\ Sound(n, U)
        /\ got.page \in Nat /\ got.page \notin DOMAIN m.kpt
        /\ \/ /\ FreeEntries(m) # {} /\ n.pool = m.pool
           \/ /\ FreeEntries(m) = {} /\ FullSlots(n) = FullSlots(m) \ {Lowest(FullSlots(m))}
    BY <2>2, <2>4, EntryInv
  <2>6. FreeEntries(m) = {} => LastFree(n, 1)
    BY <1>1, <2>2, <2>4, EntryLast
  <2> HIDE DEF got, n, r
  <2>8. got.page \notin Out /\ got.page \notin BootPages
    BY <2>2, <2>5 DEF VirtInv
  <2>9. /\ IsMem(r) /\ VirtInv(r, Out) /\ Sound(r, U)
        /\ r.kpt = n.kpt /\ r.ktables = n.ktables
        /\ FullSlots(r) = FullSlots(n) \cup {s}
    BY <1>1, <2>5, <2>8, IntoInv DEF n, r
  <2>10. \A k : LastFree(n, k) => LastFree(r, k)
    BY <2>9 DEF LastFree, Described
  <2>11. CASE FreeEntries(m) # {}
    <3>1. FullSlots(r) = FullSlots(m) \cup {s}
      BY <2>5, <2>9, <2>11 DEF FullSlots
    <3>2. 1..((s + 1) - 1) \subseteq FullSlots(r)
      <4> SUFFICES ASSUME NEW x \in 1..((s + 1) - 1) PROVE x \in FullSlots(r)
        OBVIOUS
      <4>1. x = s \/ x \in 1..(s - 1)
        BY <1>1
      <4> QED BY <1>4, <3>1, <4>1 DEF RefillAt
    <3>3. s > 0 \/ s = 0
      BY <1>1
    <3>4. LastFree(r, s + 1) \/ 0 \in FullSlots(r)
      BY <1>4, <2>3, <2>10, <3>1, <3>3 DEF RefillAt
    <3> QED BY <2>1, <2>9, <3>2, <3>4 DEF RefillAt
  <2>12. CASE FreeEntries(m) = {}
    <3>1. LastFree(n, 1)
      BY <2>6, <2>12
    <3>2. LastFree(r, s + 1)
      <4> SUFFICES ASSUME NEW p \in Described(n), (Cardinality(n.ktables) * PerTable) + (s + 1) <= p
                   PROVE  p \notin DOMAIN n.kpt
        BY <2>10 DEF LastFree
      <4>1. Cardinality(n.ktables) * PerTable \in Nat /\ p \in Nat
        BY <2>5, DescribedIs DEF VirtInv
      <4>2. (Cardinality(n.ktables) * PerTable) + 1 <= p
        BY <1>1, <4>1
      <4> QED BY <3>1, <4>2 DEF LastFree
    <3>3. 1..((s + 1) - 1) \subseteq FullSlots(r)
      <4> SUFFICES ASSUME NEW x \in 1..((s + 1) - 1), x # s PROVE x \in FullSlots(r)
        BY <2>9
      <4>1. x \in 1..(s - 1) /\ s > 0 /\ x # 0
        BY <1>1
      <4>2. x \in FullSlots(m) /\ 0 \in FullSlots(m)
        BY <1>4, <2>3, <2>12, <4>1 DEF RefillAt
      <4>3. Lowest(FullSlots(m)) = 0
        <5>1. FullSlots(m) \in SUBSET Nat
          BY PoolFacts DEF FullSlots
        <5>2. Lowest(FullSlots(m)) \in Nat /\ Lowest(FullSlots(m)) <= 0
          BY <4>2, <5>1, LowestIs
        <5> QED BY <5>2
      <4> QED BY <2>5, <2>9, <2>12, <4>1, <4>2, <4>3
    <3> QED BY <2>1, <2>9, <3>2, <3>3 DEF RefillAt
  <2> QED BY <2>11, <2>12
<1> QED BY <1>2, <1>3, <1>4

-----------------------------------------------------------------------------
\* The refill is a chain of Low steps.
LEMMA FilledChain ==
    ASSUME NEW m
    PROVE  \E f : /\ Refilled(m) = f[Low] /\ f[0] = m
                  /\ \A s \in 0..(Low - 1) : f[s + 1] = Filled(f[s], s)
<1> DEFINE P(k) == \E f : f = [s \in 0..k |-> IF s = 0 THEN m ELSE Filled(f[s - 1], s - 1)]
           S == {k \in Nat : P(k)}
<1>1. P(0)
  <2> DEFINE g == [s \in 0..0 |-> m]
  <2>1. g = [s \in 0..0 |-> IF s = 0 THEN m ELSE Filled(g[s - 1], s - 1)]
    OBVIOUS
  <2> QED BY <2>1
<1>2. ASSUME NEW k \in Nat, P(k) PROVE P(k + 1)
  <2>1. PICK f : f = [s \in 0..k |-> IF s = 0 THEN m ELSE Filled(f[s - 1], s - 1)]
    BY <1>2
  <2> DEFINE g == [s \in 0..(k + 1) |-> IF s <= k THEN f[s] ELSE Filled(f[k], k)]
  <2>2. \A s \in 0..(k + 1) : g[s] = IF s = 0 THEN m ELSE Filled(g[s - 1], s - 1)
    BY <2>1
  <2>3. g = [s \in 0..(k + 1) |-> IF s = 0 THEN m ELSE Filled(g[s - 1], s - 1)]
    BY <2>2
  <2> QED BY <2>3
<1> HIDE DEF P
<1>3. 0 \in S /\ \A k \in Nat : k \in S => k + 1 \in S
  BY <1>1, <1>2
<1>4. Low \in Nat
  BY PoolFacts
<1>5. P(Low)
  BY <1>3, <1>4, Induction
<1> DEFINE upto == CHOOSE f : f = [s \in 0..Low |-> IF s = 0 THEN m ELSE Filled(f[s - 1], s - 1)]
<1>6. upto = [s \in 0..Low |-> IF s = 0 THEN m ELSE Filled(upto[s - 1], s - 1)]
  BY <1>5 DEF P
<1>7. Refilled(m) = upto[Low]
  BY DEF Refilled
<1> HIDE DEF upto
<1>8. upto[0] = m
  BY <1>4, <1>6
<1>9. ASSUME NEW s \in 0..(Low - 1) PROVE upto[s + 1] = Filled(upto[s], s)
  <2>1. s + 1 \in 0..Low /\ s + 1 # 0 /\ (s + 1) - 1 = s
    BY <1>4
  <2> QED BY <1>6, <2>1
<1> QED BY <1>7, <1>8, <1>9

\* So what each slot keeps, the refill keeps.
LEMMA RefilledInv ==
    ASSUME NEW m, NEW Out, NEW U, RefillAt(m, Out, U, 0)
    PROVE  RefillAt(Refilled(m), Out, U, Low)
<1>1. PICK upto : /\ Refilled(m) = upto[Low] /\ upto[0] = m
                  /\ \A s \in 0..(Low - 1) : upto[s + 1] = Filled(upto[s], s)
  BY FilledChain
<1> DEFINE S == {k \in Nat : k <= Low => RefillAt(upto[k], Out, U, k)}
<1>2. Low \in Nat
  BY PoolFacts
<1>3. 0 \in S
  BY <1>1
<1>4. ASSUME NEW k \in Nat, k \in S PROVE k + 1 \in S
  <2> SUFFICES ASSUME k + 1 <= Low PROVE RefillAt(upto[k + 1], Out, U, k + 1)
    OBVIOUS
  <2>1. k \in 0..(Low - 1) /\ k <= Low
    BY <1>2
  <2>2. upto[k + 1] = Filled(upto[k], k)
    BY <1>1, <2>1
  <2>3. RefillAt(upto[k], Out, U, k)
    BY <1>4, <2>1
  <2> QED BY <2>1, <2>2, <2>3, FilledInv
<1>5. Low \in S
  BY <1>2, <1>3, <1>4, Induction
<1> QED BY <1>1, <1>2, <1>5

\* A page of KPALLOC is in use by its caller alone; it is none the boot left there if
\* the pool was stocked, and the pool is stocked again.
LEMMA KPALLOCInv ==
    ASSUME NEW m, NEW Out, NEW U, IsMem(m), VirtInv(m, Out), Sound(m, U),
           NEW x \in FullSlots(m), NEW y \in FullSlots(m), x # y
    PROVE  LET got == KPALLOC(m)
               r == got.mem
           IN  /\ IsMem(r) /\ VirtInv(r, Out \cup {got.page}) /\ Sound(r, U)
               /\ got.page \in Nat /\ got.page \notin Out
               /\ m.fault # "none" => r.fault = m.fault
               /\ (FullSlots(m) \subseteq Threshold..LastSlot \/ Stocked(m)) /\ r.fault = "none" => Stocked(r)
               /\ r.fault = "none" /\ Stocked(m) => got.page \notin BootPages
               /\ got.page = m.pool[Lowest(FullSlots(m))]
<1> DEFINE s == Lowest(FullSlots(m))
           k == TakeFrom(m, s)
           r == KPALLOC(m).mem
           p == m.pool[s]
<1>1. s \in FullSlots(m) /\ (\A u \in FullSlots(m) : s <= u) /\ Take(m) = k
  BY TakeIs
<1>2. k.page = p /\ k.slot = s
  BY DEF TakeFrom
<1>3. KPALLOC(m).page = p /\ r = (IF Refills(k) THEN Refilled(k.mem) ELSE k.mem)
  BY <1>1, <1>2 DEF KPALLOC, Given
<1>4. /\ IsMem(k.mem) /\ VirtInv(k.mem, Out \cup {p}) /\ Sound(k.mem, U)
      /\ k.mem.fault = m.fault /\ FullSlots(k.mem) = FullSlots(m) \ {s}
      /\ p \in Nat /\ p \notin Out
  BY <1>1, TakeFromInv
<1>5. s \in Nat /\ s \in Slot /\ FullSlots(m) \subseteq Nat
  BY <1>1, PoolFacts DEF FullSlots
<1>6. Stocked(m) => s <= Threshold
  <2>1. Threshold \in Threshold..(Low - 1)
    BY PoolFacts
  <2> QED BY <1>1, <2>1 DEF Stocked
<1>7. Stocked(m) => p \notin BootPages
  BY <1>1, <1>5, <1>6, PoolFacts DEF VirtInv
<1>s. s = Lowest(FullSlots(m))
  OBVIOUS
<1> HIDE DEF s, r, k, p
<1>8. CASE ~Refills(k)
  <2>1. r = k.mem
    BY <1>3, <1>8
  <2>2. ASSUME m.fault = "none" PROVE s < Threshold
    BY <1>2, <1>4, <1>5, <1>8, <2>2, PoolFacts DEF Refills
  <2>3. ASSUME m.fault = "none", Stocked(m) PROVE Stocked(r)
    BY <1>4, <1>5, <2>1, <2>2, <2>3, PoolFacts DEF Stocked
  <2>4. ASSUME m.fault = "none" PROVE ~(FullSlots(m) \subseteq Threshold..LastSlot)
    BY <1>1, <1>5, <2>2, <2>4, PoolFacts
  <2> QED BY <1>3, <1>4, <1>7, <1>s, <2>1, <2>3, <2>4 DEF r, p
<1>9. CASE Refills(k)
  <2>1. r = Refilled(k.mem) /\ m.fault = "none"
    BY <1>3, <1>4, <1>9 DEF Refills
  <2>2. FullSlots(k.mem) # {}
    BY <1>4
  <2>3. RefillAt(k.mem, Out \cup {p}, U, 0)
    BY <1>4, <2>2 DEF RefillAt
  <2>4. RefillAt(r, Out \cup {p}, U, Low)
    BY <2>1, <2>3, RefilledInv
  <2>5. r.fault = "none" => Stocked(r)
    BY <2>4, PoolFacts DEF RefillAt, Stocked
  <2> QED BY <1>3, <1>4, <1>7, <1>s, <2>1, <2>4, <2>5 DEF RefillAt, r, p
<1> QED BY <1>8, <1>9

\* The entries of a run, in turn.
LEMMA EnteredChain ==
    ASSUME NEW m, NEW at \in Nat, NEW len \in Nat
    PROVE  \E f : /\ Entered(m, at, len) = f[len] /\ f[0] = m
                  /\ \A n \in 0..(len - 1) : f[n + 1] = ALSP(f[n], at + n)
<1> DEFINE P(k) == \E f : f = [n \in 0..k |-> IF n = 0 THEN m ELSE ALSP(f[n - 1], at + n - 1)]
           S == {k \in Nat : P(k)}
<1>1. P(0)
  <2> DEFINE g == [n \in 0..0 |-> m]
  <2>1. g = [n \in 0..0 |-> IF n = 0 THEN m ELSE ALSP(g[n - 1], at + n - 1)]
    OBVIOUS
  <2> QED BY <2>1
<1>2. ASSUME NEW k \in Nat, P(k) PROVE P(k + 1)
  <2>1. PICK f : f = [n \in 0..k |-> IF n = 0 THEN m ELSE ALSP(f[n - 1], at + n - 1)]
    BY <1>2
  <2> DEFINE g == [n \in 0..(k + 1) |-> IF n <= k THEN f[n] ELSE ALSP(f[n - 1], at + n - 1)]
  <2>2. \A n \in 0..(k + 1) : g[n] = IF n = 0 THEN m ELSE ALSP(g[n - 1], at + n - 1)
    BY <2>1
  <2>3. g = [n \in 0..(k + 1) |-> IF n = 0 THEN m ELSE ALSP(g[n - 1], at + n - 1)]
    BY <2>2
  <2> QED BY <2>3
<1> HIDE DEF P
<1>3. 0 \in S /\ \A k \in Nat : k \in S => k + 1 \in S
  BY <1>1, <1>2
<1>4. P(len)
  BY <1>3, Induction
<1> DEFINE upto == CHOOSE f : f = [n \in 0..len |-> IF n = 0 THEN m ELSE ALSP(f[n - 1], at + n - 1)]
<1>5. upto = [n \in 0..len |-> IF n = 0 THEN m ELSE ALSP(upto[n - 1], at + n - 1)]
  BY <1>4 DEF P
<1>6. Entered(m, at, len) = upto[len]
  BY DEF Entered
<1> HIDE DEF upto
<1>7. upto[0] = m
  BY <1>5
<1>8. ASSUME NEW n \in 0..(len - 1) PROVE upto[n + 1] = ALSP(upto[n], at + n)
  <2>1. n + 1 \in 0..len /\ n + 1 # 0 /\ (n + 1) - 1 = n /\ at + (n + 1) - 1 = at + n
    OBVIOUS
  <2> QED BY <1>5, <2>1
<1> QED BY <1>6, <1>7, <1>8

\* ALSP keeps everything apart, and adds its page to what is in use.
LEMMA ALSPInv ==
    ASSUME NEW m, NEW Out, NEW U, IsMem(m), VirtInv(m, Out), Sound(m, U),
           NEW p \in Described(m), p \notin DOMAIN m.kpt
    PROVE  LET r == ALSP(m, p)
           IN  /\ IsMem(r) /\ VirtInv(r, Out \cup {p}) /\ Sound(r, U)
               /\ r.pool = m.pool /\ r.ktables = m.ktables /\ DOMAIN r.kpt = DOMAIN m.kpt \cup {p}
<1> DEFINE ad == PL_FN(m)
           d == Marked(m, ad)
           r == Enter(d, p, ad)
<1>1. /\ IsMem(d) /\ d.pool = m.pool /\ d.kpt = m.kpt /\ d.ktables = m.ktables
      /\ Sound(d, U \cup {ad}) /\ (d.fault = "none" => ad \notin U)
  BY MarkedSound
<1>2. ALSP(m, p) = r
  BY DEF ALSP
<1> HIDE DEF d, ad
<1>3. p \notin BootPages
  BY DEF VirtInv
<1>4. /\ IsMem(r) /\ r.pool = d.pool /\ r.ktables = d.ktables /\ DOMAIN r.kpt = DOMAIN d.kpt \cup {p}
      /\ Sound(r, U)
  <2>1. p \notin DOMAIN d.kpt
    BY <1>1
  <2>2. Sound(r, U)
    BY <1>1, <1>3, <2>1, EnterSound
  <2>3. /\ IsMem(r) /\ r.pool = d.pool /\ r.ktables = d.ktables /\ DOMAIN r.kpt = DOMAIN d.kpt \cup {p}
    BY <1>1, EnterFields
  <2> QED BY <2>2, <2>3
<1> HIDE DEF r
<1>5. VirtInv(r, Out \cup {p})
  BY <1>1, <1>4, EnterInv
<1> QED BY <1>1, <1>2, <1>4, <1>5

\* The pages of a run that fits are in use by its caller alone.
LEMMA EnteredInv ==
    ASSUME NEW m, NEW Out, NEW U, IsMem(m), VirtInv(m, Out), Sound(m, U),
           NEW at \in Nat, NEW len \in Nat, at..(at + len - 1) \subseteq FreeEntries(m)
    PROVE  LET r == Entered(m, at, len)
           IN  /\ IsMem(r) /\ VirtInv(r, Out \cup (at..(at + len - 1))) /\ Sound(r, U)
               /\ r.pool = m.pool
<1>1. PICK upto : /\ Entered(m, at, len) = upto[len] /\ upto[0] = m
                  /\ \A n \in 0..(len - 1) : upto[n + 1] = ALSP(upto[n], at + n)
  BY EnteredChain
<1> DEFINE Run(k) == at..(at + k - 1)
           At(r, k) == /\ IsMem(r) /\ VirtInv(r, Out \cup Run(k)) /\ Sound(r, U)
                       /\ r.pool = m.pool /\ r.ktables = m.ktables /\ DOMAIN r.kpt = DOMAIN m.kpt \cup Run(k)
           S == {k \in Nat : k <= len => At(upto[k], k)}
<1>2. 0 \in S
  <2>1. upto[0] = m /\ Run(0) = {}
    BY <1>1
  <2> QED BY <2>1
<1>3. ASSUME NEW k \in Nat, k \in S PROVE k + 1 \in S
  <2> SUFFICES ASSUME k + 1 <= len PROVE At(upto[k + 1], k + 1)
    OBVIOUS
  <2> DEFINE r == upto[k]
             p == at + k
  <2>1. k <= len /\ k \in 0..(len - 1)
    OBVIOUS
  <2>2. upto[k + 1] = ALSP(r, p)
    BY <1>1, <2>1
  <2>3. At(r, k)
    BY <1>3, <2>1
  <2>4. p \in Run(len) /\ p \notin Run(k) /\ Run(k + 1) = Run(k) \cup {p}
    OBVIOUS
  <2>5. p \in Described(r) /\ p \notin DOMAIN r.kpt
    BY <2>3, <2>4 DEF FreeEntries, Described
  <2> HIDE DEF r, p, Run
  <2> DEFINE e == ALSP(r, p)
  <2>6. /\ IsMem(e) /\ VirtInv(e, (Out \cup Run(k)) \cup {p}) /\ Sound(e, U)
        /\ e.pool = r.pool /\ e.ktables = r.ktables /\ DOMAIN e.kpt = DOMAIN r.kpt \cup {p}
    BY <2>3, <2>5, ALSPInv
  <2>7. (Out \cup Run(k)) \cup {p} = Out \cup Run(k + 1)
    BY <2>4
  <2>8. DOMAIN e.kpt = DOMAIN m.kpt \cup Run(k + 1)
    BY <2>3, <2>4, <2>6
  <2> HIDE DEF e
  <2>9. At(e, k + 1)
    BY <2>3, <2>6, <2>7, <2>8
  <2> QED BY <2>2, <2>9 DEF e
<1> HIDE DEF At
<1>4. len \in S
  BY <1>2, <1>3, Induction
<1> QED BY <1>1, <1>4 DEF At

-----------------------------------------------------------------------------
\* The pages of a run that is freed, in turn.
LEMMA FreedChain ==
    ASSUME NEW m, NEW at \in Nat, NEW len \in Nat
    PROVE  \E f : /\ P_FREES(m, [at |-> at, len |-> len]) = f[len] /\ f[0] = m
                  /\ \A n \in 0..(len - 1) : f[n + 1] = P_FREE(f[n], at + n)
<1> DEFINE P(k) == \E f : f = [n \in 0..k |-> IF n = 0 THEN m ELSE P_FREE(f[n - 1], at + n - 1)]
           S == {k \in Nat : P(k)}
<1>1. P(0)
  <2> DEFINE g == [n \in 0..0 |-> m]
  <2>1. g = [n \in 0..0 |-> IF n = 0 THEN m ELSE P_FREE(g[n - 1], at + n - 1)]
    OBVIOUS
  <2> QED BY <2>1
<1>2. ASSUME NEW k \in Nat, P(k) PROVE P(k + 1)
  <2>1. PICK f : f = [n \in 0..k |-> IF n = 0 THEN m ELSE P_FREE(f[n - 1], at + n - 1)]
    BY <1>2
  <2> DEFINE g == [n \in 0..(k + 1) |-> IF n <= k THEN f[n] ELSE P_FREE(f[n - 1], at + n - 1)]
  <2>2. \A n \in 0..(k + 1) : g[n] = IF n = 0 THEN m ELSE P_FREE(g[n - 1], at + n - 1)
    BY <2>1
  <2>3. g = [n \in 0..(k + 1) |-> IF n = 0 THEN m ELSE P_FREE(g[n - 1], at + n - 1)]
    BY <2>2
  <2> QED BY <2>3
<1> HIDE DEF P
<1>3. 0 \in S /\ \A k \in Nat : k \in S => k + 1 \in S
  BY <1>1, <1>2
<1>4. P(len)
  BY <1>3, Induction
<1> DEFINE upto == CHOOSE f : f = [n \in 0..len |-> IF n = 0 THEN m ELSE P_FREE(f[n - 1], at + n - 1)]
<1>5. upto = [n \in 0..len |-> IF n = 0 THEN m ELSE P_FREE(upto[n - 1], at + n - 1)]
  BY <1>4 DEF P
<1>6. P_FREES(m, [at |-> at, len |-> len]) = upto[len]
  BY DEF P_FREES
<1> HIDE DEF upto
<1>7. upto[0] = m
  BY <1>5
<1>8. ASSUME NEW n \in 0..(len - 1) PROVE upto[n + 1] = P_FREE(upto[n], at + n)
  <2>1. n + 1 \in 0..len /\ n + 1 # 0 /\ (n + 1) - 1 = n /\ at + (n + 1) - 1 = at + n
    OBVIOUS
  <2> QED BY <1>5, <2>1
<1> QED BY <1>6, <1>7, <1>8

\* Freeing a run that is in use takes its pages out of use and touches no other.
LEMMA FreedInv ==
    ASSUME NEW m, NEW Out, NEW U, IsMem(m), VirtInv(m, Out), m.fault = "none", PhysInv(m, U),
           NEW at \in Nat, NEW len \in Nat, at..(at + len - 1) \subseteq Out \ BootPages
    PROVE  LET r == P_FREES(m, [at |-> at, len |-> len])
           IN  /\ IsMem(r) /\ VirtInv(r, Out \ (at..(at + len - 1))) /\ PhysInv(r, U)
               /\ r.fault = "none" /\ r.pool = m.pool
<1>1. PICK upto : /\ P_FREES(m, [at |-> at, len |-> len]) = upto[len] /\ upto[0] = m
                  /\ \A n \in 0..(len - 1) : upto[n + 1] = P_FREE(upto[n], at + n)
  BY FreedChain
<1> DEFINE Run(k) == at..(at + k - 1)
           At(r, k) == /\ IsMem(r) /\ VirtInv(r, Out \ Run(k)) /\ PhysInv(r, U)
                       /\ r.fault = "none" /\ r.pool = m.pool
           S == {k \in Nat : k <= len => At(upto[k], k)}
<1>2. 0 \in S
  <2>1. upto[0] = m /\ Out \ Run(0) = Out
    BY <1>1
  <2> QED BY <2>1
<1>3. ASSUME NEW k \in Nat, k \in S PROVE k + 1 \in S
  <2> SUFFICES ASSUME k + 1 <= len PROVE At(upto[k + 1], k + 1)
    OBVIOUS
  <2> DEFINE r == upto[k]
             p == at + k
  <2>1. k <= len /\ k \in 0..(len - 1)
    OBVIOUS
  <2>2. upto[k + 1] = P_FREE(r, p)
    BY <1>1, <2>1
  <2>3. At(r, k)
    BY <1>3, <2>1
  <2>4. p \in Run(len) /\ p \notin Run(k) /\ Out \ Run(k + 1) = (Out \ Run(k)) \ {p}
    OBVIOUS
  <2>5. p \in Out \ Run(k) /\ p \in DOMAIN r.kpt /\ p \notin BootPages
    BY <2>3, <2>4 DEF VirtInv
  <2> HIDE DEF r, p, Run
  <2> DEFINE e == P_FREE(r, p)
  <2>6. /\ IsMem(e) /\ e.pool = r.pool /\ e.ktables = r.ktables /\ e.fault = r.fault
        /\ DOMAIN e.kpt = DOMAIN r.kpt \ {p} /\ PhysInv(e, U)
    BY <2>3, <2>5, FreeSound
  <2> HIDE DEF e
  <2>7. VirtInv(e, (Out \ Run(k)) \ {p})
    <3>1. Described(e) = Described(r) /\ FullSlots(e) = FullSlots(r)
      BY <2>6 DEF Described, FullSlots
    <3>2. VirtInv(r, Out \ Run(k))
      BY <2>3
    <3> DEFINE T == Out \ Run(k)
    <3>3. VirtInv(r, T) /\ p \in T
      BY <2>5, <3>2
    <3> HIDE DEF T
    <3>4. VirtInv(e, T \ {p})
      BY <2>5, <2>6, <3>1, <3>3 DEF VirtInv
    <3> QED BY <3>4 DEF T
  <2>8. At(e, k + 1)
    BY <2>3, <2>4, <2>6, <2>7
  <2> QED BY <2>2, <2>8 DEF e
<1> HIDE DEF At
<1>4. len \in S
  BY <1>2, <1>3, Induction
<1> QED BY <1>1, <1>4 DEF At

-----------------------------------------------------------------------------
\* The halves and the tasks

\* f is a table of all tasks.
OfTasks(f) == f = [t \in Tasks |-> f[t]]

\* The task that runs lives and has a page for its user half.
HalfInv ==
    /\ OfTasks(cr3) /\ OfTasks(saved) /\ OfTasks(faulted)
    /\ current \in Tasks /\ current \notin dead /\ cr3[current] # Nothing
    /\ OwnHalf

\* KPALLOC takes its page from a slot that is not empty, or returns 0.
LEMMA TakenPage == ASSUME NEW m PROVE KPALLOC(m).page # Nothing
<1>1. KPALLOC(m).page = Take(m).page
  BY DEF KPALLOC, Given
<1>2. CASE FullSlots(m) = {}
  BY <1>1, <1>2, PagesAssumption DEF Take
<1>3. CASE FullSlots(m) # {}
  <2>1. \E x \in FullSlots(m) : \A y \in FullSlots(m) : x <= y
    <3>1. FullSlots(m) \subseteq Nat
      BY PagesAssumption DEF FullSlots, Slot
    <3>2. PICK x \in FullSlots(m) : \A y \in FullSlots(m) : <<y, x>> \notin OpToRel(<, Nat)
      BY <1>3, <3>1, WFMin, NatLessThanWellFounded
    <3>3. \A y \in FullSlots(m) : ~(y < x)
      BY <3>1, <3>2 DEF OpToRel
    <3> QED BY <3>1, <3>3
  <2>2. Lowest(FullSlots(m)) \in FullSlots(m)
    BY <2>1 DEF Lowest
  <2>3. Take(m).page = m.pool[Lowest(FullSlots(m))]
    BY <1>3 DEF Take, TakeFrom
  <2> QED BY <1>1, <2>2, <2>3 DEF FullSlots
<1> QED BY <1>2, <1>3

\* UP_ALLOC4 adds an entry for the page to the half and leaves the others alone.
LEMMA FaultedEntry ==
    ASSUME NEW m, NEW half, NEW page
    PROVE  \E ad : UP_ALLOC4(m, half, page).half.pt = With(half.pt, page, ad)
BY DEF UP_ALLOC4, Mapped

\* The value of a function with one more entry at that entry.
LEMMA WithValue == ASSUME NEW f, NEW x, NEW y PROVE With(f, x, y)[x] = y
BY DEF With

-----------------------------------------------------------------------------
\* The boot's task is the only one, and has an empty half.
LEMMA InitHalf == Init => HalfInv
<1> SUFFICES ASSUME Init PROVE HalfInv
  OBVIOUS
<1> DEFINE first == KPALLOC(P_ALLOC3_SETUP).page
<1>1. first # Nothing
  BY TakenPage
<1>2. cr3 = [t \in Tasks |-> IF t = Boot THEN first ELSE Nothing]
  BY DEF Init, StartWith
<1> HIDE DEF first
<1>3. /\ saved = [t \in Tasks |-> NoHalf] /\ faulted = [t \in Tasks |-> Empty]
      /\ live = NoHalf /\ current = Boot /\ dead = {}
  BY DEF Init
<1>4. OfTasks(cr3) /\ OfTasks(saved) /\ OfTasks(faulted)
  BY <1>2, <1>3 DEF OfTasks
<1>5. current \in Tasks /\ current \notin dead /\ cr3[current] # Nothing
  BY <1>1, <1>2, <1>3, PagesAssumption
<1>6. OwnHalf
  BY <1>3 DEF OwnHalf, HalfOf, NoHalf, Existing
<1> QED BY <1>4, <1>5, <1>6 DEF HalfInv

\* A step that leaves the tasks alone.
LEMMA OtherHalf == ASSUME HalfInv, UNCHANGED tasks PROVE HalfInv'
BY DEF HalfInv, tasks, OfTasks, OwnHalf, Existing, HalfOf

\* A new task has an empty half, and nothing of another's.
LEMMA SpawnHalf == ASSUME HalfInv, Spawn PROVE HalfInv'
<1>1. PICK t \in Tasks : \E page :
          /\ cr3[t] = Nothing /\ cr3' = [cr3 EXCEPT ![t] = page]
          /\ saved' = [saved EXCEPT ![t] = NoHalf] /\ faulted' = [faulted EXCEPT ![t] = Empty]
          /\ UNCHANGED <<current, dead, live>>
  BY DEF Spawn
<1>2. t # current
  BY <1>1 DEF HalfInv
<1>3. /\ OfTasks(cr3') /\ OfTasks(saved') /\ OfTasks(faulted')
      /\ saved'[t] = NoHalf /\ faulted'[t] = Empty
      /\ \A u \in Tasks : u # t => cr3'[u] = cr3[u] /\ saved'[u] = saved[u] /\ faulted'[u] = faulted[u]
  BY <1>1 DEF HalfInv, OfTasks
<1>4. OwnHalf'
  <2> SUFFICES ASSUME NEW u \in Tasks, cr3'[u] # Nothing, u \notin dead
               PROVE  (IF u = current THEN live ELSE saved'[u]).pt = faulted'[u]
    BY <1>1 DEF OwnHalf, Existing, HalfOf
  <2>1. CASE u = t
    BY <1>2, <1>3, <2>1 DEF NoHalf
  <2>2. CASE u # t
    BY <1>3, <2>2 DEF HalfInv, OwnHalf, Existing, HalfOf
  <2> QED BY <2>1, <2>2
<1> QED BY <1>1, <1>2, <1>3, <1>4 DEF HalfInv

\* A page fault gives the running task, and nobody else, one entry more.
LEMMA FaultHalf == ASSUME HalfInv, Fault PROVE HalfInv'
<1>1. PICK page :
          /\ live' = UP_ALLOC4(Mem, live, page).half
          /\ faulted' = [faulted EXCEPT ![current] = With(@, page, live'.pt[page])]
          /\ UNCHANGED <<current, cr3, dead, saved>>
  BY DEF Fault
<1>2. PICK ad : live'.pt = With(live.pt, page, ad)
  BY <1>1, FaultedEntry
<1>3. live.pt = faulted[current]
  BY DEF HalfInv, OwnHalf, Existing, HalfOf
<1>4. live'.pt = With(faulted[current], page, live'.pt[page])
  BY <1>2, <1>3, WithValue
<1>5. /\ OfTasks(faulted') /\ faulted'[current] = live'.pt
      /\ \A u \in Tasks : u # current => faulted'[u] = faulted[u]
  <2>1. PICK pt : pt = live'.pt
    OBVIOUS
  <2>2. faulted' = [faulted EXCEPT ![current] = pt]
    BY <1>1, <1>4, <2>1
  <2> QED BY <2>1, <2>2 DEF HalfInv, OfTasks
<1>6. OwnHalf'
  BY <1>1, <1>5 DEF HalfInv, OwnHalf, Existing, HalfOf
<1> QED BY <1>1, <1>5, <1>6 DEF HalfInv

\* The exchange keeps what it takes out of the tables for the task it belongs to.
LEMMA ScheduleHalf ==
    ASSUME HalfInv, NEW next \in Tasks, NEW dies \in BOOLEAN, Schedule(next, dies)
    PROVE  HalfInv'
<1>1. /\ next # current /\ cr3[next] # Nothing /\ next \notin dead
      /\ cr3' = [t \in Tasks |-> IF t \in dead THEN Nothing ELSE cr3[t]]
      /\ dead' = IF dies THEN {current} ELSE {}
      /\ saved' = [saved EXCEPT ![current] = live]
      /\ live' = saved[next] /\ current' = next
      /\ faulted' = faulted
  BY DEF Schedule, switch_to_task_wrapper, Exchange
<1>2. /\ OfTasks(saved') /\ saved'[current] = live
      /\ \A u \in Tasks : u # current => saved'[u] = saved[u]
  BY <1>1 DEF HalfInv, OfTasks
<1>3. OfTasks(cr3') /\ OfTasks(faulted')
  BY <1>1 DEF OfTasks, HalfInv
<1>4. current' \in Tasks /\ current' \notin dead' /\ cr3'[current'] # Nothing
  BY <1>1
<1>5. OwnHalf'
  <2> SUFFICES ASSUME NEW u \in Tasks, cr3'[u] # Nothing
               PROVE  (IF u = next THEN saved[next] ELSE saved'[u]).pt = faulted[u]
    BY <1>1 DEF OwnHalf, Existing, HalfOf
  <2>1. u \notin dead /\ cr3[u] # Nothing
    BY <1>1
  <2>2. (IF u = current THEN live ELSE saved[u]).pt = faulted[u]
    BY <2>1 DEF HalfInv, OwnHalf, Existing, HalfOf
  <2> QED BY <1>1, <1>2, <2>2
<1> QED BY <1>2, <1>3, <1>4, <1>5 DEF HalfInv

\* Every step keeps the halves apart.
LEMMA NextHalf == ASSUME HalfInv, [Next]_vars PROVE HalfInv'
<1>1. CASE UNCHANGED vars
  BY <1>1, OtherHalf DEF vars
<1>2. CASE Alloc \/ AllocRun \/ Cache
  BY <1>2, OtherHalf DEF Alloc, AllocRun, Cache
<1>3. CASE Free
  BY <1>3, OtherHalf DEF Free, tasks
<1>4. CASE Load \/ Sbrk
  BY <1>4 DEF Load, Sbrk, HalfInv, OfTasks, OwnHalf, Existing, HalfOf
<1>5. CASE Switch \/ Exit
  BY <1>5, ScheduleHalf DEF Switch, Exit
<1> QED BY <1>1, <1>2, <1>3, <1>4, <1>5, SpawnHalf, FaultHalf DEF Next, Halted

\* Through every allocation, fault, exchange and death, a task that runs finds the pages
\* PAGE_FAULT has mapped for it in the tables, and nobody else's.
THEOREM OwnHalfCorrect == Spec => []OwnHalf
<1>1. HalfInv /\ [Next]_vars => HalfInv'
  BY NextHalf
<1>2. HalfInv => OwnHalf
  BY DEF HalfInv
<1> QED BY InitHalf, <1>1, <1>2, PTL DEF Spec

-----------------------------------------------------------------------------
\* What the processor has cached

\* An empty TLB holds nothing of another half, and one that is kept while the half in
\* force stays holds nothing new.
LEMMA Flushed == ASSUME FLUSH_TLB PROVE OwnAccesses'
  BY DEF FLUSH_TLB, Empty, OwnAccesses

LEMMA SameAccesses == ASSUME OwnAccesses, UNCHANGED <<live, tlb>> PROVE OwnAccesses'
  BY DEF OwnAccesses

\* The processor takes an entry from the half in force.
LEMMA CachedAccesses == ASSUME OwnAccesses, Cache PROVE OwnAccesses'
<1>1. PICK page \in DOMAIN live.pt : tlb' = With(tlb, page, live.pt[page]) /\ live' = live
  BY DEF Cache, tasks
<1>2. /\ DOMAIN tlb' = DOMAIN tlb \cup {page}
      /\ \A p \in DOMAIN tlb' : tlb'[p] = IF p = page THEN live.pt[page] ELSE tlb[p]
  BY <1>1 DEF With
<1> QED BY <1>1, <1>2 DEF OwnAccesses

\* Through every switch, with or without a task to reap, and every fault, the processor
\* uses for the running task the entries of its own half only.
THEOREM OwnAccessesCorrect == Spec => []OwnAccesses
<1>1. Init => OwnAccesses
  BY DEF Init, Empty, OwnAccesses
<1>2. ASSUME OwnAccesses, [Next]_vars PROVE OwnAccesses'
  <2>1. CASE UNCHANGED vars
    BY <1>2, <2>1, SameAccesses DEF vars, tasks
  <2>2. CASE Alloc
    <3>1. live' = live /\ (tlb' = tlb \/ FLUSH_TLB)
      BY <2>2 DEF Alloc, tasks
    <3> QED BY <1>2, <3>1, SameAccesses, Flushed
  <2>3. CASE AllocRun \/ Free \/ Fault
    BY <2>3, Flushed DEF AllocRun, Free, Fault
  <2>4. CASE Spawn
    <3>1. live' = live /\ (tlb' = tlb \/ FLUSH_TLB)
      BY <2>4 DEF Spawn
    <3> QED BY <1>2, <3>1, SameAccesses, Flushed
  <2>5. CASE Load \/ Sbrk
    BY <1>2, <2>5, SameAccesses DEF Load, Sbrk
  <2>6. CASE Cache
    BY <1>2, <2>6, CachedAccesses
  <2>7. CASE Switch \/ Exit
    BY <2>7, Flushed DEF Switch, Exit, Schedule, switch_to_task_wrapper
  <2> QED BY <1>2, <2>1, <2>2, <2>3, <2>4, <2>5, <2>6, <2>7 DEF Next, Halted
<1> QED BY <1>1, <1>2, PTL DEF Spec

-----------------------------------------------------------------------------
\* The pages and their owners

\* The pages of the kernel's half that are in use outside the pool, and the physical
\* pages the user halves map.
InUse == (UNION {Pages(run) : run \in held}) \cup {cr3[t] : t \in Existing}
            \cup ({HalfOf(t).table : t \in Existing} \ {Nothing})
InHalves == UNION {{HalfOf(t).pt[p] : p \in DOMAIN HalfOf(t).pt} : t \in Existing}

\* What is in use belongs to one run, one task or one half, and is not the boot's.
Apart ==
    /\ \A r \in held : Pages(r) \cap BootPages = {} /\ \A s \in held : r = s \/ Pages(r) \cap Pages(s) = {}
    /\ \A t \in Existing :
         /\ cr3[t] \notin BootPages
         /\ \A r \in held : cr3[t] \notin Pages(r)
         /\ \A u \in Existing : cr3[t] = cr3[u] => t = u
    /\ \A t \in Existing : HalfOf(t).table # Nothing =>
         /\ \A r \in held : HalfOf(t).table \notin Pages(r)
         /\ \A u \in Existing : /\ HalfOf(t).table # cr3[u]
                                /\ HalfOf(t).table = HalfOf(u).table => t = u
    /\ \A t, u \in Existing : \A p \in DOMAIN HalfOf(t).pt, q \in DOMAIN HalfOf(u).pt :
         HalfOf(t).pt[p] = HalfOf(u).pt[q] => t = u /\ p = q

\* The variables have the shapes the code gives them; one task at most waits for reap.
Shape ==
    /\ held \subseteq [at : Nat, len : Nat \ {0}] /\ calls \in 0..MaxCalls
    /\ cr3 \in [Tasks -> {Nothing} \cup Nat]
    /\ live \in Half /\ saved \in [Tasks -> Half] /\ brk \in [Tasks -> SUBSET UserPages]
    /\ dead \subseteq Tasks /\ (\A t, u \in dead : t = u) /\ \A t \in dead : cr3[t] # Nothing

\* The pages, the bitmap and the pool between two calls.
Kept ==
    /\ VirtInv(Mem, InUse) /\ PhysInv(Mem, InHalves) /\ Stocked(Mem)
    /\ fault \in {"none", "search without an end"}

PagesInv == HalfInv /\ Shape /\ Apart /\ Kept

\* The state as a record becomes the record a step says.
LEMMA BecomesMem ==
    ASSUME NEW m, IsMem(m), Becomes(m)
    PROVE  Mem' = m /\ fault' = m.fault
BY DEF IsMem, Becomes, Mem

LEMMA MemIsMem == IsMem(Mem) /\ Mem.fault = fault /\ Mem.pool = pool /\ Mem.kpt = kpt
                  /\ Mem.marked = marked /\ Mem.ktables = ktables
BY DEF IsMem, Mem

\* The boot marks its pages and no other.
LEMMA BootBits == UNION {IntBits(i) : i \in BootPages} = BootPages
<1>1. ASSUME NEW i \in BootPages, NEW p \in IntBits(i) PROVE p \in BootPages
  <2>1. i \in Phys /\ i \in Nat /\ i \div Width \in Nat
    BY Widths, Coordinates
  <2> DEFINE b == i % IntWidth
             first == ((i \div Width) * Width) + b
  <2>2. b \in 0..(Width - 1)
    <3>1. b \in 0..(IntWidth - 1)
      BY <2>1, Widths
    <3> HIDE DEF b
    <3> QED BY <3>1, Widths
  <2>3. first \in Word(i)
    BY <2>2 DEF Word
  <2>4. p \in Word(i)
    BY <1>1, <2>3 DEF IntBits
  <2>5. p \in Phys /\ p \div Width = i \div Width
    BY <2>1, <2>4, WordOf
  <2> QED BY <2>1, <2>5, BootWord, Widths
<1>2. ASSUME NEW p \in BootPages PROVE \E i \in BootPages : p \in IntBits(i)
  <2>1. p \in Phys
    BY Widths
  <2>2. CASE Lower(p)
    BY <2>1, <2>2, BitsOf
  <2>3. CASE ~Lower(p)
    <3>1. Sign(p) \in Phys /\ Lower(Sign(p)) /\ Sign(p) \in BootPages
      BY <2>1, SignOf
    <3>2. p \in IntBits(Sign(p))
      BY <2>1, <2>3, <3>1, BitsOf
    <3> QED BY <3>1, <3>2
  <2> QED BY <2>2, <2>3
<1> QED BY <1>1, <1>2

\* What the boot starts from.
LEMMA BootMemInv ==
    /\ IsMem(BootMem) /\ VirtInv(BootMem, {}) /\ Sound(BootMem, {})
    /\ FullSlots(BootMem) = DOMAIN BootPool /\ BootMem.fault = "none"
<1>1. /\ IsMem(BootMem) /\ BootMem.fault = "none" /\ BootMem.ktables = {}
      /\ BootMem.marked = BootPages
      /\ BootMem.kpt = [p \in BootPages |-> p]
      /\ BootMem.pool = [s \in Slot |-> IF s \in DOMAIN BootPool THEN BootPool[s] ELSE Nothing]
  <2>1. BootMem.marked = UNION {IntBits(i) : i \in BootPages}
    BY DEF BootMem
  <2>2. BootMem.marked = BootPages
    BY <2>1, BootBits
  <2>3. /\ BootMem.fault = "none" /\ BootMem.ktables = {}
        /\ BootMem.kpt = [p \in BootPages |-> p]
        /\ BootMem.pool = [s \in Slot |-> IF s \in DOMAIN BootPool THEN BootPool[s] ELSE Nothing]
    BY DEF BootMem
  <2>4. IsMem(BootMem)
    BY DEF IsMem, BootMem
  <2> QED BY <2>2, <2>3, <2>4
<1>2. \A s \in DOMAIN BootPool : BootPool[s] \in BootPages /\ BootPool[s] \in Nat /\ BootPool[s] # Nothing
                                 /\ s \in Slot /\ Low <= s
  <2>1. \A s \in DOMAIN BootPool : BootPool[s] \in BootPages
    BY PagesAssumption
  <2>2. \A s \in DOMAIN BootPool : s \in Slot /\ Low <= s
    BY PoolFacts
  <2>3. BootPages \subseteq Nat /\ Nothing \notin Nat
    BY Widths, PoolFacts
  <2> QED BY <2>1, <2>2, <2>3
<1>3. FullSlots(BootMem) = DOMAIN BootPool /\ \A s \in DOMAIN BootPool : BootMem.pool[s] = BootPool[s]
  BY <1>1, <1>2 DEF FullSlots
<1>4. BootMem.pool \in [Slot -> {Nothing} \cup Nat]
  BY <1>1, <1>2
<1>5. IsFiniteSet(BootMem.ktables) /\ Cardinality(BootMem.ktables) = 0
  BY <1>1, FS_EmptySet
<1>6. Described(BootMem) = BootPages
  <2>1. Described(BootMem) = 0..((0 * PerTable) + PerTable - 1)
    BY <1>5, DescribedIs
  <2>2. PerTable = BootWords * Width /\ PerTable \in Nat
    BY PoolFacts
  <2>3. Described(BootMem) = 0..(PerTable - 1)
    BY <2>1, <2>2
  <2> QED BY <2>2, <2>3 DEF BootPages
<1>7. \A s, u \in DOMAIN BootPool : BootPool[s] = BootPool[u] => s = u
  BY PagesAssumption
<1>8. VirtInv(BootMem, {})
  BY <1>1, <1>2, <1>3, <1>4, <1>5, <1>6, <1>7 DEF VirtInv
<1>9. BitInv(BootMem.marked)
  BY <1>1, SignOf, Widths DEF BitInv
<1>10. PhysInv(BootMem, {})
  BY <1>1, <1>9 DEF PhysInv
<1> QED BY <1>1, <1>3, <1>8, <1>10 DEF Sound

\* The first task's page comes from a pool that is stocked.
LEMMA StartInv ==
    LET got == KPALLOC(P_ALLOC3_SETUP)
    IN  /\ IsMem(got.mem) /\ VirtInv(got.mem, {got.page}) /\ PhysInv(got.mem, {}) /\ Stocked(got.mem)
        /\ got.mem.fault = "none" /\ got.page \in Nat /\ got.page \notin BootPages
<1> DEFINE first == KPALLOC(BootMem)
           m == P_ALLOC3_SETUP
           got == KPALLOC(m)
<1>1. PICK x \in DOMAIN BootPool : \E y \in DOMAIN BootPool : x # y
  BY PagesAssumption
<1>2. FullSlots(BootMem) \subseteq Threshold..LastSlot
  BY BootMemInv, PoolFacts
<1>3. /\ IsMem(first.mem) /\ VirtInv(first.mem, {} \cup {first.page}) /\ Sound(first.mem, {})
      /\ first.page \in Nat
      /\ (first.mem.fault = "none" => Stocked(first.mem))
  BY <1>1, <1>2, BootMemInv, KPALLOCInv
<1>4. LastSlot \in Slot /\ Low <= LastSlot /\ LastSlot \notin Threshold..(Low - 1)
  BY PoolFacts DEF Slot
<1>5. m = Into(first, LastSlot)
  BY DEF P_ALLOC3_SETUP
<1> HIDE DEF first, m
<1>6. /\ IsMem(m) /\ VirtInv(m, {}) /\ Sound(m, {}) /\ m.fault = first.mem.fault
      /\ FullSlots(m) = FullSlots(first.mem) \cup {LastSlot}
  BY <1>3, <1>4, <1>5, IntoInv
<1>7. m.fault = "none"
  <2> SUFFICES ASSUME m.fault # "none" PROVE FALSE
    OBVIOUS
  <2>1. FullSlots(m) # {}
    BY <1>6
  <2>2. Take(m) = TakeFrom(m, Lowest(FullSlots(m))) /\ Lowest(FullSlots(m)) \in FullSlots(m)
    BY <2>1, TakeIs
  <2>3. Take(m).mem.fault = m.fault
    BY <1>6, <2>2 DEF TakeFrom, IsMem
  <2>4. got.mem = Take(m).mem
    BY <2>3 DEF KPALLOC, Given, Refills
  <2>5. got.mem.fault # "second level"
    BY BootFits DEF OneLevel, m
  <2> QED BY <1>6, <2>3, <2>4, <2>5 DEF Sound
<1>8. Stocked(m)
  BY <1>3, <1>6, <1>7 DEF Stocked
<1>9. \E a, b \in FullSlots(m) : a # b
  <2>1. Threshold \in FullSlots(m) /\ Threshold + 1 \in FullSlots(m) /\ Threshold # Threshold + 1
    BY <1>8, PoolFacts DEF Stocked
  <2> QED BY <2>1
<1>10. /\ IsMem(got.mem) /\ VirtInv(got.mem, {} \cup {got.page}) /\ Sound(got.mem, {})
       /\ got.page \in Nat
       /\ (got.mem.fault = "none" => Stocked(got.mem) /\ got.page \notin BootPages)
  <2>1. PICK a \in FullSlots(m), b \in FullSlots(m) : a # b
    BY <1>9
  <2>2. IsMem(m) /\ VirtInv(m, {}) /\ Sound(m, {}) /\ Stocked(m)
    BY <1>6, <1>8
  <2> QED BY <2>1, <2>2, KPALLOCInv
<1>11. got.mem.fault # "second level"
  BY BootFits DEF OneLevel, m
<1>12. got.mem.fault = "none" /\ PhysInv(got.mem, {})
  BY <1>10, <1>11 DEF Sound
<1> QED BY <1>10, <1>12 DEF m

\* Two slots of a stocked pool are full.
LEMMA TwoFull == ASSUME NEW m, Stocked(m) PROVE \E a, b \in FullSlots(m) : a # b
<1>1. Threshold \in FullSlots(m) /\ Threshold + 1 \in FullSlots(m) /\ Threshold # Threshold + 1
  BY PoolFacts DEF Stocked
<1> QED BY <1>1

\* An ERROR() changes nothing but the fault.
LEMMA FaultOnly ==
    ASSUME NEW m, IsMem(m), NEW f
    PROVE  LET r == [m EXCEPT !.fault = f]
           IN  /\ IsMem(r) /\ r.fault = f /\ r.pool = m.pool /\ r.kpt = m.kpt
               /\ r.marked = m.marked /\ r.ktables = m.ktables
BY DEF IsMem

\* What a step that begins with KPALLOC leaves.
LEMMA TakenStep ==
    ASSUME NEW m, NEW Out, NEW U, IsMem(m), VirtInv(m, Out), Sound(m, U), Stocked(m),
           OneLevel(KPALLOC(m).mem), Becomes(KPALLOC(m).mem)
    PROVE  /\ VirtInv(Mem', Out \cup {KPALLOC(m).page}) /\ PhysInv(Mem', U) /\ Stocked(Mem')
           /\ fault' = "none" /\ m.fault = "none"
           /\ KPALLOC(m).page \in Nat /\ KPALLOC(m).page \notin Out /\ KPALLOC(m).page \notin BootPages
<1> DEFINE got == KPALLOC(m)
<1>1. PICK a \in FullSlots(m), b \in FullSlots(m) : a # b
  BY TwoFull
<1>2. /\ IsMem(got.mem) /\ VirtInv(got.mem, Out \cup {got.page}) /\ Sound(got.mem, U)
      /\ got.page \in Nat /\ got.page \notin Out
      /\ (m.fault # "none" => got.mem.fault = m.fault)
      /\ (got.mem.fault = "none" => Stocked(got.mem) /\ got.page \notin BootPages)
  BY <1>1, KPALLOCInv
<1> HIDE DEF got
<1>3. got.mem.fault # "second level" /\ Becomes(got.mem)
  BY DEF OneLevel, got
<1>4. got.mem.fault = "none" /\ PhysInv(got.mem, U) /\ m.fault = "none"
  BY <1>2, <1>3 DEF Sound
<1>5. Mem' = got.mem /\ fault' = "none"
  BY <1>2, <1>3, <1>4, BecomesMem
<1>6. VirtInv(Mem', Out \cup {got.page}) /\ PhysInv(Mem', U) /\ Stocked(Mem')
  BY <1>2, <1>4, <1>5
<1> QED BY <1>2, <1>4, <1>5, <1>6 DEF got

\* What the pages are between two calls, of the machine that runs.
LEMMA KeptSound == ASSUME Kept, Alive PROVE VirtInv(Mem, InUse) /\ Sound(Mem, InHalves) /\ Stocked(Mem)
BY MemIsMem DEF Kept, Alive, Sound

\* What is in use, after steps that leave the tasks alone or lose one.
LEMMA SameOwners ==
    ASSUME Apart, Existing' \subseteq Existing, held' \subseteq held,
           \A t \in Existing' : cr3'[t] = cr3[t] /\ HalfOf(t)' = HalfOf(t)
    PROVE  Apart' /\ InUse' \subseteq InUse /\ InHalves' \subseteq InHalves
<1>1. \A r : Pages(r)' = Pages(r)
  BY DEF Pages
<1>2. InUse' \subseteq InUse
  BY <1>1 DEF InUse
<1>3. InHalves' \subseteq InHalves
  BY DEF InHalves
<1>4. Apart'
  <2>1. \A r \in held' : Pages(r) \cap BootPages = {} /\ \A s \in held' : r = s \/ Pages(r) \cap Pages(s) = {}
    BY DEF Apart
  <2>2. \A t \in Existing' : /\ cr3'[t] \notin BootPages
                             /\ \A r \in held' : cr3'[t] \notin Pages(r)
                             /\ \A u \in Existing' : cr3'[t] = cr3'[u] => t = u
    BY DEF Apart
  <2>3. \A t \in Existing' : HalfOf(t)'.table # Nothing =>
         /\ \A r \in held' : HalfOf(t)'.table \notin Pages(r)
         /\ \A u \in Existing' : /\ HalfOf(t)'.table # cr3'[u]
                                 /\ HalfOf(t)'.table = HalfOf(u)'.table => t = u
    BY DEF Apart
  <2>4. \A t, u \in Existing' : \A p \in DOMAIN HalfOf(t)'.pt, q \in DOMAIN HalfOf(u)'.pt :
         HalfOf(t)'.pt[p] = HalfOf(u)'.pt[q] => t = u /\ p = q
    BY DEF Apart
  <2> QED BY <1>1, <2>1, <2>2, <2>3, <2>4 DEF Apart
<1> QED BY <1>2, <1>3, <1>4

\* The halves of the tasks do not change when no task does.
LEMMA SameTasks ==
    ASSUME UNCHANGED <<current, cr3, live, saved>>
    PROVE  Existing' = Existing /\ \A t : cr3'[t] = cr3[t] /\ HalfOf(t)' = HalfOf(t)
BY DEF Existing, HalfOf

\* A run of pages that were not in use.
LEMMA NewRun ==
    ASSUME Apart, UNCHANGED tasks, NEW run, held' = held \cup {run},
           \A p \in Pages(run) : p \notin InUse /\ p \notin BootPages
    PROVE  Apart' /\ InUse' \subseteq InUse \cup Pages(run) /\ InHalves' \subseteq InHalves
<1>1. \A r : Pages(r)' = Pages(r)
  BY DEF Pages
<1>2. Existing' = Existing /\ \A t : cr3'[t] = cr3[t] /\ HalfOf(t)' = HalfOf(t)
  BY SameTasks DEF tasks
<1>3. InUse' \subseteq InUse \cup Pages(run)
  BY <1>1, <1>2 DEF InUse
<1>4. InHalves' \subseteq InHalves
  BY <1>2 DEF InHalves
<1>5. /\ \A r \in held : Pages(r) \cap Pages(run) = {}
      /\ \A t \in Existing : cr3[t] \notin Pages(run)
      /\ \A t \in Existing : HalfOf(t).table # Nothing => HalfOf(t).table \notin Pages(run)
  <2>1. ASSUME NEW r \in held, NEW p \in Pages(r) PROVE p \in InUse
    BY DEF InUse
  <2>2. ASSUME NEW t \in Existing PROVE cr3[t] \in InUse /\ (HalfOf(t).table # Nothing => HalfOf(t).table \in InUse)
    BY DEF InUse
  <2> QED BY <2>1, <2>2
<1>6. \A r \in held' : Pages(r) \cap BootPages = {} /\ \A s \in held' : r = s \/ Pages(r) \cap Pages(s) = {}
  BY <1>5 DEF Apart
<1>7. \A t \in Existing : \A r \in held' : cr3[t] \notin Pages(r)
  BY <1>5 DEF Apart
<1>8. \A t \in Existing : HalfOf(t).table # Nothing => \A r \in held' : HalfOf(t).table \notin Pages(r)
  BY <1>5 DEF Apart
<1>9. Apart'
  BY <1>1, <1>2, <1>6, <1>7, <1>8 DEF Apart
<1> QED BY <1>3, <1>4, <1>9

-----------------------------------------------------------------------------
\* The variables keep their shapes when the tasks do not change.
LEMMA SameShape ==
    ASSUME Shape, UNCHANGED tasks, held' \subseteq [at : Nat, len : Nat \ {0}], calls' \in 0..MaxCalls
    PROVE  Shape'
BY DEF Shape, tasks, Half

\* KPALLOC for a caller in the kernel.
LEMMA AllocPages == ASSUME PagesInv, Alive, Alloc PROVE (Shape /\ Apart /\ Kept)'
<1> DEFINE got == KPALLOC(Mem)
           run == [at |-> got.page, len |-> 1]
<1>1. /\ OneLevel(got.mem) /\ Becomes(got.mem) /\ held' = held \cup {run}
      /\ calls' = calls + 1 /\ calls < MaxCalls /\ UNCHANGED tasks
  BY DEF Alloc, Called
<1>2. Shape /\ Apart /\ Kept
  BY DEF PagesInv
<1>3. VirtInv(Mem, InUse) /\ Sound(Mem, InHalves) /\ Stocked(Mem) /\ IsMem(Mem)
  BY <1>2, KeptSound, MemIsMem
<1>4. /\ VirtInv(Mem', InUse \cup {got.page}) /\ PhysInv(Mem', InHalves) /\ Stocked(Mem')
      /\ fault' = "none"
      /\ got.page \in Nat /\ got.page \notin InUse /\ got.page \notin BootPages
  BY <1>1, <1>3, TakenStep
<1> HIDE DEF got
<1>5. run \in [at : Nat, len : Nat \ {0}] /\ Pages(run) = {got.page}
  BY <1>4 DEF Pages
<1> HIDE DEF run
<1>6. Apart' /\ InUse' \subseteq InUse \cup {got.page} /\ InHalves' \subseteq InHalves
  BY <1>1, <1>2, <1>4, <1>5, NewRun
<1>7. Shape'
  <2>1. held' \subseteq [at : Nat, len : Nat \ {0}] /\ calls' \in 0..MaxCalls
    BY <1>1, <1>2, <1>5, PagesAssumption DEF Shape
  <2> QED BY <1>1, <1>2, <2>1, SameShape
<1>8. VirtInv(Mem', InUse')
  BY <1>4, <1>6, VirtFewer
<1>9. PhysInv(Mem', InHalves')
  BY <1>4, <1>6 DEF PhysInv
<1> QED BY <1>4, <1>6, <1>7, <1>8, <1>9 DEF Kept

\* KPALLOCS: the run that fits, or a search that does not end.
LEMMA AllocRunPages == ASSUME PagesInv, Alive, AllocRun PROVE (Shape /\ Apart /\ Kept)'
<1>1. PICK len \in Runs :
          /\ Called
          /\ LET got == KP_ALLOC4(Mem, len)
             IN  /\ OneLevel(got.mem) /\ Becomes(got.mem)
                 /\ held' = IF got.mem.fault = "none" THEN held \cup {[at |-> got.page, len |-> len]} ELSE held
          /\ UNCHANGED tasks
  BY DEF AllocRun
<1>2. Shape /\ Apart /\ Kept
  BY DEF PagesInv
<1>3. VirtInv(Mem, InUse) /\ Sound(Mem, InHalves) /\ Stocked(Mem) /\ IsMem(Mem)
  BY <1>2, KeptSound, MemIsMem
<1>4. len \in Nat \ {0} /\ calls' \in 0..MaxCalls
  BY <1>1, <1>2, PagesAssumption DEF Called, Shape
<1>5. CASE Fits(Mem, len) = {}
  <2> DEFINE r == [Mem EXCEPT !.fault = "search without an end"]
  <2>1. KP_ALLOC4(Mem, len).mem = r
    BY <1>5 DEF KP_ALLOC4
  <2>2. IsMem(r) /\ r.fault = "search without an end" /\ r.pool = pool /\ r.kpt = kpt
        /\ r.marked = marked /\ r.ktables = ktables
    <3>1. /\ IsMem(r) /\ r.fault = "search without an end" /\ r.pool = Mem.pool /\ r.kpt = Mem.kpt
          /\ r.marked = Mem.marked /\ r.ktables = Mem.ktables
      BY <1>3, FaultOnly
    <3> QED BY <3>1, MemIsMem
  <2> HIDE DEF r
  <2>3. Becomes(r) /\ held' = held
    BY <1>1, <2>1, <2>2
  <2>4. Mem' = r /\ fault' = "search without an end"
    BY <2>2, <2>3, BecomesMem
  <2>5. Existing' = Existing /\ \A t : cr3'[t] = cr3[t] /\ HalfOf(t)' = HalfOf(t)
    BY <1>1, SameTasks DEF tasks
  <2>6. Apart' /\ InUse' \subseteq InUse /\ InHalves' \subseteq InHalves
    BY <1>2, <2>3, <2>5, SameOwners
  <2>7. VirtInv(r, InUse) /\ PhysInv(r, InHalves) /\ Stocked(r)
    <3>1. r.marked = Mem.marked /\ r.pool = Mem.pool /\ r.kpt = Mem.kpt /\ r.ktables = Mem.ktables
      BY <2>2, MemIsMem
    <3>2. FullSlots(r) = FullSlots(Mem) /\ Described(r) = Described(Mem)
      BY <3>1 DEF FullSlots, Described
    <3>3. VirtInv(r, InUse)
      BY <1>3, <3>1, <3>2 DEF VirtInv
    <3>4. PhysInv(r, InHalves)
      BY <1>2, <3>1 DEF Kept, PhysInv
    <3> QED BY <1>3, <3>2, <3>3, <3>4 DEF Stocked
  <2>8. VirtInv(r, InUse')
    BY <2>6, <2>7, VirtFewer
  <2>9. PhysInv(r, InHalves')
    BY <2>6, <2>7 DEF PhysInv
  <2>10. Shape'
    BY <1>1, <1>2, <1>4, <2>3, SameShape DEF Shape
  <2> QED BY <2>4, <2>6, <2>7, <2>8, <2>9, <2>10 DEF Kept
<1>6. CASE Fits(Mem, len) # {}
  <2> DEFINE at == Lowest(Fits(Mem, len))
             r == Entered(Mem, at, len)
             run == [at |-> at, len |-> len]
  <2>1. KP_ALLOC4(Mem, len).page = at /\ KP_ALLOC4(Mem, len).mem = r
    BY <1>6 DEF KP_ALLOC4
  <2>2. at \in Nat /\ at..(at + len - 1) \subseteq FreeEntries(Mem)
    <3>1. Described(Mem) \subseteq Nat
      BY <1>3, DescribedIs DEF VirtInv
    <3>2. Fits(Mem, len) \in SUBSET Nat
      BY <3>1 DEF Fits
    <3>3. at \in Fits(Mem, len)
      BY <1>6, <3>2, LowestIs
    <3> QED BY <3>2, <3>3 DEF Fits
  <2> HIDE DEF at
  <2>3. Pages(run) = at..(at + len - 1)
    BY DEF Pages
  <2>4. IsMem(r) /\ VirtInv(r, InUse \cup Pages(run)) /\ Sound(r, InHalves) /\ r.pool = pool
    BY <1>3, <1>4, <2>2, <2>3, EnteredInv, MemIsMem
  <2> HIDE DEF r
  <2>5. r.fault = "none" /\ PhysInv(r, InHalves) /\ Becomes(r)
    BY <1>1, <2>1, <2>4 DEF Sound, OneLevel
  <2>6. held' = held \cup {run}
    BY <1>1, <2>1, <2>5
  <2>7. Mem' = r /\ fault' = "none"
    BY <2>4, <2>5, BecomesMem
  <2>8. \A p \in Pages(run) : p \notin InUse /\ p \notin BootPages
    BY <1>3, <2>2, <2>3 DEF FreeEntries, VirtInv
  <2>9. run \in [at : Nat, len : Nat \ {0}]
    BY <1>4, <2>2
  <2> HIDE DEF run
  <2>10. Apart' /\ InUse' \subseteq InUse \cup Pages(run) /\ InHalves' \subseteq InHalves
    BY <1>1, <1>2, <2>6, <2>8, NewRun
  <2>11. Shape'
    <3>1. held' \subseteq [at : Nat, len : Nat \ {0}]
      BY <1>2, <2>6, <2>9 DEF Shape
    <3> QED BY <1>1, <1>2, <1>4, <3>1, SameShape
  <2>12. VirtInv(r, InUse') /\ PhysInv(r, InHalves')
    <3>1. VirtInv(r, InUse')
      BY <2>4, <2>10, VirtFewer
    <3> QED BY <2>5, <2>10, <3>1 DEF PhysInv
  <2>13. Stocked(r)
    BY <1>3, <2>4, MemIsMem DEF Stocked, FullSlots
  <2> QED BY <2>7, <2>10, <2>11, <2>12, <2>13 DEF Kept
<1> QED BY <1>5, <1>6

\* What a step that frees pages in use leaves, when nobody keeps them.
LEMMA FreedStep ==
    ASSUME PagesInv, Alive, NEW at \in Nat, NEW len \in Nat,
           at..(at + len - 1) \subseteq InUse \ BootPages,
           Becomes(P_FREES(Mem, [at |-> at, len |-> len])),
           InUse' \subseteq InUse \ (at..(at + len - 1)), InHalves' \subseteq InHalves
    PROVE  Kept'
<1> DEFINE r == P_FREES(Mem, [at |-> at, len |-> len])
<1>1. VirtInv(Mem, InUse) /\ PhysInv(Mem, InHalves) /\ Stocked(Mem) /\ IsMem(Mem) /\ Mem.fault = "none"
  BY MemIsMem DEF PagesInv, Kept, Alive
<1>2. /\ IsMem(r) /\ VirtInv(r, InUse \ (at..(at + len - 1))) /\ PhysInv(r, InHalves)
      /\ r.fault = "none" /\ r.pool = Mem.pool
  <2> DEFINE m == Mem
             Out == InUse
             U == InHalves
  <2>1. IsMem(m) /\ VirtInv(m, Out) /\ m.fault = "none" /\ PhysInv(m, U)
        /\ at..(at + len - 1) \subseteq Out \ BootPages
    BY <1>1
  <2> HIDE DEF m, Out, U
  <2> DEFINE n == P_FREES(m, [at |-> at, len |-> len])
  <2>2. /\ IsMem(n) /\ VirtInv(n, Out \ (at..(at + len - 1))) /\ PhysInv(n, U)
        /\ n.fault = "none" /\ n.pool = m.pool
    BY <2>1, FreedInv, SMTT(20)
  <2> QED BY <2>2 DEF m, Out, U
<1> HIDE DEF r
<1>3. Mem' = r /\ fault' = "none"
  BY <1>2, BecomesMem DEF r
<1>4. VirtInv(r, InUse')
  BY <1>2, VirtFewer
<1>5. PhysInv(r, InHalves')
  BY <1>2 DEF PhysInv
<1>6. Stocked(r)
  BY <1>1, <1>2 DEF Stocked, FullSlots
<1> QED BY <1>3, <1>4, <1>5, <1>6 DEF Kept

\* P_FREES of a run by its holder.
LEMMA FreePages == ASSUME PagesInv, Alive, Free PROVE (Shape /\ Apart /\ Kept)'
<1>1. PICK run \in held :
          Becomes(P_FREES(Mem, run)) /\ held' = held \ {run} /\ UNCHANGED <<calls, tasks>>
  BY DEF Free
<1>2. Shape /\ Apart
  BY DEF PagesInv
<1>3. PICK at \in Nat, len \in Nat : run = [at |-> at, len |-> len]
  BY <1>2 DEF Shape
<1>4. Pages(run) = at..(at + len - 1)
  BY <1>3 DEF Pages
<1>5. Existing' = Existing /\ \A t : cr3'[t] = cr3[t] /\ HalfOf(t)' = HalfOf(t)
  BY <1>1, SameTasks DEF tasks
<1>6. Apart' /\ InUse' \subseteq InUse /\ InHalves' \subseteq InHalves
  BY <1>1, <1>2, <1>5, SameOwners
<1>7. InUse' \subseteq InUse \ Pages(run)
  <2> SUFFICES ASSUME NEW p \in InUse', p \in Pages(run) PROVE FALSE
    BY <1>6
  <2>1. \/ \E r \in held' : p \in Pages(r)
        \/ \E t \in Existing : p = cr3[t]
        \/ \E t \in Existing : p = HalfOf(t).table /\ p # Nothing
    <3>1. \A r : Pages(r)' = Pages(r)
      BY DEF Pages
    <3> QED BY <1>5, <3>1 DEF InUse
  <2> QED BY <1>1, <1>2, <2>1 DEF Apart
<1>8. Pages(run) \subseteq InUse \ BootPages
  BY <1>2 DEF InUse, Apart
<1>9. Kept'
  BY <1>1, <1>3, <1>4, <1>6, <1>7, <1>8, FreedStep
<1>10. Shape'
  BY <1>1, <1>2, SameShape DEF Shape
<1> QED BY <1>6, <1>9, <1>10

\* A half in the shape of the code's.
LEMMA HalfShape ==
    ASSUME NEW h
    PROVE  h \in Half <=> /\ h = [table |-> h.table, pt |-> h.pt] /\ h.table \in {Nothing} \cup Nat
                          /\ DOMAIN h.pt \subseteq UserPages /\ h.pt \in [DOMAIN h.pt -> Phys]
<1>1. ASSUME h \in Half
      PROVE  /\ h = [table |-> h.table, pt |-> h.pt] /\ h.table \in {Nothing} \cup Nat
             /\ DOMAIN h.pt \subseteq UserPages /\ h.pt \in [DOMAIN h.pt -> Phys]
  <2>1. h.pt \in UNION {[S -> Phys] : S \in SUBSET UserPages}
    BY <1>1 DEF Half
  <2>2. PICK S \in SUBSET UserPages : h.pt \in [S -> Phys]
    BY <2>1
  <2> QED BY <1>1, <2>2 DEF Half
<1>2. ASSUME h = [table |-> h.table, pt |-> h.pt], h.table \in {Nothing} \cup Nat,
             DOMAIN h.pt \subseteq UserPages, h.pt \in [DOMAIN h.pt -> Phys]
      PROVE  h \in Half
  <2>1. h.pt \in UNION {[S -> Phys] : S \in SUBSET UserPages}
    BY <1>2
  <2> QED BY <1>2, <2>1 DEF Half
<1> QED BY <1>1, <1>2

\* The empty half.
LEMMA NoHalfShape == NoHalf \in Half /\ DOMAIN NoHalf.pt = {} /\ NoHalf.table = Nothing
<1>1. NoHalf.pt = Empty /\ NoHalf.table = Nothing /\ DOMAIN Empty = {} /\ NoHalf = [table |-> NoHalf.table, pt |-> NoHalf.pt]
  BY DEF NoHalf, Empty
<1>2. Empty \in [{} -> Phys]
  BY DEF Empty
<1> QED BY <1>1, <1>2, HalfShape

\* new_task: a page for the empty half of another task.
LEMMA SpawnPages == ASSUME PagesInv, Alive, Spawn PROVE (Shape /\ Apart /\ Kept)'
<1> DEFINE got == KPALLOC(Mem)
<1>1. PICK t \in Tasks :
          /\ cr3[t] = Nothing /\ calls < MaxCalls /\ calls' = calls + 1
          /\ OneLevel(got.mem) /\ Becomes(got.mem)
          /\ cr3' = [cr3 EXCEPT ![t] = got.page]
          /\ saved' = [saved EXCEPT ![t] = NoHalf]
          /\ brk' = [brk EXCEPT ![t] = {}]
          /\ UNCHANGED <<held, current, dead, live>>
  BY DEF Spawn, Called
<1>2. Shape /\ Apart /\ Kept /\ HalfInv
  BY DEF PagesInv
<1>3. VirtInv(Mem, InUse) /\ Sound(Mem, InHalves) /\ Stocked(Mem) /\ IsMem(Mem)
  BY <1>2, KeptSound, MemIsMem
<1>4. /\ VirtInv(Mem', InUse \cup {got.page}) /\ PhysInv(Mem', InHalves) /\ Stocked(Mem')
      /\ fault' = "none"
      /\ got.page \in Nat /\ got.page \notin InUse /\ got.page \notin BootPages
  BY <1>1, <1>3, TakenStep
<1>p. PICK page : page = got.page
  OBVIOUS
<1> HIDE DEF got
<1>5. /\ t # current /\ t \notin Existing /\ page # Nothing
      /\ cr3'[t] = page /\ \A u \in Tasks : u # t => cr3'[u] = cr3[u] /\ saved'[u] = saved[u]
      /\ saved'[t] = NoHalf
  BY <1>1, <1>2, <1>4, <1>p, PoolFacts DEF HalfInv, Existing, Shape
<1>6. /\ Existing' = Existing \cup {t} /\ HalfOf(t)' = NoHalf
      /\ \A u \in Existing : cr3'[u] = cr3[u] /\ HalfOf(u)' = HalfOf(u) /\ u # t
  BY <1>1, <1>5 DEF Existing, HalfOf
<1>7. \A r : Pages(r)' = Pages(r)
  BY DEF Pages
<1>8. InUse' \subseteq InUse \cup {page}
  BY <1>1, <1>5, <1>6, <1>7, NoHalfShape DEF InUse
<1>9. InHalves' \subseteq InHalves
  <2> SUFFICES ASSUME NEW a \in InHalves' PROVE a \in InHalves
    OBVIOUS
  <2>1. PICK u \in Existing' : a \in {HalfOf(u)'.pt[p] : p \in DOMAIN HalfOf(u)'.pt}
    BY DEF InHalves
  <2>2. u # t
    BY <1>6, <2>1, NoHalfShape
  <2> QED BY <1>6, <2>1, <2>2 DEF InHalves
<1>10. Apart'
  <2>1. /\ \A r \in held : page \notin Pages(r)
        /\ \A u \in Existing : cr3[u] # page /\ (HalfOf(u).table # Nothing => HalfOf(u).table # page)
    <3>1. page \notin InUse
      BY <1>4, <1>p
    <3> QED BY <3>1 DEF InUse
  <2>2. \A r \in held' : Pages(r) \cap BootPages = {} /\ \A s \in held' : r = s \/ Pages(r) \cap Pages(s) = {}
    BY <1>1, <1>2 DEF Apart
  <2>3. \A u \in Existing' : /\ cr3'[u] \notin BootPages
                             /\ \A r \in held' : cr3'[u] \notin Pages(r)
                             /\ \A v \in Existing' : cr3'[u] = cr3'[v] => u = v
    BY <1>1, <1>2, <1>4, <1>5, <1>6, <1>p, <2>1 DEF Apart
  <2>4. \A u \in Existing' : HalfOf(u)'.table # Nothing =>
         /\ \A r \in held' : HalfOf(u)'.table \notin Pages(r)
         /\ \A v \in Existing' : /\ HalfOf(u)'.table # cr3'[v]
                                 /\ HalfOf(u)'.table = HalfOf(v)'.table => u = v
    <3> SUFFICES ASSUME NEW u \in Existing', HalfOf(u)'.table # Nothing
                 PROVE  /\ \A r \in held' : HalfOf(u)'.table \notin Pages(r)
                        /\ \A v \in Existing' : /\ HalfOf(u)'.table # cr3'[v]
                                                /\ HalfOf(u)'.table = HalfOf(v)'.table => u = v
      OBVIOUS
    <3>1. u \in Existing /\ HalfOf(u)' = HalfOf(u)
      BY <1>6, NoHalfShape
    <3> QED BY <1>1, <1>2, <1>5, <1>6, <2>1, <3>1, NoHalfShape DEF Apart
  <2>5. \A u, v \in Existing' : \A p \in DOMAIN HalfOf(u)'.pt, q \in DOMAIN HalfOf(v)'.pt :
         HalfOf(u)'.pt[p] = HalfOf(v)'.pt[q] => u = v /\ p = q
    <3> SUFFICES ASSUME NEW u \in Existing', NEW v \in Existing',
                        NEW p \in DOMAIN HalfOf(u)'.pt, NEW q \in DOMAIN HalfOf(v)'.pt,
                        HalfOf(u)'.pt[p] = HalfOf(v)'.pt[q]
                 PROVE  u = v /\ p = q
      OBVIOUS
    <3>1. u \in Existing /\ v \in Existing /\ HalfOf(u)' = HalfOf(u) /\ HalfOf(v)' = HalfOf(v)
      BY <1>6, NoHalfShape
    <3> QED BY <1>2, <3>1 DEF Apart
  <2> QED BY <1>7, <2>2, <2>3, <2>4, <2>5 DEF Apart
<1>11. Shape'
  <2>1. cr3' \in [Tasks -> {Nothing} \cup Nat] /\ calls' \in 0..MaxCalls
    BY <1>1, <1>2, <1>4, PagesAssumption DEF Shape
  <2>2. saved' \in [Tasks -> Half] /\ brk' \in [Tasks -> SUBSET UserPages]
    BY <1>1, <1>2, NoHalfShape DEF Shape
  <2>3. \A u \in dead' : cr3'[u] # Nothing
    BY <1>1, <1>2, <1>5 DEF Shape
  <2>4. live' \in Half
    BY <1>1, <1>2 DEF Shape, Half
  <2> QED BY <1>1, <1>2, <2>1, <2>2, <2>3, <2>4 DEF Shape
<1>12. VirtInv(Mem', InUse')
  BY <1>4, <1>8, <1>p, VirtFewer
<1>13. PhysInv(Mem', InHalves')
  BY <1>4, <1>9 DEF PhysInv
<1> QED BY <1>4, <1>10, <1>11, <1>12, <1>13 DEF Kept

\* PF and sbrk: the range grows among the pages a program may use.
LEMMA RangePages == ASSUME PagesInv, Load \/ Sbrk PROVE (Shape /\ Apart /\ Kept)'
<1>1. PICK from \in UserPages, to \in UserPages :
          /\ brk' = [brk EXCEPT ![current] = from..to]
          /\ UNCHANGED <<mem, held, calls, current, cr3, dead, live, saved>>
  <2>1. UserPages \in SUBSET Nat
    BY PagesAssumption
  <2>2. CASE Load
    <3>1. PICK to \in UserPages :
              /\ brk' = [brk EXCEPT ![current] = Lowest(UserPages)..to]
              /\ UNCHANGED <<mem, held, calls, current, cr3, dead, live, saved>>
      BY <2>2 DEF Load
    <3>2. Lowest(UserPages) \in UserPages
      BY <2>1, <3>1, LowestIs
    <3> QED BY <3>1, <3>2
  <2>3. CASE Sbrk
    <3>1. PICK to \in UserPages :
              /\ brk[current] # {}
              /\ brk' = [brk EXCEPT ![current] = Lowest(brk[current])..to]
              /\ UNCHANGED <<mem, held, calls, current, cr3, dead, live, saved>>
      BY <2>3 DEF Sbrk
    <3>2. brk[current] \subseteq UserPages
      BY DEF PagesInv, Shape, HalfInv
    <3>3. Lowest(brk[current]) \in UserPages
      BY <2>1, <3>1, <3>2, LowestIs
    <3> QED BY <3>1, <3>3
  <2> QED BY <2>2, <2>3
<1>2. Shape /\ Apart /\ Kept /\ HalfInv
  BY DEF PagesInv
<1>3. from..to \subseteq UserPages
  BY PagesAssumption
<1>4. brk' \in [Tasks -> SUBSET UserPages]
  BY <1>1, <1>2, <1>3 DEF Shape
<1>5. Shape'
  BY <1>1, <1>2, <1>4 DEF Shape, Half
<1>6. Existing' = Existing /\ \A t : cr3'[t] = cr3[t] /\ HalfOf(t)' = HalfOf(t)
  BY <1>1, SameTasks
<1>7. Apart' /\ InUse' \subseteq InUse /\ InHalves' \subseteq InHalves
  BY <1>1, <1>2, <1>6, SameOwners
<1>8. Mem' = Mem /\ fault' = fault
  BY <1>1 DEF Mem, mem
<1>9. VirtInv(Mem, InUse')
  BY <1>2, <1>7, VirtFewer DEF Kept
<1>10. PhysInv(Mem, InHalves') /\ Stocked(Mem)
  BY <1>2, <1>7 DEF PhysInv, Kept
<1> QED BY <1>2, <1>5, <1>7, <1>8, <1>9, <1>10 DEF Kept

\* The steps that touch nothing of this.
LEMMA OtherPages ==
    ASSUME PagesInv, UNCHANGED <<mem, held, calls, tasks>> PROVE (Shape /\ Apart /\ Kept)'
<1>1. Shape /\ Apart /\ Kept
  BY DEF PagesInv
<1>2. Existing' = Existing /\ \A t : cr3'[t] = cr3[t] /\ HalfOf(t)' = HalfOf(t)
  BY SameTasks DEF tasks
<1>3. Apart' /\ InUse' \subseteq InUse /\ InHalves' \subseteq InHalves
  BY <1>1, <1>2, SameOwners
<1>4. Mem' = Mem /\ fault' = fault
  BY DEF Mem, mem
<1>5. VirtInv(Mem, InUse')
  BY <1>1, <1>3, VirtFewer DEF Kept
<1>6. PhysInv(Mem, InHalves') /\ Stocked(Mem)
  BY <1>1, <1>3 DEF PhysInv, Kept
<1>7. Shape'
  BY <1>1, SameShape DEF Shape
<1> QED BY <1>1, <1>3, <1>4, <1>5, <1>6, <1>7 DEF Kept

-----------------------------------------------------------------------------
\* What UP_ALLOC4 leaves: the half has a table, of its own or new, and an entry for a
\* physical page nobody has.
LEMMA MappedStep ==
    ASSUME PagesInv, Alive, NEW page \in UserPages, page \notin DOMAIN live.pt,
           OneLevel(UP_ALLOC4(Mem, live, page).mem), Becomes(UP_ALLOC4(Mem, live, page).mem)
    PROVE  \E table \in Nat, ad \in Phys :
             /\ UP_ALLOC4(Mem, live, page).half = [table |-> table, pt |-> With(live.pt, page, ad)]
             /\ ad \notin InHalves
             /\ table = live.table \/ (live.table = Nothing /\ table \notin InUse)
             /\ VirtInv(Mem', InUse \cup {table}) /\ PhysInv(Mem', InHalves \cup {ad})
             /\ Stocked(Mem') /\ fault' = "none"
<1> DEFINE got == UP_ALLOC4(Mem, live, page)
           ad == PL_FN(Mem)
           d == Marked(Mem, ad)
           k == IF live.table = Nothing THEN KPALLOC(d) ELSE [page |-> live.table, mem |-> d]
<1>1. got.mem = k.mem /\ got.half = [table |-> k.page, pt |-> With(live.pt, page, ad)]
  BY DEF UP_ALLOC4, Mapped
<1>2. VirtInv(Mem, InUse) /\ Sound(Mem, InHalves) /\ Stocked(Mem) /\ IsMem(Mem)
  BY KeptSound, MemIsMem DEF PagesInv
<1>3. /\ IsMem(d) /\ d.pool = Mem.pool /\ d.kpt = Mem.kpt /\ d.ktables = Mem.ktables
      /\ Sound(d, InHalves \cup {ad}) /\ (d.fault = "none" => ad \notin InHalves)
  <2> DEFINE m == Mem
             U == InHalves
  <2>1. IsMem(m) /\ Sound(m, U)
    BY <1>2
  <2> HIDE DEF m, U
  <2> DEFINE a == PL_FN(m)
             r == Marked(m, a)
  <2>2. /\ IsMem(r) /\ r.pool = m.pool /\ r.kpt = m.kpt /\ r.ktables = m.ktables
        /\ Sound(r, U \cup {a}) /\ (r.fault = "none" => a \notin U)
    BY <2>1, MarkedSound
  <2> QED BY <2>2 DEF m, U
<1> HIDE DEF d, ad
<1>4. VirtInv(d, InUse) /\ Stocked(d)
  <2>1. Described(d) = Described(Mem) /\ FullSlots(d) = FullSlots(Mem)
    BY <1>3 DEF Described, FullSlots
  <2> QED BY <1>2, <1>3, <2>1 DEF VirtInv, Stocked
<1>5. OneLevel(k.mem) /\ Becomes(k.mem)
  BY <1>1
<1>6. ad \in Phys /\ ad \notin InHalves /\ k.page \in Nat
      /\ (k.page = live.table \/ (live.table = Nothing /\ k.page \notin InUse))
      /\ VirtInv(Mem', InUse \cup {k.page}) /\ PhysInv(Mem', InHalves \cup {ad})
      /\ Stocked(Mem') /\ fault' = "none"
  <2>1. CASE live.table = Nothing
    <3>1. k = KPALLOC(d)
      BY <2>1
    <3>2. OneLevel(KPALLOC(d).mem) /\ Becomes(KPALLOC(d).mem)
      BY <1>5, <3>1
    <3> DEFINE Out == InUse
               U == InHalves \cup {ad}
    <3>3. VirtInv(d, Out) /\ Sound(d, U)
      BY <1>3, <1>4
    <3> HIDE DEF k, Out, U
    <3>4. /\ VirtInv(Mem', Out \cup {KPALLOC(d).page}) /\ PhysInv(Mem', U) /\ Stocked(Mem')
          /\ fault' = "none" /\ d.fault = "none"
          /\ KPALLOC(d).page \in Nat /\ KPALLOC(d).page \notin Out /\ KPALLOC(d).page \notin BootPages
      BY <1>3, <1>4, <3>2, <3>3, TakenStep
    <3>5. ad \in Phys /\ ad \notin InHalves
      <4>1. ad \in U
        BY DEF U
      <4>2. ad \in Phys
        BY <3>4, <4>1 DEF PhysInv, Fresh
      <4> QED BY <1>3, <3>4, <4>2
    <3> QED BY <2>1, <3>1, <3>4, <3>5 DEF Out, U
  <2>2. CASE live.table # Nothing
    <3>1. k.page = live.table /\ k.mem = d
      BY <2>2
    <3> HIDE DEF k
    <3>2. d.fault = "none" /\ PhysInv(d, InHalves \cup {ad})
      BY <1>3, <1>5, <3>1 DEF Sound, OneLevel
    <3>3. Mem' = d /\ fault' = "none"
      BY <1>3, <1>5, <3>1, <3>2, BecomesMem
    <3>4. live.table \in Nat /\ live.table \in InUse
      <4>1. live \in Half /\ current \in Existing /\ HalfOf(current) = live
        BY DEF PagesInv, Shape, HalfInv, Existing, HalfOf
      <4>2. HalfOf(current).table \in {HalfOf(t).table : t \in Existing}
        BY <4>1
      <4> QED BY <2>2, <4>1, <4>2, HalfShape DEF InUse
    <3>5. InUse \cup {k.page} = InUse
      BY <3>1, <3>4
    <3>6. ad \in Phys
      BY <3>2 DEF PhysInv, Fresh
    <3> QED BY <1>3, <1>4, <3>1, <3>2, <3>3, <3>4, <3>5, <3>6
  <2> QED BY <2>1, <2>2
<1> HIDE DEF k, got
<1> QED BY <1>1, <1>6 DEF got

\* A page fault gives the running task an entry, and a table if its half had none.
LEMMA FaultPages == ASSUME PagesInv, Alive, Fault PROVE (Shape /\ Apart /\ Kept)'
<1>1. PICK page \in brk[current] :
          /\ page \notin DOMAIN live.pt
          /\ OneLevel(UP_ALLOC4(Mem, live, page).mem) /\ Becomes(UP_ALLOC4(Mem, live, page).mem)
          /\ live' = UP_ALLOC4(Mem, live, page).half
          /\ UNCHANGED <<held, calls, current, cr3, dead, saved, brk>>
  BY DEF Fault
<1>2. Shape /\ Apart /\ Kept /\ HalfInv
  BY DEF PagesInv
<1>3. page \in UserPages
  BY <1>1, <1>2 DEF Shape, HalfInv
<1>4. PICK table \in Nat, ad \in Phys :
             /\ live' = [table |-> table, pt |-> With(live.pt, page, ad)]
             /\ ad \notin InHalves
             /\ table = live.table \/ (live.table = Nothing /\ table \notin InUse)
             /\ VirtInv(Mem', InUse \cup {table}) /\ PhysInv(Mem', InHalves \cup {ad})
             /\ Stocked(Mem') /\ fault' = "none"
  BY <1>1, <1>3, MappedStep
<1>5. /\ Existing' = Existing /\ current \in Existing
      /\ \A t \in Existing : IF t = current THEN HalfOf(t) = live /\ HalfOf(t)' = live'
                             ELSE HalfOf(t)' = HalfOf(t)
  BY <1>1, <1>2 DEF Existing, HalfOf, HalfInv
<1>6. \A r : Pages(r)' = Pages(r)
  BY DEF Pages
<1>7. table # Nothing /\ live'.table = table
  BY <1>4, PoolFacts
<1>8. /\ DOMAIN live'.pt = DOMAIN live.pt \cup {page} /\ live'.pt[page] = ad
      /\ \A p \in DOMAIN live.pt : live'.pt[p] = live.pt[p] /\ p # page
  <2>1. live'.pt = With(live.pt, page, ad)
    BY <1>4
  <2> QED BY <1>1, <2>1 DEF With
<1>9. InUse' \subseteq InUse \cup {table}
  <2> SUFFICES ASSUME NEW x \in InUse' PROVE x \in InUse \cup {table}
    OBVIOUS
  <2>1. \/ \E r \in held : x \in Pages(r)
        \/ \E t \in Existing : x = cr3[t]
        \/ \E t \in Existing : x = HalfOf(t)'.table /\ x # Nothing
    BY <1>1, <1>5, <1>6 DEF InUse
  <2>2. \A t \in Existing : HalfOf(t)'.table = HalfOf(t).table \/ HalfOf(t)'.table = table
    BY <1>5, <1>7
  <2> QED BY <2>1, <2>2 DEF InUse
<1>10. \A t \in Existing : \A p \in DOMAIN HalfOf(t)'.pt :
          \/ p \in DOMAIN HalfOf(t).pt /\ HalfOf(t)'.pt[p] = HalfOf(t).pt[p]
          \/ t = current /\ p = page /\ HalfOf(t)'.pt[p] = ad
  BY <1>5, <1>8
<1>11. InHalves' \subseteq InHalves \cup {ad}
  BY <1>5, <1>10 DEF InHalves
<1>12. \A t \in Existing : \A p \in DOMAIN HalfOf(t).pt : HalfOf(t).pt[p] # ad
  BY <1>4 DEF InHalves
<1>13. \A t \in Existing :
         \/ HalfOf(t)'.table = HalfOf(t).table
         \/ t = current /\ HalfOf(t)'.table = table /\ table \notin InUse
  BY <1>4, <1>5, <1>7
<1>14. table \notin InUse => /\ \A r \in held : table \notin Pages(r)
                             /\ \A t \in Existing : cr3[t] # table
                             /\ \A t \in Existing : HalfOf(t).table # Nothing => HalfOf(t).table # table
  BY DEF InUse
<1>15. Apart'
  <2>1. \A r \in held' : Pages(r) \cap BootPages = {} /\ \A s \in held' : r = s \/ Pages(r) \cap Pages(s) = {}
    BY <1>1, <1>2 DEF Apart
  <2>2. \A u \in Existing' : /\ cr3'[u] \notin BootPages
                             /\ \A r \in held' : cr3'[u] \notin Pages(r)
                             /\ \A v \in Existing' : cr3'[u] = cr3'[v] => u = v
    BY <1>1, <1>2, <1>5 DEF Apart
  <2>3. \A u \in Existing' : HalfOf(u)'.table # Nothing =>
         /\ \A r \in held' : HalfOf(u)'.table \notin Pages(r)
         /\ \A v \in Existing' : /\ HalfOf(u)'.table # cr3'[v]
                                 /\ HalfOf(u)'.table = HalfOf(v)'.table => u = v
    BY <1>1, <1>2, <1>5, <1>7, <1>13, <1>14 DEF Apart
  <2>4. \A u, v \in Existing' : \A p \in DOMAIN HalfOf(u)'.pt, q \in DOMAIN HalfOf(v)'.pt :
         HalfOf(u)'.pt[p] = HalfOf(v)'.pt[q] => u = v /\ p = q
    <3> SUFFICES ASSUME NEW u \in Existing, NEW v \in Existing,
                        NEW p \in DOMAIN HalfOf(u)'.pt, NEW q \in DOMAIN HalfOf(v)'.pt,
                        HalfOf(u)'.pt[p] = HalfOf(v)'.pt[q]
                 PROVE  u = v /\ p = q
      BY <1>5
    <3>a. \A a, b \in Existing : \A x \in DOMAIN HalfOf(a).pt, y \in DOMAIN HalfOf(b).pt :
             HalfOf(a).pt[x] = HalfOf(b).pt[y] => a = b /\ x = y
      BY <1>2 DEF Apart
    <3>1. CASE p \in DOMAIN HalfOf(u).pt /\ HalfOf(u)'.pt[p] = HalfOf(u).pt[p]
      <4>1. HalfOf(v)'.pt[q] # ad
        BY <1>12, <3>1
      <4>2. q \in DOMAIN HalfOf(v).pt /\ HalfOf(v)'.pt[q] = HalfOf(v).pt[q]
        BY <1>10, <4>1
      <4>3. HalfOf(u).pt[p] = HalfOf(v).pt[q]
        BY <3>1, <4>2
      <4> QED BY <3>a, <3>1, <4>2, <4>3
    <3>2. CASE u = current /\ p = page /\ HalfOf(u)'.pt[p] = ad
      BY <1>10, <1>12, <3>2
    <3> QED BY <1>10, <3>1, <3>2
  <2> QED BY <1>6, <2>1, <2>2, <2>3, <2>4 DEF Apart
<1>16. live' \in Half
  <2>1. live = [table |-> live.table, pt |-> live.pt] /\ DOMAIN live.pt \subseteq UserPages
        /\ live.pt \in [DOMAIN live.pt -> Phys]
    BY <1>2, HalfShape DEF Shape
  <2>2. live'.pt = With(live.pt, page, ad) /\ live' = [table |-> live'.table, pt |-> live'.pt]
    BY <1>4
  <2>3. DOMAIN live'.pt \subseteq UserPages
    BY <1>3, <1>8, <2>1
  <2>4. live'.pt \in [DOMAIN live'.pt -> Phys]
    <3>1. \A p \in DOMAIN live'.pt : live'.pt[p] \in Phys
      BY <1>8, <2>1
    <3>2. live'.pt = [p \in DOMAIN live'.pt |-> live'.pt[p]]
      BY <2>2 DEF With
    <3> QED BY <3>1, <3>2
  <2> QED BY <1>7, <2>2, <2>3, <2>4, HalfShape
<1>17. Shape'
  BY <1>1, <1>2, <1>16 DEF Shape, Half
<1>18. VirtInv(Mem', InUse')
  BY <1>4, <1>9, VirtFewer
<1>19. PhysInv(Mem', InHalves')
  BY <1>4, <1>11 DEF PhysInv
<1> QED BY <1>4, <1>15, <1>17, <1>18, <1>19 DEF Kept

\* Changing tasks moves halves, and reap frees the page of the task that died.
LEMMA SchedulePages ==
    ASSUME PagesInv, Alive, NEW next \in Tasks, NEW dies \in BOOLEAN, Schedule(next, dies)
    PROVE  (Shape /\ Apart /\ Kept)'
<1>1. /\ next # current /\ cr3[next] # Nothing /\ next \notin dead
      /\ Becomes(Reaped(Mem))
      /\ cr3' = [t \in Tasks |-> IF t \in dead THEN Nothing ELSE cr3[t]]
      /\ dead' = IF dies THEN {current} ELSE {}
      /\ saved' = [saved EXCEPT ![current] = live]
      /\ live' = saved[next] /\ current' = next
      /\ UNCHANGED <<held, calls, brk>>
  BY DEF Schedule, switch_to_task_wrapper, Exchange
<1>2. Shape /\ Apart /\ Kept /\ HalfInv
  BY DEF PagesInv
<1>3. /\ saved'[current] = live /\ \A t \in Tasks : t # current => saved'[t] = saved[t]
      /\ saved' \in [Tasks -> Half] /\ live' \in Half
  BY <1>1, <1>2 DEF Shape, HalfInv
<1>4. Existing' = Existing \ dead /\ \A t \in Existing' : cr3'[t] = cr3[t] /\ HalfOf(t)' = HalfOf(t)
  <2>1. Existing' = Existing \ dead /\ \A t \in Existing' : cr3'[t] = cr3[t] /\ t \in Tasks
    BY <1>1 DEF Existing
  <2>2. ASSUME NEW t \in Tasks PROVE HalfOf(t)' = HalfOf(t)
    BY <1>1, <1>3 DEF HalfOf
  <2> QED BY <2>1, <2>2
<1>5. Apart' /\ InUse' \subseteq InUse /\ InHalves' \subseteq InHalves
  BY <1>1, <1>2, <1>4, SameOwners
<1>6. Shape'
  <2>1. cr3' \in [Tasks -> {Nothing} \cup Nat]
    BY <1>1, <1>2 DEF Shape
  <2>2. dead' \subseteq Tasks /\ (\A t, u \in dead' : t = u) /\ \A t \in dead' : cr3'[t] # Nothing
    BY <1>1, <1>2 DEF HalfInv
  <2> QED BY <1>1, <1>2, <1>3, <2>1, <2>2 DEF Shape
<1>7. CASE dead = {}
  <2>1. Reaped(Mem) = Mem
    BY <1>7 DEF Reaped
  <2>2. Mem' = Mem /\ fault' = fault
    BY <1>1, <2>1, MemIsMem, BecomesMem
  <2>3. VirtInv(Mem, InUse')
    BY <1>2, <1>5, VirtFewer DEF Kept
  <2>4. PhysInv(Mem, InHalves') /\ Stocked(Mem)
    BY <1>2, <1>5 DEF PhysInv, Kept
  <2> QED BY <1>2, <1>5, <1>6, <2>2, <2>3, <2>4 DEF Kept
<1>8. CASE dead # {}
  <2> DEFINE d == CHOOSE t \in dead : TRUE
             at == cr3[d]
  <2>1. d \in dead
    BY <1>8
  <2>2. Reaped(Mem) = P_FREES(Mem, [at |-> at, len |-> 1])
    BY <1>8 DEF Reaped
  <2> HIDE DEF d
  <2>3. d \in Existing /\ dead = {d} /\ at \in Nat
    BY <1>2, <2>1 DEF Shape, Existing
  <2>4. at \in InUse /\ at \notin BootPages
    <3>1. at \in {cr3[t] : t \in Existing}
      BY <2>3
    <3> QED BY <1>2, <2>3, <3>1 DEF InUse, Apart
  <2>5. at \notin InUse'
    <3> SUFFICES ASSUME at \in InUse' PROVE FALSE
      OBVIOUS
    <3>1. \/ \E r \in held : at \in Pages(r)
          \/ \E t \in Existing' : at = cr3[t]
          \/ \E t \in Existing' : at = HalfOf(t).table /\ at # Nothing
      <4>1. \A r : Pages(r)' = Pages(r)
        BY DEF Pages
      <4> QED BY <1>1, <1>4, <4>1 DEF InUse
    <3>2. \A t \in Existing' : t \in Existing /\ t # d
      BY <1>4, <2>1
    <3> QED BY <1>2, <2>3, <3>1, <3>2 DEF Apart
  <2> HIDE DEF at
  <2>6. at..(at + 1 - 1) = {at}
    BY <2>3
  <2>7. Kept'
    BY <1>1, <1>5, <2>2, <2>3, <2>4, <2>5, <2>6, FreedStep
  <2> QED BY <1>5, <1>6, <2>7
<1> QED BY <1>7, <1>8

-----------------------------------------------------------------------------
\* The boot's task has a page and an empty half.
LEMMA InitPages == Init => Shape /\ Apart /\ Kept
<1> SUFFICES ASSUME Init PROVE Shape /\ Apart /\ Kept
  OBVIOUS
<1> DEFINE got == KPALLOC(P_ALLOC3_SETUP)
           m == got.mem
           page == got.page
<1>1. /\ IsMem(m) /\ VirtInv(m, {page}) /\ PhysInv(m, {}) /\ Stocked(m)
      /\ m.fault = "none" /\ page \in Nat /\ page \notin BootPages
  BY StartInv
<1>2. StartWith(m, page)
  BY DEF Init
<1> HIDE DEF m, page
<1>3. /\ marked = m.marked /\ pool = m.pool /\ kpt = m.kpt /\ ktables = m.ktables /\ fault = m.fault
      /\ cr3 = [t \in Tasks |-> IF t = Boot THEN page ELSE Nothing]
  BY <1>2 DEF StartWith
<1>4. Mem = m /\ fault = "none"
  BY <1>1, <1>3 DEF Mem, IsMem
<1>5. /\ held = {} /\ calls = 0 /\ current = Boot /\ dead = {} /\ live = NoHalf
      /\ saved = [t \in Tasks |-> NoHalf] /\ brk = [t \in Tasks |-> {}]
  BY DEF Init
<1>6. Boot \in Tasks /\ Nothing \notin Nat /\ MaxCalls \in Nat
  BY PagesAssumption
<1>7. Existing = {Boot} /\ cr3[Boot] = page /\ HalfOf(Boot) = NoHalf
  BY <1>1, <1>3, <1>5, <1>6 DEF Existing, HalfOf
<1>8. InUse \subseteq {page}
  BY <1>5, <1>7, NoHalfShape DEF InUse
<1>9. InHalves \subseteq {}
  BY <1>7, NoHalfShape DEF InHalves
<1>10. Shape
  BY <1>1, <1>3, <1>5, <1>6, NoHalfShape DEF Shape
<1>11. Apart
  BY <1>1, <1>5, <1>7, NoHalfShape DEF Apart
<1>12. VirtInv(m, InUse)
  BY <1>1, <1>8, VirtFewer
<1>13. PhysInv(m, InHalves)
  BY <1>1, <1>9 DEF PhysInv
<1> QED BY <1>1, <1>4, <1>10, <1>11, <1>12, <1>13 DEF Kept

\* Every step keeps the invariant.
LEMMA NextPages == ASSUME PagesInv, [Next]_vars PROVE PagesInv'
<1>1. CASE UNCHANGED vars
  <2>1. (Shape /\ Apart /\ Kept)'
    BY <1>1, OtherPages DEF vars, tasks
  <2> QED BY <2>1, NextHalf DEF PagesInv
<1>2. CASE Alive /\ Alloc
  BY <1>2, AllocPages, NextHalf DEF PagesInv
<1>3. CASE Alive /\ AllocRun
  BY <1>3, AllocRunPages, NextHalf DEF PagesInv
<1>4. CASE Alive /\ Free
  BY <1>4, FreePages, NextHalf DEF PagesInv
<1>5. CASE Alive /\ Spawn
  BY <1>5, SpawnPages, NextHalf DEF PagesInv
<1>6. CASE Load \/ Sbrk
  BY <1>6, RangePages, NextHalf DEF PagesInv
<1>7. CASE Cache
  BY <1>7, OtherPages, NextHalf DEF PagesInv, Cache
<1>8. CASE Alive /\ Fault
  BY <1>8, FaultPages, NextHalf DEF PagesInv
<1>9. CASE Alive /\ (Switch \/ Exit)
  BY <1>9, SchedulePages, NextHalf DEF PagesInv, Switch, Exit
<1> QED BY <1>1, <1>2, <1>3, <1>4, <1>5, <1>6, <1>7, <1>8, <1>9 DEF Next, Halted

\* The invariant holds of every behaviour.
LEMMA PagesInvariant == Spec => []PagesInv
<1>1. Init => PagesInv
  BY InitPages, InitHalf DEF PagesInv
<1>2. PagesInv /\ [Next]_vars => PagesInv'
  BY NextPages
<1> QED BY <1>1, <1>2, PTL DEF Spec

\* The invariant is about the types, too.
LEMMA PagesType == ASSUME PagesInv PROVE TypeOK
<1>1. HalfInv /\ Shape /\ Kept
  BY DEF PagesInv
<1>2. /\ VirtInv(Mem, InUse) /\ PhysInv(Mem, InHalves) /\ fault \in {"none", "search without an end"}
      /\ Mem.fault = fault /\ Mem.pool = pool /\ Mem.kpt = kpt /\ Mem.marked = marked /\ Mem.ktables = ktables
  BY <1>1, MemIsMem DEF Kept
<1>3. DOMAIN kpt \subseteq Nat
  BY <1>2, DescribedIs DEF VirtInv
<1>4. marked \subseteq Phys /\ \A p \in DOMAIN kpt : kpt[p] \in Phys
  BY <1>2 DEF PhysInv, BitInv
<1>5. pool \in [Slot -> {Nothing} \cup Nat] /\ ktables \subseteq Nat
  BY <1>2, <1>3 DEF VirtInv
<1>6. held \subseteq [at : Nat, len : Nat]
  BY <1>1 DEF Shape
<1> QED BY <1>1, <1>2, <1>3, <1>4, <1>5, <1>6 DEF TypeOK, Shape, HalfInv

\* No two parts of the kernel's half share a page.
LEMMA PartsApart ==
    ASSUME PagesInv
    PROVE  LET parts == {Pages(run) : run \in held} \cup {Pool, ktables}
                          \cup {{cr3[t]} : t \in Existing}
                          \cup {{HalfOf(t).table} \ {Nothing} : t \in Existing}
           IN  /\ \A P \in parts : P \subseteq DOMAIN kpt
               /\ \A P, Q \in parts : P # Q => P \cap Q = {}
<1> DEFINE A == {Pages(run) : run \in held}
           B == {{cr3[t]} : t \in Existing}
           C == {{HalfOf(t).table} \ {Nothing} : t \in Existing}
           parts == A \cup {Pool, ktables} \cup B \cup C
<1>1. Apart /\ VirtInv(Mem, InUse) /\ Mem.pool = pool /\ Mem.kpt = kpt /\ Mem.ktables = ktables
  BY MemIsMem DEF PagesInv, Kept
<1>2. /\ \A P \in A : P \subseteq InUse
      /\ \A P \in B : P \subseteq InUse
      /\ \A P \in C : P \subseteq InUse
  <2>1. \A P \in A : P \subseteq InUse
    BY DEF InUse
  <2>2. ASSUME NEW P \in B PROVE P \subseteq InUse
    <3>1. PICK t \in Existing : P = {cr3[t]}
      OBVIOUS
    <3>2. cr3[t] \in {cr3[u] : u \in Existing}
      OBVIOUS
    <3> QED BY <3>1, <3>2 DEF InUse
  <2>3. ASSUME NEW P \in C PROVE P \subseteq InUse
    <3>1. PICK t \in Existing : P = {HalfOf(t).table} \ {Nothing}
      OBVIOUS
    <3>2. HalfOf(t).table \in {HalfOf(u).table : u \in Existing}
      OBVIOUS
    <3> QED BY <3>1, <3>2 DEF InUse
  <2> QED BY <2>1, <2>2, <2>3
<1>3. /\ Pool \subseteq DOMAIN kpt /\ Pool \cap InUse = {} /\ Pool \cap ktables = {}
      /\ ktables \subseteq DOMAIN kpt /\ ktables \cap InUse = {} /\ InUse \subseteq DOMAIN kpt
  BY <1>1 DEF VirtInv, Pool, FullSlots
<1>4. \A P, Q \in A : P # Q => P \cap Q = {}
  BY <1>1 DEF Apart
<1>5. \A P, Q \in B : P # Q => P \cap Q = {}
  OBVIOUS
<1>6. \A P, Q \in C : P # Q => P \cap Q = {}
  OBVIOUS
<1>7. \A P \in A, Q \in B : P \cap Q = {}
  BY <1>1 DEF Apart
<1>8. \A P \in A, Q \in C : P \cap Q = {}
  BY <1>1 DEF Apart
<1>9. \A P \in B, Q \in C : P \cap Q = {}
  BY <1>1 DEF Apart
<1> HIDE DEF A, B, C
<1>10. \A P \in parts : P \in A \/ P \in B \/ P \in C \/ P = Pool \/ P = ktables
  OBVIOUS
<1>11. \A P \in parts : P \subseteq DOMAIN kpt
  BY <1>2, <1>3, <1>10
<1>12. \A P, Q \in parts : P # Q => P \cap Q = {}
  <2> SUFFICES ASSUME NEW P \in parts, NEW Q \in parts, P # Q, NEW x \in P, x \in Q PROVE FALSE
    OBVIOUS
  <2>1. CASE P \in A
    BY <1>2, <1>3, <1>4, <1>7, <1>8, <1>10, <2>1
  <2>2. CASE P \in B
    BY <1>2, <1>3, <1>5, <1>7, <1>9, <1>10, <2>2
  <2>3. CASE P \in C
    BY <1>2, <1>3, <1>6, <1>8, <1>9, <1>10, <2>3
  <2>4. CASE P = Pool \/ P = ktables
    BY <1>2, <1>3, <1>10, <2>4
  <2> QED BY <1>10, <2>1, <2>2, <2>3, <2>4
<1> QED BY <1>11, <1>12 DEF A, B, C

\* So no page has two owners.
LEMMA PagesOnce == ASSUME PagesInv PROVE NoPageTwice
<1>1. Shape /\ Apart /\ VirtInv(Mem, InUse) /\ PhysInv(Mem, InHalves)
      /\ Mem.pool = pool /\ Mem.kpt = kpt /\ Mem.marked = marked /\ Mem.ktables = ktables
  BY MemIsMem DEF PagesInv, Kept
<1>2. BootPages \subseteq marked
  BY <1>1 DEF PhysInv, BitInv
<1>3. \A p, q \in DOMAIN kpt : kpt[p] \in marked /\ (kpt[p] = kpt[q] => p = q)
  BY <1>1 DEF PhysInv
<1>4. \A t \in Existing : \A p \in DOMAIN HalfOf(t).pt :
            /\ HalfOf(t).pt[p] \in marked
            /\ \A q \in DOMAIN kpt : kpt[q] # HalfOf(t).pt[p]
            /\ \A u \in Existing : \A q \in DOMAIN HalfOf(u).pt :
                 HalfOf(u).pt[q] = HalfOf(t).pt[p] => <<t, p>> = <<u, q>>
  <2> TAKE t \in Existing
  <2> TAKE p \in DOMAIN HalfOf(t).pt
  <2>1. HalfOf(t).pt[p] \in InHalves
    BY DEF InHalves
  <2>2. HalfOf(t).pt[p] \in marked /\ \A q \in DOMAIN kpt : kpt[q] # HalfOf(t).pt[p]
    BY <1>1, <2>1 DEF PhysInv
  <2>3. \A u \in Existing : \A q \in DOMAIN HalfOf(u).pt :
          HalfOf(u).pt[q] = HalfOf(t).pt[p] => t = u /\ p = q
    BY <1>1 DEF Apart
  <2> QED BY <2>2, <2>3
<1>5. \A r, s \in held : Pages(r) = Pages(s) => r = s
  <2> SUFFICES ASSUME NEW r \in held, NEW s \in held, Pages(r) = Pages(s) PROVE r = s
    OBVIOUS
  <2>1. r.at \in Nat /\ r.len \in Nat \ {0}
    BY <1>1 DEF Shape
  <2>2. r.at \in Pages(r)
    BY <2>1 DEF Pages
  <2> QED BY <1>1, <2>2 DEF Apart
<1>6. /\ \A t, u \in Existing : cr3[t] = cr3[u] => t = u
      /\ \A t, u \in Existing : HalfOf(t).table = HalfOf(u).table => t = u \/ HalfOf(t).table = Nothing
  BY <1>1 DEF Apart
<1>7. \A s, u \in Slot : pool[s] = pool[u] /\ pool[s] # Nothing => s = u
  BY <1>1 DEF VirtInv, FullSlots
<1> QED BY <1>2, <1>3, <1>4, <1>5, <1>6, <1>7, PagesType, PartsApart DEF NoPageTwice

\* However pages are taken, freed and mapped, and whoever runs and dies, no page of the
\* kernel's half and no physical page has two owners, and the bitmap marks every one
\* that has an owner.
THEOREM NoPageTwiceCorrect == Spec => []NoPageTwice
<1>1. PagesInv => NoPageTwice
  BY PagesOnce
<1> QED BY <1>1, PagesInvariant, PTL

\* The pool KPALLOC takes its pages from is never empty, its refill finds pages for its
\* tables, and no page the boot left in it goes to a caller.
THEOREM PoolHoldsCorrect == Spec => []PoolHolds
<1>1. ASSUME PagesInv PROVE PoolHolds
  <2>1. Apart /\ fault \in {"none", "search without an end"}
    BY <1>1 DEF PagesInv, Kept
  <2> QED BY <2>1 DEF PoolHolds, Apart
<1> QED BY <1>1, PagesInvariant, PTL

===============================================================================
