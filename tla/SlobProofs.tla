----------------------------- MODULE SlobProofs -----------------------------
(***************************************************************************)
(* Theorems about the SLOB allocator of mm/slob.c, for every page size,    *)
(* number of threads and pages, and every size and alignment of objects.   *)
(***************************************************************************)
EXTENDS SlobWalk, ListLemmas

\* The size of a page as arithmetic needs it.
LEMMA PageFacts == PageUnits \in Int /\ PageUnits > 1 /\ PageBytes = 2 * PageUnits
<1>1. PageUnits \in Int /\ PageUnits > 1
  BY PageAssumption, SMTT(60)
<1> QED
  BY <1>1 DEF PageBytes, SLOB_UNIT

\* Offsets are the integers of a page.
LEMMA OffsetFacts == \A s : s \in Offsets <=> s \in Int /\ 0 <= s /\ s < PageUnits
BY PageFacts DEF Offsets

-----------------------------------------------------------------------------
(* Headers of free blocks *)

\* A header for a block of u units, followed by the free block n, is at s.
Header(w, s, u, n) ==
    IF u = 1 THEN w[s] = -n ELSE w[s] = u /\ w[s + 1] = n

\* What slob_units, slob_next and slob_last read from a header.
LEMMA HeaderRead ==
    ASSUME NEW w \in [Offsets -> Int], NEW s \in Offsets, NEW u \in Int, NEW n \in Int,
           u >= 1, n >= 1, n <= PageUnits, Header(w, s, u, n)
    PROVE  /\ slob_units(w, s) = u /\ slob_next(w, s) = n
           /\ slob_last(w, s) <=> n = PageUnits
<1>1. s \in Int /\ 0 <= s /\ PageUnits \in Int /\ PageUnits > 1
  BY PageFacts, OffsetFacts
<1>2. slob_units(w, s) = u /\ slob_next(w, s) = n
  <2>1. CASE u = 1
    BY <1>1, <2>1 DEF Header, slob_units, slob_next
  <2>2. CASE u > 1
    BY <1>1, <2>2 DEF Header, slob_units, slob_next
  <2> QED
    BY <2>1, <2>2
<1>3. n % PageUnits = 0 <=> n = PageUnits
  <2>1. CASE n = PageUnits
    BY <1>1, <2>1
  <2>2. CASE n < PageUnits
    BY <1>1, <2>2
  <2> QED
    BY <1>1, <2>1, <2>2
<1> QED
  BY <1>2, <1>3 DEF slob_last

\* set_slob writes a header.
LEMMA HeaderSet ==
    ASSUME NEW w \in [Offsets -> Int], NEW s \in Offsets, NEW u \in Int, NEW n \in Int,
           u >= 1, s + u <= PageUnits
    PROVE  /\ set_slob(w, s, u, n) \in [Offsets -> Int]
           /\ Header(set_slob(w, s, u, n), s, u, n)
<1>1. s \in Int /\ PageUnits \in Int
  BY PageFacts, OffsetFacts
<1>2. CASE u = 1
  BY <1>2 DEF Header, set_slob
<1>3. CASE u > 1
  <2>1. s + 1 \in Offsets /\ s + 1 # s
    BY <1>1, <1>3, OffsetFacts
  <2> QED
    BY <1>3, <2>1 DEF Header, set_slob
<1> QED
  BY <1>2, <1>3

\* set_slob leaves the headers of other blocks alone.
LEMMA HeaderKept ==
    ASSUME NEW w \in [Offsets -> Int], NEW s \in Offsets, NEW u \in Int, NEW n \in Int,
           u >= 1, s + u <= PageUnits,
           NEW t \in Offsets, NEW v \in Int, NEW m \in Int, v >= 1, t + v <= PageUnits,
           t + v <= s \/ s + u <= t,
           Header(w, t, v, m)
    PROVE  Header(set_slob(w, s, u, n), t, v, m)
<1>1. s \in Int /\ t \in Int /\ PageUnits \in Int
  BY PageFacts, OffsetFacts
<1>2. t # s /\ (u > 1 => t # s + 1 /\ s + 1 \in Offsets)
  BY <1>1, OffsetFacts
<1>3. v > 1 => t + 1 # s /\ t + 1 \in Offsets /\ (u > 1 => t + 1 # s + 1)
  BY <1>1, OffsetFacts
<1>4. set_slob(w, s, u, n)[t] = w[t]
  BY <1>2 DEF set_slob
<1>5. v > 1 => set_slob(w, s, u, n)[t + 1] = w[t + 1]
  BY <1>3 DEF set_slob
<1> QED
  BY <1>4, <1>5 DEF Header

\* set_slob, slob_units, slob_next and slob_last agree: a header written for
\* any block that lies in the page reads back as it was written, one unit long
\* or longer, and set_slob writes inside the block only.
THEOREM HeaderRoundTrip ==
    ASSUME NEW w \in [Offsets -> Int], NEW s \in Offsets,
           NEW size \in 1 .. PageUnits - s, NEW next \in 1 .. PageUnits
    PROVE  LET v == set_slob(w, s, size, next)
           IN  /\ slob_units(v, s) = size
               /\ slob_next(v, s) = next
               /\ slob_last(v, s) <=> next = PageUnits
               /\ \A i \in Offsets \ (s .. s + size - 1) : v[i] = w[i]
<1> DEFINE v == set_slob(w, s, size, next)
<1>1. /\ s \in Int /\ PageUnits \in Int /\ size \in Int /\ next \in Int
      /\ size >= 1 /\ s + size <= PageUnits /\ next >= 1 /\ next <= PageUnits
  BY PageFacts, OffsetFacts
<1>2. v \in [Offsets -> Int] /\ Header(v, s, size, next)
  BY <1>1, HeaderSet
<1>3. /\ slob_units(v, s) = size /\ slob_next(v, s) = next
      /\ slob_last(v, s) <=> next = PageUnits
  <2> HIDE DEF v
  <2> QED  BY <1>1, <1>2, HeaderRead
<1>4. ASSUME NEW i \in Offsets \ (s .. s + size - 1)
      PROVE  v[i] = w[i]
  <2>1. i \in Int /\ i # s /\ (size > 1 => i # s + 1)
    BY <1>1, OffsetFacts
  <2> QED
    BY <2>1 DEF set_slob
<1> QED
  BY <1>3, <1>4

-----------------------------------------------------------------------------
(* The chain of free blocks *)

\* The u units at s are a free block, F being the units that are free: the
\* block is as long as it can be, and n is the next one or the end of the page.
Block(F, s, u, n) ==
    /\ u >= 1 /\ s + u <= n /\ n <= PageUnits
    /\ \A i \in s .. s + u - 1 : i \in F
    /\ \A i \in s + u .. n - 1 : i \notin F
    /\ n < PageUnits => n \in F /\ s + u < n

\* First units of the free blocks.
Heads(F) == {s \in F : s - 1 \notin F}

\* The words w of a page describe the free units F: each block has a header.
Sound(w, F) == \A s \in Heads(F) : \E u, n \in 1 .. PageUnits :
                  Header(w, s, u, n) /\ Block(F, s, u, n)

\* The function that Chain defines.
WalkFrom(w, f, s) ==
    IF slob_last(w, s) \/ slob_next(w, s) \notin s + 1 .. PageUnits
    THEN <<s>> ELSE <<s>> \o f[slob_next(w, s)]
Walk(w) == CHOOSE f : f = [s \in Offsets |-> WalkFrom(w, f, s)]

\* A walk that goes on stays in the page.
LEMMA WalkStays ==
    ASSUME NEW w, NEW s \in Offsets, ~slob_last(w, s), slob_next(w, s) \in s + 1 .. PageUnits
    PROVE  slob_next(w, s) \in s + 1 .. PageUnits - 1
<1>1. s \in Int /\ 0 <= s /\ PageUnits \in Int /\ PageUnits > 1
  BY PageFacts, OffsetFacts
<1>2. slob_next(w, s) \in Int
  BY <1>1
<1>3. PageUnits % PageUnits = 0
  BY <1>1
<1>4. slob_next(w, s) # PageUnits
  BY <1>3 DEF slob_last
<1> QED
  BY <1>1, <1>2, <1>4

\* The recursive definition has a solution.
LEMMA WalkDefined ==
    ASSUME NEW w
    PROVE  Walk(w) = [s \in Offsets |-> WalkFrom(w, Walk(w), s)]
<1>1. PageUnits \in Int /\ PageUnits > 1
  BY PageFacts
<1> DEFINE D(k) == PageUnits - k .. PageUnits - 1
           Upto(k) == \E f \in [D(k) -> Seq(Int)] : \A s \in D(k) : f[s] = WalkFrom(w, f, s)
           Bad == {k \in 0 .. PageUnits : ~Upto(k)}
<1>2. Bad = {}
  <2>1. SUFFICES ASSUME Bad # {} PROVE FALSE
    OBVIOUS
  <2>2. Bad \in SUBSET Nat
    BY <1>1
  <2>3. PICK k \in Bad : \A j \in Bad : k <= j
    BY <2>1, <2>2, MinNat
  <2>4. k \in 0 .. PageUnits /\ ~Upto(k)
    BY <2>3
  <2>5. CASE k = 0
    <3>1. D(0) = {}
      BY <1>1
    <3> DEFINE f == [s \in D(0) |-> << >>]
    <3>2. f \in [D(0) -> Seq(Int)] /\ \A s \in D(0) : f[s] = WalkFrom(w, f, s)
      BY <3>1
    <3> HIDE DEF f
    <3>3. Upto(0)
      BY <3>2
    <3> HIDE DEF Upto
    <3> QED
      BY <2>4, <2>5, <3>3
  <2>6. CASE k # 0
    <3>1. k - 1 \in 0 .. PageUnits /\ k - 1 < k
      BY <1>1, <2>4, <2>6
    <3>2. Upto(k - 1)
      <4> HIDE DEF Upto
      <4>1. k - 1 \notin Bad
        <5> HIDE DEF Bad
        <5> QED  BY <1>1, <2>3, <2>4, <3>1
      <4> QED
        BY <3>1, <4>1
    <3>3. PICK f \in [D(k - 1) -> Seq(Int)] : \A s \in D(k - 1) : f[s] = WalkFrom(w, f, s)
      BY <3>2
    <3> DEFINE z == PageUnits - k
               g == [s \in D(k) |-> IF s = z THEN WalkFrom(w, f, z) ELSE f[s]]
    <3>4. /\ D(k) = D(k - 1) \cup {z} /\ z \notin D(k - 1)
          /\ z \in Offsets /\ z \in Int /\ D(k - 1) = z + 1 .. PageUnits - 1
          /\ D(k) \subseteq Offsets
      <4>1. z \in Int /\ 0 <= z /\ z < PageUnits /\ PageUnits - (k - 1) = z + 1
        BY <1>1, <2>4, <2>6
      <4>2. D(k - 1) = z + 1 .. PageUnits - 1 /\ D(k) = z .. PageUnits - 1
        BY <4>1
      <4> HIDE DEF D, z
      <4>3. /\ z .. PageUnits - 1 = (z + 1 .. PageUnits - 1) \cup {z}
            /\ z \notin z + 1 .. PageUnits - 1
        BY <1>1, <4>1
      <4>4. z .. PageUnits - 1 \subseteq Offsets
        BY <1>1, <4>1, OffsetFacts
      <4> QED
        BY <4>1, <4>2, <4>3, <4>4
    <3> HIDE DEF D, z
    <3>5. ASSUME NEW s \in D(k), ~slob_last(w, s), slob_next(w, s) \in s + 1 .. PageUnits
          PROVE  slob_next(w, s) \in D(k - 1) /\ slob_next(w, s) \in D(k) /\ slob_next(w, s) # z
      <4>1. slob_next(w, s) \in s + 1 .. PageUnits - 1 /\ s \in Int
        BY <3>4, <3>5, WalkStays, OffsetFacts
      <4>2. s >= z
        BY <1>1, <3>4
      <4> QED
        BY <1>1, <3>4, <4>1, <4>2
    <3>6. WalkFrom(w, f, z) \in Seq(Int)
      <4>1. <<z>> \in Seq(Int)
        BY <3>4
      <4>2. CASE slob_last(w, z) \/ slob_next(w, z) \notin z + 1 .. PageUnits
        BY <4>1, <4>2 DEF WalkFrom
      <4>3. CASE ~slob_last(w, z) /\ slob_next(w, z) \in z + 1 .. PageUnits
        <5>1. f[slob_next(w, z)] \in Seq(Int)
          BY <3>4, <3>5, <4>3
        <5>2. <<z>> \o f[slob_next(w, z)] \in Seq(Int)
          BY <4>1, <5>1, ConcatProperties
        <5> QED
          BY <4>3, <5>2 DEF WalkFrom
      <4> QED
        BY <4>2, <4>3
    <3>7. g \in [D(k) -> Seq(Int)]
      <4>1. \A s \in D(k) : s # z => f[s] \in Seq(Int)
        BY <3>4
      <4> QED
        BY <3>6, <4>1
    <3>8. ASSUME NEW s \in D(k) PROVE g[s] = WalkFrom(w, g, s)
      <4>1. ~slob_last(w, s) /\ slob_next(w, s) \in s + 1 .. PageUnits =>
               g[slob_next(w, s)] = f[slob_next(w, s)]
        BY <3>5
      <4>2. WalkFrom(w, g, s) = WalkFrom(w, f, s)
        <5> HIDE DEF g
        <5> QED  BY <4>1 DEF WalkFrom
      <4>3. g[s] = WalkFrom(w, f, s)
        BY <3>3, <3>4
      <4> QED
        BY <4>2, <4>3
    <3> HIDE DEF g
    <3>9. Upto(k)
      BY <3>7, <3>8
    <3> HIDE DEF Upto
    <3> QED
      BY <2>4, <3>9
  <2> QED
    BY <2>5, <2>6
<1>3. Upto(PageUnits)
  <2> HIDE DEF Upto
  <2> QED  BY <1>1, <1>2
<1>4. D(PageUnits) = Offsets
  BY <1>1 DEF Offsets
<1>5. PICK f \in [D(PageUnits) -> Seq(Int)] : \A s \in D(PageUnits) : f[s] = WalkFrom(w, f, s)
  BY <1>3
<1> HIDE DEF D
<1>6. f = [s \in Offsets |-> WalkFrom(w, f, s)]
  BY <1>4, <1>5
<1> QED
  BY <1>6 DEF Walk

\* What a walk along the chain from s visits, if q is the sequence of offsets:
\* each free block from s on, once, in address order.
Visits(w, F, s, q) ==
    /\ q \in Seq(Int) /\ Len(q) >= 1 /\ q[1] = s
    /\ \A i \in 1 .. Len(q) : q[i] \in Heads(F)
    /\ \A i \in 1 .. Len(q) - 1 : slob_next(w, q[i]) = q[i + 1]
    /\ slob_next(w, q[Len(q)]) = PageUnits
    /\ \A t \in Heads(F) : t >= s => \E i \in 1 .. Len(q) : q[i] = t

\* The header of a free block, and where the next one is.
LEMMA HeadFacts ==
    ASSUME NEW F \in SUBSET Offsets, NEW w \in [Offsets -> Int], Sound(w, F), NEW s \in Heads(F)
    PROVE  LET u == slob_units(w, s)
               n == slob_next(w, s)
           IN  /\ s \in Offsets /\ s \in F /\ s - 1 \notin F
               /\ u \in Int /\ n \in Int /\ n >= 1
               /\ Header(w, s, u, n) /\ Block(F, s, u, n)
               /\ slob_last(w, s) <=> n = PageUnits
<1>1. s \in F /\ s - 1 \notin F /\ s \in Offsets
  BY DEF Heads
<1>2. PICK u, n \in 1 .. PageUnits : Header(w, s, u, n) /\ Block(F, s, u, n)
  BY DEF Sound
<1>3. u \in Int /\ n \in Int /\ u >= 1 /\ n >= 1 /\ n <= PageUnits
  BY PageFacts
<1>4. slob_units(w, s) = u /\ slob_next(w, s) = n /\ (slob_last(w, s) <=> n = PageUnits)
  BY <1>1, <1>2, <1>3, HeaderRead
<1> QED
  BY <1>1, <1>2, <1>3, <1>4

\* The block behind a free block, and that there is none in between.
LEMMA NextHead ==
    ASSUME NEW F \in SUBSET Offsets, NEW s \in Int, NEW u \in Int, NEW n \in Int, Block(F, s, u, n)
    PROVE  /\ n < PageUnits => n \in Heads(F)
           /\ \A t \in Heads(F) : t > s => t >= n
<1>1. PageUnits \in Int
  BY PageFacts
<1>2. ASSUME n < PageUnits PROVE n \in Heads(F)
  <2>1. n \in F /\ s + u <= n - 1 /\ n - 1 \in s + u .. n - 1
    BY <1>1, <1>2 DEF Block
  <2> QED
    BY <2>1 DEF Block, Heads
<1>3. ASSUME NEW t \in Heads(F), t > s, t < n PROVE FALSE
  <2>1. t \in Int /\ t \in F /\ t - 1 \notin F
    BY OffsetFacts DEF Heads
  <2>2. t - 1 \in s .. s + u - 1 \/ t \in s + u .. n - 1
    BY <1>3, <2>1 DEF Block
  <2> QED
    BY <2>1, <2>2 DEF Block
<1>4. \A t \in Heads(F) : t \in Int
  BY OffsetFacts DEF Heads
<1> QED
  BY <1>2, <1>3, <1>4

\* Walk visits the blocks from s on.
LEMMA WalkVisits ==
    ASSUME NEW F \in SUBSET Offsets, NEW w \in [Offsets -> Int], Sound(w, F), NEW s \in Heads(F)
    PROVE  Visits(w, F, s, Walk(w)[s])
<1>1. PageUnits \in Int /\ PageUnits > 1
  BY PageFacts
<1> DEFINE Wrong == {k \in 0 .. PageUnits : \E x \in Heads(F) :
                        x = PageUnits - k /\ ~Visits(w, F, x, Walk(w)[x])}
<1>2. Wrong = {}
  <2>1. SUFFICES ASSUME Wrong # {} PROVE FALSE
    OBVIOUS
  <2>2. Wrong \in SUBSET Nat
    BY <1>1
  <2>3. PICK k \in Wrong : \A j \in Wrong : k <= j
    BY <2>1, <2>2, MinNat
  <2>4. PICK x \in Heads(F) : x = PageUnits - k /\ ~Visits(w, F, x, Walk(w)[x])
    BY <2>3
  <2>5. k \in Int
    BY <2>3
  <2> DEFINE u == slob_units(w, x)
             n == slob_next(w, x)
             q == Walk(w)[x]
  <2>6. /\ x \in Offsets /\ x \in F /\ x \in Int /\ u \in Int /\ n \in Int
        /\ Block(F, x, u, n) /\ (slob_last(w, x) <=> n = PageUnits)
    BY HeadFacts, OffsetFacts
  <2>7. q = WalkFrom(w, Walk(w), x)
    <3>1. \A f : f = [z \in Offsets |-> WalkFrom(w, f, z)] => f[x] = WalkFrom(w, f, x)
      BY <2>6
    <3> QED
      BY <3>1, WalkDefined
  <2>8. u >= 1 /\ x + u <= n /\ n <= PageUnits
    BY <2>6 DEF Block
  <2>9. /\ n < PageUnits => n \in Heads(F)
        /\ \A t \in Heads(F) : t > x => t >= n
    <3> HIDE DEF u, n
    <3> QED  BY <2>6, NextHead
  <2>10. \A t \in Heads(F) : t \in Int /\ t < PageUnits
    BY OffsetFacts DEF Heads
  <2>11. CASE n = PageUnits
    <3>1. q = <<x>>
      BY <2>6, <2>7, <2>11 DEF WalkFrom
    <3>2. q \in Seq(Int) /\ Len(q) = 1 /\ q[1] = x
      BY <2>6, <3>1
    <3> HIDE DEF q, u
    <3>3. \A t \in Heads(F) : t >= x => t = x
      BY <2>6, <2>9, <2>10, <2>11
    <3>4. Visits(w, F, x, q)
      BY <2>11, <3>2, <3>3 DEF Visits
    <3> QED
      BY <2>4, <3>4 DEF q
  <2>12. CASE n < PageUnits
    <3> DEFINE r == Walk(w)[n]
    <3>1. n \in Heads(F)
      BY <2>9, <2>12
    <3>2. Visits(w, F, n, r)
      <4>1. PageUnits - n \in 0 .. PageUnits /\ PageUnits - n < k /\ n = PageUnits - (PageUnits - n)
        <5>1. n \in Int /\ x \in Int /\ 0 <= x
          BY <2>6, OffsetFacts
        <5> HIDE DEF n, u
        <5> QED
          BY <1>1, <2>4, <2>5, <2>6, <2>8, <2>12, <5>1
      <4>2. PageUnits - n \notin Wrong
        <5> HIDE DEF Wrong
        <5>1. PageUnits - n \in Int
          BY <4>1
        <5> QED  BY <2>3, <2>5, <4>1, <5>1
      <4> HIDE DEF n
      <4> QED
        BY <3>1, <4>1, <4>2
    <3>3. q = <<x>> \o r
      <4>1. ~slob_last(w, x) /\ n \in x + 1 .. PageUnits
        BY <1>1, <2>6, <2>8, <2>12
      <4> QED
        BY <2>7, <4>1 DEF WalkFrom
    <3>4. r \in Seq(Int) /\ <<x>> \in Seq(Int) /\ Len(<<x>>) = 1 /\ <<x>>[1] = x
      BY <2>6, <3>2 DEF Visits
    <3>5. Len(r) \in Nat /\ Len(r) >= 1 /\ r[1] = n
      BY <3>2, <3>4 DEF Visits
    <3> HIDE DEF r, u
    <3>6. /\ q \in Seq(Int) /\ Len(q) = Len(r) + 1 /\ q[1] = x
          /\ \A i \in 1 .. Len(r) : q[i + 1] = r[i]
      <4>1. /\ <<x>> \o r \in Seq(Int) /\ Len(<<x>> \o r) = Len(<<x>>) + Len(r)
            /\ \A i \in 1 .. Len(<<x>>) + Len(r) :
                  (<<x>> \o r)[i] = IF i <= Len(<<x>>) THEN <<x>>[i] ELSE r[i - Len(<<x>>)]
        BY <3>4, ConcatProperties
      <4>2. \A i \in 1 .. 1 + Len(r) : q[i] = IF i <= 1 THEN <<x>>[i] ELSE r[i - 1]
        BY <3>3, <3>4, <4>1
      <4>3. q[1] = x
        BY <3>4, <3>5, <4>2
      <4>4. ASSUME NEW i \in 1 .. Len(r) PROVE q[i + 1] = r[i]
        <5>1. i + 1 \in 1 .. 1 + Len(r) /\ ~(i + 1 <= 1) /\ (i + 1) - 1 = i
          BY <3>5
        <5> HIDE DEF q
        <5> QED  BY <4>2, <5>1
      <4> QED
        BY <3>3, <3>4, <3>5, <4>1, <4>3, <4>4
    <3> HIDE DEF q
    <3>7. \A i \in 1 .. Len(q) : i = 1 \/ (i - 1 \in 1 .. Len(r) /\ q[i] = r[i - 1])
      <4> SUFFICES ASSUME NEW i \in 1 .. Len(q), i # 1 PROVE i - 1 \in 1 .. Len(r) /\ q[i] = r[i - 1]
        OBVIOUS
      <4>1. i - 1 \in 1 .. Len(r) /\ (i - 1) + 1 = i
        BY <3>5, <3>6
      <4> QED
        BY <3>6, <4>1
    <3>8. \A i \in 1 .. Len(q) : q[i] \in Heads(F)
      BY <3>2, <3>6, <3>7 DEF Visits
    <3>9. ASSUME NEW i \in 1 .. Len(q) - 1 PROVE slob_next(w, q[i]) = q[i + 1]
      <4>1. CASE i = 1
        <5>1. q[2] = r[1]
          BY <3>5, <3>6
        <5> QED
          BY <3>5, <3>6, <4>1, <5>1
      <4>2. CASE i # 1
        <5>1. i - 1 \in 1 .. Len(r) - 1 /\ (i - 1) + 1 = i /\ i \in 1 .. Len(r)
          BY <3>5, <3>6, <4>2
        <5>2. slob_next(w, r[i - 1]) = r[(i - 1) + 1]
          BY <3>2, <5>1 DEF Visits
        <5>3. q[i] = r[i - 1] /\ q[i + 1] = r[i]
          <6>1. q[i] = r[i - 1]
            <7>1. i \in 1 .. Len(q)
              BY <3>5, <3>6, <5>1
            <7> QED
              BY <3>7, <4>2, <7>1, Zenon
          <6>2. q[i + 1] = r[i]
            BY <3>6, <5>1
          <6> QED
            BY <6>1, <6>2
        <5> QED
          BY <5>1, <5>2, <5>3
      <4> QED
        BY <4>1, <4>2
    <3>10. slob_next(w, q[Len(q)]) = PageUnits
      <4>1. q[Len(r) + 1] = r[Len(r)]
        BY <3>5, <3>6
      <4> QED
        BY <3>2, <3>6, <4>1 DEF Visits
    <3>11. ASSUME NEW t \in Heads(F), t >= x PROVE \E i \in 1 .. Len(q) : q[i] = t
      <4>1. CASE t = x
        BY <3>5, <3>6, <4>1
      <4>2. CASE t # x
        <5>1. t >= n
          BY <2>6, <2>9, <2>10, <3>11, <4>2
        <5>2. PICK i \in 1 .. Len(r) : r[i] = t
          BY <3>2, <5>1 DEF Visits
        <5>3. i + 1 \in 1 .. Len(q) /\ q[i + 1] = t
          BY <3>5, <3>6, <5>2
        <5> QED
          BY <5>3
      <4> QED
        BY <4>1, <4>2
    <3>12. Visits(w, F, x, q)
      BY <3>5, <3>6, <3>8, <3>9, <3>10, <3>11 DEF Visits
    <3> QED
      BY <2>4, <3>12 DEF q
  <2> QED
    BY <2>6, <2>8, <2>11, <2>12, <1>1
<1>3. s \in Int /\ 0 <= s /\ s < PageUnits
  BY OffsetFacts DEF Heads
<1>4. PageUnits - s \in 0 .. PageUnits /\ s = PageUnits - (PageUnits - s)
  BY <1>1, <1>3
<1> QED
  BY <1>2, <1>4

\* struct slob_page of a page in use, whatever the words of its objects are.
PageRecord == [units : 0 .. PageUnits, free : 0 .. PageUnits, words : [Offsets -> Int]]

\* The page pg is exact, F being the units that are free: its headers describe
\* F, sp->free is the first of them and sp->units their number.
Exact(pg, F) ==
    /\ pg \in PageRecord
    /\ Sound(pg.words, F)
    /\ F # {} => pg.free \in F /\ \A i \in F : pg.free <= i
    /\ pg.units = Cardinality(F)

\* Sets of offsets are finite.
LEMMA FiniteOffsets ==
    ASSUME NEW F \in SUBSET Offsets
    PROVE  IsFiniteSet(F) /\ Cardinality(F) \in Nat /\ (Cardinality(F) = 0 <=> F = {})
           /\ Cardinality(F) <= PageUnits
<1>1. PageUnits \in Int /\ PageUnits > 1
  BY PageFacts
<1>2. IsFiniteSet(Offsets) /\ Cardinality(Offsets) = PageUnits
  <2>1. 0 \in Int /\ PageUnits - 1 \in Int
    BY <1>1
  <2>2. /\ IsFiniteSet(0 .. PageUnits - 1)
        /\ Cardinality(0 .. PageUnits - 1) = IF 0 > PageUnits - 1 THEN 0 ELSE (PageUnits - 1) - 0 + 1
    BY <2>1, FS_Interval
  <2> QED
    BY <1>1, <2>2 DEF Offsets
<1>3. IsFiniteSet(F) /\ Cardinality(F) <= Cardinality(Offsets)
  BY <1>2, FS_Subset
<1> QED
  BY <1>2, <1>3, FS_CardinalityType, FS_EmptySet

\* The first free unit is the first of a block.
LEMMA FirstHead ==
    ASSUME NEW F \in SUBSET Offsets, NEW f \in F, \A i \in F : f <= i
    PROVE  f \in Heads(F) /\ \A t \in Heads(F) : t >= f
<1>1. \A i \in F : i \in Int
  BY OffsetFacts
<1>2. f - 1 \notin F
  BY <1>1
<1> QED
  BY <1>1, <1>2 DEF Heads

\* The chain of an exact page visits its free blocks.
LEMMA ChainFacts ==
    ASSUME NEW F \in SUBSET Offsets, NEW pg, Exact(pg, F)
    PROVE  /\ F = {} => Chain(pg) = << >>
           /\ F # {} => Visits(pg.words, F, pg.free, Chain(pg))
           /\ ToSet(Chain(pg)) = Heads(F)
<1>1. pg.words \in [Offsets -> Int] /\ Sound(pg.words, F)
  BY DEF Exact, PageRecord
<1>2. pg.units = 0 <=> F = {}
  BY FiniteOffsets DEF Exact
<1>3. Chain(pg) = IF pg.units = 0 THEN << >> ELSE Walk(pg.words)[pg.free]
  BY DEF Chain, Walk, WalkFrom
<1>4. CASE F = {}
  <2>1. Chain(pg) = << >>
    BY <1>2, <1>3, <1>4
  <2>2. ToSet(<< >>) = {}
    BY DEF ToSet
  <2> QED
    BY <1>4, <2>1, <2>2 DEF Heads
<1>5. CASE F # {}
  <2> DEFINE q == Chain(pg)
  <2>1. pg.free \in Heads(F) /\ \A t \in Heads(F) : t >= pg.free
    BY <1>5, FirstHead DEF Exact
  <2>2. Visits(pg.words, F, pg.free, q)
    BY <1>1, <1>2, <1>3, <1>5, <2>1, WalkVisits
  <2> HIDE DEF q
  <2>3. DOMAIN q = 1 .. Len(q)
    BY <2>2 DEF Visits
  <2>4. ToSet(q) = Heads(F)
    <3>1. ToSet(q) = {q[i] : i \in 1 .. Len(q)}
      BY <2>3, Zenon DEF ToSet
    <3>2. /\ \A i \in 1 .. Len(q) : q[i] \in Heads(F)
          /\ \A t \in Heads(F) : t >= pg.free => \E i \in 1 .. Len(q) : q[i] = t
      BY <2>2, Zenon DEF Visits
    <3> QED
      BY <2>1, <3>1, <3>2, Zenon
  <2> QED
    BY <1>5, <2>2, <2>4 DEF q
<1> QED
  BY <1>4, <1>5

\* Clearing the words that are no headers leaves an exact page exact, and what
\* is left in its words fits slobidx_t.
LEMMA TidyExact ==
    ASSUME NEW F \in SUBSET Offsets, NEW pg, Exact(pg, F)
    PROVE  /\ Exact(Tidy(pg), F)
           /\ Tidy(pg).words \in [Offsets -> -PageUnits .. PageUnits]
           /\ Tidy(pg).units = pg.units /\ Tidy(pg).free = pg.free
           /\ Tidy(pg) = [units |-> pg.units, free |-> pg.free, words |-> Tidy(pg).words]
<1> DEFINE w == pg.words
           keep(i) == i \in Heads(F) \/ (i - 1 \in Heads(F) /\ w[i - 1] > 0)
           v == [i \in Offsets |-> IF keep(i) THEN w[i] ELSE 0]
<1>1. /\ pg \in PageRecord /\ w \in [Offsets -> Int] /\ Sound(w, F)
      /\ PageUnits \in Int /\ PageUnits > 1
  BY PageFacts DEF Exact, PageRecord
<1>2. Tidy(pg) = [pg EXCEPT !.words = v]
  BY ChainFacts DEF Tidy
<1>3. /\ Tidy(pg).words = v /\ Tidy(pg).units = pg.units /\ Tidy(pg).free = pg.free
      /\ Tidy(pg) = [units |-> pg.units, free |-> pg.free, words |-> v]
  BY <1>1, <1>2 DEF PageRecord
<1>4. v \in [Offsets -> Int]
  BY <1>1
<1>5. ASSUME NEW s \in Heads(F)
      PROVE  LET u == slob_units(w, s)
                 n == slob_next(w, s)
             IN  /\ s \in Offsets /\ s \in Int /\ u \in Int /\ n \in Int
                 /\ u >= 1 /\ s + u <= n /\ n <= PageUnits /\ n >= 1
                 /\ Header(w, s, u, n) /\ Block(F, s, u, n)
  BY <1>1, HeadFacts, OffsetFacts DEF Block
<1>6. ASSUME NEW s \in Heads(F)
      PROVE  Header(v, s, slob_units(w, s), slob_next(w, s))
  <2> DEFINE u == slob_units(w, s)
             n == slob_next(w, s)
  <2>1. /\ s \in Offsets /\ s \in Int /\ u \in Int /\ n \in Int /\ u >= 1 /\ s + u <= n
        /\ n <= PageUnits /\ Header(w, s, u, n)
    BY <1>5
  <2> HIDE DEF u, n
  <2>2. v[s] = w[s]
    BY <2>1
  <2>3. CASE u = 1
    BY <2>1, <2>2, <2>3 DEF Header, u, n
  <2>4. CASE u # 1
    <3>1. w[s] = u /\ w[s + 1] = n
      BY <2>1, <2>4 DEF Header
    <3>2. s + 1 \in Offsets /\ (s + 1) - 1 = s
      BY <1>1, <2>1, <2>4, OffsetFacts
    <3>3. keep(s + 1)
      BY <2>1, <3>1, <3>2
    <3>4. v[s + 1] = n
      BY <3>1, <3>2, <3>3
    <3> QED
      BY <2>1, <2>2, <2>4, <3>1, <3>4 DEF Header, u, n
  <2> QED
    BY <2>3, <2>4
<1>7. Sound(v, F)
  <2> SUFFICES ASSUME NEW s \in Heads(F)
               PROVE  \E u, n \in 1 .. PageUnits : Header(v, s, u, n) /\ Block(F, s, u, n)
    BY DEF Sound
  <2> DEFINE x == slob_units(w, s)
             y == slob_next(w, s)
  <2>1. /\ s \in Int /\ x \in Int /\ y \in Int /\ x >= 1 /\ s + x <= y /\ y <= PageUnits /\ y >= 1
        /\ Block(F, s, x, y) /\ s >= 0
    BY <1>5, OffsetFacts
  <2>2. Header(v, s, x, y)
    BY <1>6
  <2> HIDE DEF x, y, v, w
  <2>3. x \in 1 .. PageUnits /\ y \in 1 .. PageUnits
    BY <1>1, <2>1
  <2> QED
    BY <2>1, <2>2, <2>3
<1>8. v \in [Offsets -> -PageUnits .. PageUnits]
  <2> SUFFICES ASSUME NEW i \in Offsets PROVE v[i] \in -PageUnits .. PageUnits
    BY <1>4
  <2>1. CASE i \in Heads(F)
    <3> DEFINE u == slob_units(w, i)
               n == slob_next(w, i)
    <3>1. /\ i \in Int /\ 0 <= i /\ u \in Int /\ n \in Int /\ u >= 1 /\ i + u <= n /\ n <= PageUnits
          /\ n >= 1 /\ Header(w, i, u, n)
      BY <1>5, <2>1, OffsetFacts
    <3>2. v[i] = w[i]
      BY <2>1
    <3> HIDE DEF u, n, v, w
    <3>3. w[i] = u \/ w[i] = -n
      BY <3>1 DEF Header
    <3> QED
      BY <1>1, <3>1, <3>2, <3>3
  <2>2. CASE i \notin Heads(F) /\ keep(i)
    <3> DEFINE s == i - 1
               u == slob_units(w, s)
               n == slob_next(w, s)
    <3>1. s \in Heads(F) /\ w[s] > 0
      BY <2>2
    <3>2. /\ s \in Offsets /\ s \in Int /\ 0 <= s /\ u \in Int /\ n \in Int /\ u >= 1 /\ s + u <= n
          /\ n <= PageUnits /\ n >= 1 /\ Header(w, s, u, n)
      BY <1>5, <3>1, OffsetFacts
    <3>3. w[s + 1] = n /\ s + 1 = i
      <4>1. u # 1
        <5> HIDE DEF u, n, v, w
        <5> QED  BY <3>1, <3>2 DEF Header
      <4>2. s + 1 = i
        BY OffsetFacts
      <4> HIDE DEF u, n, v, w, s
      <4> QED
        BY <3>2, <4>1, <4>2 DEF Header
    <3>4. v[i] = w[i]
      BY <2>2
    <3> HIDE DEF u, n, v, w, s
    <3> QED
      BY <1>1, <3>2, <3>3, <3>4
  <2>3. CASE ~keep(i)
    <3>1. v[i] = 0
      BY <2>3
    <3> QED
      BY <1>1, <3>1
  <2> QED
    BY <2>1, <2>2, <2>3
<1> HIDE DEF v, w
<1>9. Tidy(pg) \in PageRecord
  BY <1>1, <1>3, <1>4 DEF PageRecord
<1>10. Exact(Tidy(pg), F)
  BY <1>3, <1>7, <1>9 DEF Exact
<1> QED
  BY <1>3, <1>8, <1>10

-----------------------------------------------------------------------------
(* Cutting an object out of a free block *)

\* What a block in front of s means for s.
LEMMA BlocksApart ==
    ASSUME NEW F \in SUBSET Offsets, NEW s \in Heads(F), NEW t \in Heads(F), s < t,
           NEW u \in Int, NEW n \in Int, Block(F, s, u, n)
    PROVE  s \in Int /\ t \in Int /\ n <= t /\ s + u < t /\ n < PageUnits
<1>1. s \in Int /\ t \in Int /\ PageUnits \in Int /\ t < PageUnits
  BY PageFacts, OffsetFacts DEF Heads
<1>2. n <= t
  BY <1>1, NextHead
<1>3. u >= 1 /\ s + u <= n /\ (n < PageUnits => s + u < n)
  BY DEF Block
<1> QED
  BY <1>1, <1>2, <1>3

\* The block in front of s is the only one whose link is s.
LEMMA OnePrevious ==
    ASSUME NEW F \in SUBSET Offsets, NEW s \in Heads(F),
           NEW q \in Heads(F), NEW a \in Int, Block(F, q, a, s),
           NEW t \in Heads(F), NEW b \in Int, Block(F, t, b, s)
    PROVE  t = q
<1>1. s \in Int /\ q \in Int /\ t \in Int
  BY OffsetFacts DEF Heads
<1>2. q < s /\ t < s
  BY <1>1 DEF Block
<1>3. ~(q < t)
  BY <1>1, <1>2, BlocksApart
<1>4. ~(t < q)
  BY <1>1, <1>2, BlocksApart
<1> QED
  BY <1>1, <1>3, <1>4

\* The words v of a page after k units have been taken out of its free block s,
\* d units into it, q being the block in front of s: the fragment in front of
\* the object and the rest have headers, and the link to s is now to link.
CutWords(F, w, s, d, k, q, link, v) ==
    LET u == slob_units(w, s)
        n == slob_next(w, s)
    IN  /\ s \in Heads(F) /\ d >= 0 /\ k >= 1 /\ d + k <= u
        /\ q = NULL \/ (q \in Heads(F) /\ slob_next(w, q) = s)
        /\ q = NULL => \A i \in F : s <= i
        /\ link = IF d + k = u THEN n ELSE s + d + k
        /\ \A t \in Heads(F) : t # s /\ (t # q \/ d > 0) =>
              Header(v, t, slob_units(w, t), slob_next(w, t))
        /\ d > 0 => Header(v, s, d, link)
        /\ d = 0 /\ q # NULL => Header(v, q, slob_units(w, q), link)
        /\ d + k < u => Header(v, s + d + k, u - (d + k), n)

\* Such words describe the units that are left.
LEMMA CutSound ==
    ASSUME NEW F \in SUBSET Offsets, NEW w \in [Offsets -> Int], Sound(w, F),
           NEW s, NEW d \in Int, NEW k \in Int, NEW q, NEW link \in Int,
           NEW v \in [Offsets -> Int], CutWords(F, w, s, d, k, q, link, v)
    PROVE  Sound(v, F \ (s + d .. s + d + k - 1))
<1> DEFINE u == slob_units(w, s)
           n == slob_next(w, s)
<1>0. /\ s \in Heads(F) /\ d >= 0 /\ k >= 1 /\ d + k <= u /\ u \in Int /\ n \in Int
      /\ q = NULL \/ (q \in Heads(F) /\ slob_next(w, q) = s)
      /\ q = NULL => \A i \in F : s <= i
      /\ link = IF d + k = u THEN n ELSE s + d + k
      /\ \A t \in Heads(F) : t # s /\ (t # q \/ d > 0) =>
            Header(v, t, slob_units(w, t), slob_next(w, t))
      /\ d > 0 => Header(v, s, d, link)
      /\ d = 0 /\ q # NULL => Header(v, q, slob_units(w, q), link)
      /\ d + k < u => Header(v, s + d + k, u - (d + k), n)
  BY HeadFacts DEF CutWords
<1> DEFINE G == F \ (s + d .. s + d + k - 1)
<1>1. /\ s \in Int /\ 0 <= s /\ s < PageUnits /\ PageUnits \in Int /\ s \in F /\ s - 1 \notin F
      /\ \A i \in F : i \in Int /\ 0 <= i /\ i < PageUnits
  BY <1>0, PageFacts, OffsetFacts DEF Heads
<1>2. Block(F, s, u, n)
  BY <1>0, HeadFacts
<1> HIDE DEF u, n
<1>3. /\ u >= 1 /\ s + u <= n /\ n <= PageUnits
      /\ \A i \in s .. s + u - 1 : i \in F
      /\ \A i \in s + u .. n - 1 : i \notin F
      /\ n < PageUnits => n \in F /\ s + u < n
  BY <1>0, <1>2 DEF Block
<1> SUFFICES ASSUME NEW t \in Heads(G)
             PROVE  \E a, b \in 1 .. PageUnits : Header(v, t, a, b) /\ Block(G, t, a, b)
  BY DEF Sound
<1>4. /\ t \in F /\ t \in Int /\ t \notin s + d .. s + d + k - 1
      /\ t - 1 \notin F \/ t - 1 \in s + d .. s + d + k - 1
  BY <1>0, <1>1 DEF Heads
<1>5. CASE t = s + d + k
  <2>1. d + k < u
    <3>1. SUFFICES ASSUME d + k = u PROVE FALSE
      BY <1>0
    <3>2. t = s + u /\ n > s + u
      BY <1>0, <1>1, <1>3, <1>4, <1>5, <3>1
    <3>3. t \in s + u .. n - 1
      BY <1>0, <1>3, <1>4, <3>2
    <3> QED
      BY <1>0, <1>3, <1>4, <3>3
  <2>2. Block(G, t, u - (d + k), n)
    <3> DEFINE x == u - (d + k)
    <3>1. x \in Int /\ x >= 1 /\ t + x = s + u
      BY <1>0, <1>1, <1>5, <2>1
    <3>2. \A i \in t .. s + u - 1 : i \in G
      BY <1>0, <1>1, <1>3, <1>5
    <3>3. \A i \in s + u .. n - 1 : i \notin G
      BY <1>0, <1>3
    <3>4. n < PageUnits => n \in G
      BY <1>0, <1>1, <1>3, <2>1
    <3> HIDE DEF G, x
    <3>5. \A i \in t .. t + x - 1 : i \in G
      <4>1. t + x - 1 = s + u - 1
        <5>1. t \in Int /\ s \in Int /\ u \in Int
          BY <1>0, <1>1, <1>4
        <5> QED
          BY <3>1, <5>1
      <4> QED
        BY <3>2, <4>1
    <3>6. \A i \in t + x .. n - 1 : i \notin G
      BY <1>0, <3>1, <3>3
    <3>7. t + x <= n /\ (n < PageUnits => t + x < n)
      BY <1>0, <1>3, <3>1
    <3>8. Block(G, t, x, n)
      BY <1>0, <1>3, <3>1, <3>4, <3>5, <3>6, <3>7 DEF Block
    <3> QED
      BY <1>0, <3>8 DEF x
  <2>3. u - (d + k) \in 1 .. PageUnits /\ n \in 1 .. PageUnits
    BY <1>0, <1>1, <1>3, <2>1
  <2> QED
    BY <1>0, <1>5, <2>1, <2>2, <2>3
<1>6. link > s + d /\ link <= PageUnits /\ (link < PageUnits => link \in G)
      /\ \A i \in s + d .. link - 1 : i \notin G
  <2>1. CASE d + k = u
    BY <1>0, <1>1, <1>3, <2>1
  <2>2. CASE d + k < u
    <3>1. link = s + d + k /\ link \in s .. s + u - 1
      BY <1>0, <1>1, <1>3, <2>2
    <3> QED
      BY <1>0, <1>1, <1>3, <2>2, <3>1
  <2> QED
    BY <1>0, <2>1, <2>2
<1>7. CASE t = s
  <2>1. d > 0
    BY <1>0, <1>1, <1>4, <1>7
  <2>2. \A i \in s .. s + d - 1 : i \in G
    BY <1>0, <1>1, <1>3
  <2> HIDE DEF G
  <2>3. Block(G, t, d, link)
    BY <1>0, <1>1, <1>6, <1>7, <2>1, <2>2 DEF Block
  <2>4. d \in 1 .. PageUnits /\ link \in 1 .. PageUnits
    BY <1>0, <1>1, <1>3, <1>6, <2>1
  <2> QED
    BY <1>0, <1>7, <2>1, <2>3, <2>4
<1>8. CASE t # s /\ t # s + d + k
  <2>1. t - 1 \notin F
    BY <1>0, <1>4, <1>8
  <2>2. t \in Heads(F)
    BY <1>0, <1>4, <2>1 DEF Heads
  <2> DEFINE a == slob_units(w, t)
             b == slob_next(w, t)
  <2>3. a \in Int /\ b \in Int /\ Block(F, t, a, b)
    BY <1>0, <2>2, HeadFacts
  <2> HIDE DEF a, b
  <2>4. /\ a >= 1 /\ t + a <= b /\ b <= PageUnits
        /\ \A i \in t .. t + a - 1 : i \in F
        /\ \A i \in t + a .. b - 1 : i \notin F
        /\ b < PageUnits => b \in F /\ t + a < b
    BY <1>0, <2>3 DEF Block
  <2>5. t > s => t > s + u
    BY <1>0, <1>2, <2>2, BlocksApart
  <2>6. t < s => t + a < s /\ b <= s
    BY <1>0, <2>2, <2>3, BlocksApart
  <2>7. \A i \in t .. t + a - 1 : i \in G
    <3>1. CASE t > s
      BY <1>0, <1>1, <1>4, <2>4, <2>5, <3>1
    <3>2. CASE t < s
      BY <1>0, <1>1, <1>4, <2>3, <2>4, <2>6, <3>2
    <3> QED
      BY <1>0, <1>1, <1>4, <1>8, <3>1, <3>2
  <2>8. CASE t = q /\ d = 0
    <3>1. b = s /\ q # NULL
      <4>1. t # NULL
        BY <1>0, <1>1, <1>4 DEF NULL
      <4> QED
        BY <1>0, <2>8, <4>1 DEF b
    <3>2. \A i \in t + a .. link - 1 : i \notin G
      <4> SUFFICES ASSUME NEW i \in t + a .. link - 1 PROVE i \notin G
        OBVIOUS
      <4>1. i \in t + a .. b - 1 \/ i \in s + d .. link - 1
        BY <1>0, <1>1, <1>4, <2>3, <2>8, <3>1
      <4> QED
        BY <1>0, <1>6, <2>4, <4>1
    <3>3. t + a < link
      BY <1>0, <1>1, <1>4, <1>6, <2>3, <2>4, <2>8, <3>1
    <3> HIDE DEF G
    <3>4. Block(G, t, a, link)
      <4>1. t + a <= link
        BY <1>0, <1>4, <2>3, <3>3
      <4> QED
        BY <1>0, <1>6, <2>4, <2>7, <3>2, <3>3, <4>1 DEF Block
    <3>5. a \in 1 .. PageUnits /\ link \in 1 .. PageUnits
      BY <1>0, <1>1, <1>4, <1>6, <2>3, <2>4, <2>8, <3>3
    <3>6. Header(v, t, a, link)
      BY <1>0, <2>8, <3>1 DEF a
    <3> QED
      BY <1>0, <3>4, <3>5, <3>6
  <2>9. CASE ~(t = q /\ d = 0)
    <3>1. Header(v, t, a, b)
      BY <1>0, <1>8, <2>2, <2>9 DEF a, b
    <3>2. b < PageUnits => b \in G
      <4> SUFFICES ASSUME b < PageUnits, b \in s + d .. s + d + k - 1 PROVE FALSE
        BY <1>0, <2>4
      <4>1. b \in Heads(F)
        BY <1>0, <2>3, <1>4, NextHead
      <4>2. CASE b > s
        BY <1>0, <1>1, <1>2, <2>3, <4>1, <4>2, BlocksApart
      <4>3. CASE b = s
        <5>1. d = 0 /\ t < s
          BY <1>0, <1>1, <1>4, <2>3, <2>4, <4>3
        <5>2. q # NULL
          BY <1>0, <1>4, <5>1
        <5>3. slob_units(w, q) \in Int /\ Block(F, q, slob_units(w, q), s)
          BY <1>0, <5>2, HeadFacts
        <5>4. t = q
          BY <1>0, <2>2, <2>3, <4>3, <5>2, <5>3, OnePrevious
        <5> QED
          BY <1>0, <2>9, <5>1, <5>4
      <4> QED
        BY <1>0, <1>1, <2>3, <4>2, <4>3
    <3>3. \A i \in t + a .. b - 1 : i \notin G
      BY <1>0, <2>4
    <3> HIDE DEF G
    <3>4. Block(G, t, a, b)
      BY <1>0, <2>4, <2>7, <3>2, <3>3 DEF Block
    <3>5. a \in 1 .. PageUnits /\ b \in 1 .. PageUnits
      BY <1>0, <1>1, <1>4, <2>3, <2>4
    <3> QED
      BY <1>0, <3>1, <3>4, <3>5
  <2> QED
    BY <1>0, <2>8, <2>9
<1> QED
  BY <1>0, <1>5, <1>7, <1>8

\* A free block b of a page with the words w, as the searches see it.
FreeBlock(b, w, F) ==
    /\ b.cur \in Heads(F) /\ b.avail = slob_units(w, b.cur)
    /\ \/ b.prev = NULL /\ \A i \in F : b.cur <= i
       \/ b.prev \in Heads(F) /\ slob_next(w, b.prev) = b.cur

\* A page record with k units less than pg, those at c, and F without them.
CutFrom(new, pg, F, c, k) ==
    /\ new.units = pg.units - k
    /\ new.words \in [Offsets -> Int]
    /\ Sound(new.words, F \ (c .. c + k - 1))
    /\ new = [units |-> new.units, words |-> new.words, free |-> new.free]

\* Carving at the start of a block.
LEMMA CarveFront ==
    ASSUME NEW F \in SUBSET Offsets, NEW pg \in PageRecord, Sound(pg.words, F),
           NEW b, FreeBlock(b, pg.words, F),
           NEW k \in Int, k >= 1, k <= b.avail, NEW a, Delta(b.cur, a) = 0
    PROVE  LET n    == slob_next(pg.words, b.cur)
               link == IF k = b.avail THEN n ELSE b.cur + k
           IN  /\ Carve(pg, b, k, a).free = IF b.prev = NULL THEN link ELSE pg.free
               /\ CutFrom(Carve(pg, b, k, a), pg, F, b.cur, k)
<1> DEFINE w == pg.words
           s == b.cur
           q == b.prev
           u == slob_units(w, s)
           n == slob_next(w, s)
           link == IF k = u THEN n ELSE s + k
           w2 == IF q = NULL THEN w ELSE set_slob(w, q, slob_units(w, q), link)
           w3 == IF u = k THEN w2 ELSE set_slob(w2, link, u - k, n)
           C == Carve(pg, b, k, a)
<1>1. /\ w \in [Offsets -> Int] /\ Sound(w, F) /\ PageUnits \in Int /\ u = b.avail
      /\ s \in Heads(F) /\ s \in Offsets /\ s \in Int /\ 0 <= s
  BY PageFacts, OffsetFacts DEF PageRecord, FreeBlock, Heads
<1>2. /\ u \in Int /\ n \in Int /\ u >= 1 /\ s + u <= n /\ n <= PageUnits
      /\ Block(F, s, u, n) /\ Header(w, s, u, n)
  BY <1>1, HeadFacts DEF Block
<1>3. s + 0 = s
  BY <1>1
<1>4. C = [units |-> pg.units - k, words |-> w3, free |-> IF q = NULL THEN link ELSE pg.free]
  BY <1>1, <1>3 DEF Carve
<1> HIDE DEF C
<1>5. /\ C.units = pg.units - k /\ C.words = w3 /\ C.free = (IF q = NULL THEN link ELSE pg.free)
      /\ C = [units |-> C.units, words |-> C.words, free |-> C.free]
  <2> HIDE DEF w3, link
  <2> QED  BY <1>4
<1>6. link \in Int /\ link > s /\ link <= PageUnits /\ (k # u => link = s + k /\ s + k < s + u)
  BY <1>1, <1>2
<1>7. q # NULL => /\ q \in Heads(F) /\ q \in Offsets /\ q \in Int
                  /\ slob_units(w, q) \in Int /\ slob_units(w, q) >= 1
                  /\ q + slob_units(w, q) < s /\ slob_next(w, q) = s
                  /\ Header(w, q, slob_units(w, q), s) /\ Block(F, q, slob_units(w, q), s)
  <2> SUFFICES ASSUME q # NULL
               PROVE  /\ q \in Heads(F) /\ q \in Offsets /\ q \in Int
                      /\ slob_units(w, q) \in Int /\ slob_units(w, q) >= 1
                      /\ q + slob_units(w, q) < s /\ slob_next(w, q) = s
                      /\ Header(w, q, slob_units(w, q), s) /\ Block(F, q, slob_units(w, q), s)
    OBVIOUS
  <2>1. q \in Heads(F) /\ slob_next(w, q) = s
    BY DEF FreeBlock
  <2>2. /\ slob_units(w, q) \in Int /\ Header(w, q, slob_units(w, q), s)
        /\ Block(F, q, slob_units(w, q), s) /\ q \in Offsets
    BY <1>1, <2>1, HeadFacts
  <2>3. /\ slob_units(w, q) >= 1 /\ q + slob_units(w, q) <= s /\ q \in Int
        /\ (s < PageUnits => q + slob_units(w, q) < s)
    BY <2>2, OffsetFacts DEF Block
  <2>4. s < PageUnits
    BY <1>1, OffsetFacts
  <2> QED
    BY <2>1, <2>2, <2>3, <2>4
<1> HIDE DEF w, s, q, u, n
<1>8. /\ w2 \in [Offsets -> Int]
      /\ q # NULL => Header(w2, q, slob_units(w, q), link)
      /\ \A t \in Offsets, x, m \in Int :
            /\ x >= 1 /\ t + x <= PageUnits /\ Header(w, t, x, m)
            /\ q # NULL => t + x <= q \/ q + slob_units(w, q) <= t
            => Header(w2, t, x, m)
  <2>1. CASE q = NULL
    BY <1>1, <2>1
  <2>2. CASE q # NULL
    <3> HIDE DEF link
    <3>1. w2 = set_slob(w, q, slob_units(w, q), link) /\ q + slob_units(w, q) <= PageUnits
      BY <1>1, <1>2, <1>7, <2>2
    <3> HIDE DEF w2
    <3> QED
      BY <1>1, <1>6, <1>7, <2>2, <3>1, HeaderSet, HeaderKept
  <2> QED
    BY <2>1, <2>2
<1> HIDE DEF w2
<1>9. /\ w3 \in [Offsets -> Int]
      /\ k < u => Header(w3, s + k, u - k, n)
      /\ \A t \in Offsets, x, m \in Int :
            /\ x >= 1 /\ t + x <= PageUnits /\ Header(w2, t, x, m)
            /\ t + x <= s \/ s + u <= t
            => Header(w3, t, x, m)
  <2>1. CASE u = k
    BY <1>2, <1>8, <2>1
  <2>2. CASE u # k
    <3>1. /\ w3 = set_slob(w2, s + k, u - k, n) /\ s + k \in Offsets
          /\ u - k \in Int /\ u - k >= 1 /\ (s + k) + (u - k) = s + u
          /\ (s + k) + (u - k) <= PageUnits
      BY <1>1, <1>2, <1>6, <2>2, OffsetFacts
    <3> HIDE DEF w3
    <3>2. Header(w3, s + k, u - k, n) /\ w3 \in [Offsets -> Int]
      BY <1>2, <1>8, <3>1, HeaderSet
    <3>3. ASSUME NEW t \in Offsets, NEW x \in Int, NEW m \in Int,
                 x >= 1, t + x <= PageUnits, Header(w2, t, x, m), t + x <= s \/ s + u <= t
          PROVE  Header(w3, t, x, m)
      <4>1. t \in Int /\ (t + x <= s + k \/ (s + k) + (u - k) <= t)
        BY <1>1, <1>2, <3>1, <3>3, OffsetFacts
      <4> QED
        BY <1>2, <1>8, <3>1, <3>3, <4>1, HeaderKept
    <3> QED
      BY <3>2, <3>3
  <2> QED
    BY <2>1, <2>2
<1> HIDE DEF w3
<1>10. ASSUME NEW t \in Heads(F), t # s, t # q
       PROVE  Header(w3, t, slob_units(w, t), slob_next(w, t))
  <2> DEFINE x == slob_units(w, t)
             m == slob_next(w, t)
  <2>1. /\ t \in Offsets /\ t \in Int /\ x \in Int /\ m \in Int /\ x >= 1 /\ t + x <= m
        /\ m <= PageUnits /\ Header(w, t, x, m) /\ Block(F, t, x, m)
    BY <1>1, HeadFacts, OffsetFacts DEF Block
  <2> HIDE DEF x, m
  <2>2. t + x <= s \/ s + u <= t
    <3>1. t < s => t + x < s
      BY <1>1, <2>1, BlocksApart
    <3>2. s < t => s + u < t
      BY <1>1, <1>2, <2>1, BlocksApart
    <3> QED
      BY <1>1, <1>2, <1>10, <2>1, <3>1, <3>2
  <2>3. q # NULL => t + x <= q \/ q + slob_units(w, q) <= t
    <3> SUFFICES ASSUME q # NULL PROVE t + x <= q \/ q + slob_units(w, q) <= t
      OBVIOUS
    <3> DEFINE y == slob_units(w, q)
    <3>1. q \in Heads(F) /\ q \in Int /\ y \in Int /\ Block(F, q, y, s)
      BY <1>7
    <3> HIDE DEF y
    <3>2. t < q => t + x < q
      BY <2>1, <3>1, BlocksApart
    <3>3. q < t => q + y < t
      BY <1>1, <2>1, <3>1, BlocksApart
    <3>4. t + x <= q \/ q + y <= t
      BY <1>10, <2>1, <3>1, <3>2, <3>3
    <3> QED
      BY <3>4 DEF y
  <2>4. t + x <= PageUnits
    BY <1>1, <2>1
  <2>5. Header(w2, t, x, m)
    BY <1>8, <2>1, <2>3, <2>4
  <2>6. Header(w3, t, x, m)
    BY <1>9, <2>1, <2>2, <2>4, <2>5
  <2> QED
    BY <2>6 DEF x, m
<1>11. q # NULL => Header(w3, q, slob_units(w, q), link)
  <2> SUFFICES ASSUME q # NULL PROVE Header(w3, q, slob_units(w, q), link)
    OBVIOUS
  <2>1. q + slob_units(w, q) <= s /\ q + slob_units(w, q) <= PageUnits
    BY <1>1, <1>2, <1>7
  <2> QED
    BY <1>6, <1>7, <1>8, <1>9, <2>1
<1>12. Sound(w3, F \ (s .. s + k - 1))
  <2>1. q = NULL \/ (q \in Heads(F) /\ slob_next(w, q) = s)
    BY <1>7
  <2>2. q = NULL => \A i \in F : s <= i
    <3>1. NULL \notin Heads(F)
      BY OffsetFacts DEF Heads, NULL
    <3> QED
      BY <3>1 DEF FreeBlock, q, s
  <2>3. PICK d \in Int : d = 0
    OBVIOUS
  <2>4. /\ d >= 0 /\ d + k <= u /\ link = (IF d + k = u THEN n ELSE s + d + k)
        /\ s + d = s /\ s + d + k = s + k /\ d + k = k /\ k \in Int /\ link \in Int
    <3>1. u = b.avail
      BY <1>1 DEF u, s, w
    <3> QED
      BY <1>1, <1>2, <1>6, <2>3, <3>1
  <2>5. CutWords(F, w, s, d, k, q, link, w3)
    <3>1. \A t \in Heads(F) : t # s /\ t # q => Header(w3, t, slob_units(w, t), slob_next(w, t))
      BY <1>10
    <3>2. u = slob_units(w, s) /\ n = slob_next(w, s) /\ s \in Heads(F)
      BY <1>1 DEF u, n
    <3>3. d + k < u => Header(w3, s + d + k, u - (d + k), n)
      BY <1>9, <2>4
    <3> HIDE DEF link
    <3> QED
      BY <1>11, <2>1, <2>2, <2>3, <2>4, <3>1, <3>2, <3>3 DEF CutWords
  <2> HIDE DEF link
  <2>7. Sound(w3, F \ (s + d .. s + d + k - 1))
    BY <1>1, <1>9, <2>4, <2>5, CutSound
  <2> QED
    BY <2>4, <2>7
<1> QED
  BY <1>1, <1>5, <1>9, <1>12 DEF w, s, q, n, C, CutFrom

\* Carving inside a block, which leaves a fragment in front of the object.
LEMMA CarveInside ==
    ASSUME NEW F \in SUBSET Offsets, NEW pg \in PageRecord, Sound(pg.words, F),
           NEW b, FreeBlock(b, pg.words, F), NEW a,
           NEW d \in Int, d = Delta(b.cur, a), d > 0,
           NEW k \in Int, k >= 1, d + k <= b.avail
    PROVE  /\ Carve(pg, b, k, a).free = pg.free
           /\ CutFrom(Carve(pg, b, k, a), pg, F, b.cur + d, k)
<1> DEFINE w == pg.words
           s == b.cur
           u == slob_units(w, s)
           n == slob_next(w, s)
           c == s + d
           w0 == set_slob(w, c, u - d, n)
           w1 == set_slob(w0, s, d, c)
           link == IF u - d = k THEN n ELSE c + k
           w2 == set_slob(w1, s, d, link)
           w3 == IF u - d = k THEN w2 ELSE set_slob(w2, link, u - d - k, n)
           C == Carve(pg, b, k, a)
<1>1. /\ w \in [Offsets -> Int] /\ Sound(w, F) /\ PageUnits \in Int /\ u = b.avail
      /\ s \in Heads(F) /\ s \in Offsets /\ s \in Int /\ 0 <= s
  BY PageFacts, OffsetFacts DEF PageRecord, FreeBlock, Heads
<1>2. /\ u \in Int /\ n \in Int /\ u >= 1 /\ s + u <= n /\ n <= PageUnits
      /\ Block(F, s, u, n) /\ Header(w, s, u, n)
  BY <1>1, HeadFacts DEF Block
<1>3. /\ c \in Offsets /\ c \in Int /\ u - d \in Int /\ u - d >= 1 /\ c + (u - d) = s + u
      /\ s + d <= c /\ c <= PageUnits /\ c >= 1 /\ d + k <= u /\ s # NULL
      /\ s + u <= PageUnits /\ c + (u - d) <= PageUnits /\ s + d <= PageUnits
  BY <1>1, <1>2, OffsetFacts DEF NULL
<1>4. w0 \in [Offsets -> Int] /\ Header(w0, c, u - d, n)
  BY <1>1, <1>2, <1>3, HeaderSet
<1>5. w1 \in [Offsets -> Int] /\ Header(w1, s, d, c) /\ Header(w1, c, u - d, n)
  <2> HIDE DEF w0, c, u, n, s, w
  <2>1. w1 \in [Offsets -> Int] /\ Header(w1, s, d, c)
    BY <1>1, <1>3, <1>4, HeaderSet
  <2>2. Header(w1, c, u - d, n)
    BY <1>1, <1>2, <1>3, <1>4, HeaderKept
  <2> QED  BY <2>1, <2>2
<1>6. /\ slob_units(w1, c) = u - d /\ slob_next(w1, c) = n
      /\ slob_units(w1, s) = d
  <2>1. n >= 1
    BY <1>2, <1>1
  <2> HIDE DEF w1, c, u, n, s, w
  <2> QED
    BY <1>1, <1>2, <1>3, <1>5, <2>1, HeaderRead
<1>7. C = [units |-> pg.units - k, words |-> w3, free |-> pg.free]
  <2>1. d # 0
    OBVIOUS
  <2> QED
    BY <1>1, <1>3, <1>6, <2>1 DEF Carve
<1> HIDE DEF C
<1>8. /\ C.units = pg.units - k /\ C.words = w3 /\ C.free = pg.free
      /\ C = [units |-> C.units, words |-> C.words, free |-> C.free]
  <2> HIDE DEF w3
  <2> QED  BY <1>7
<1> HIDE DEF w, s, u, n
<1>9. /\ link \in Int /\ link > c /\ link <= PageUnits
      /\ link = (IF d + k = u THEN n ELSE s + d + k)
      /\ u - d # k => link = c + k /\ c + k < s + u
  BY <1>1, <1>2, <1>3
<1> HIDE DEF link, w0, w1
<1>10. /\ w2 \in [Offsets -> Int] /\ Header(w2, s, d, link)
  BY <1>1, <1>3, <1>5, <1>9, HeaderSet
<1>11. ASSUME NEW t \in Offsets, NEW x \in Int, NEW m \in Int, x >= 1, t + x <= PageUnits,
              Header(w, t, x, m), t + x <= s \/ s + u <= t
       PROVE  Header(w2, t, x, m)
  <2>1. t \in Int /\ (t + x <= c \/ c + (u - d) <= t) /\ (t + x <= s \/ s + d <= t)
    BY <1>1, <1>2, <1>3, <1>11, OffsetFacts
  <2>2. Header(w0, t, x, m)
    <3> HIDE DEF c
    <3> QED  BY <1>1, <1>2, <1>3, <1>11, <2>1, HeaderKept DEF w0
  <2>3. Header(w1, t, x, m)
    <3> HIDE DEF c
    <3> QED  BY <1>1, <1>3, <1>4, <1>11, <2>1, <2>2, HeaderKept DEF w1
  <2> QED
    <3> HIDE DEF c
    <3> QED  BY <1>1, <1>3, <1>5, <1>9, <1>11, <2>1, <2>3, HeaderKept
<1> HIDE DEF w2
<1>12. /\ w3 \in [Offsets -> Int]
       /\ d + k < u => Header(w3, s + d + k, u - (d + k), n)
       /\ Header(w3, s, d, link)
       /\ \A t \in Offsets, x, m \in Int :
             /\ x >= 1 /\ t + x <= PageUnits /\ Header(w2, t, x, m)
             /\ t + x <= s \/ s + u <= t
             => Header(w3, t, x, m)
  <2>1. CASE u - d = k
    BY <1>2, <1>10, <2>1
  <2>2. CASE u - d # k
    <3> DEFINE l == s + d + k
               y == u - (d + k)
    <3>1. /\ l = link /\ y = u - d - k /\ l \in Offsets /\ y \in Int /\ y >= 1
          /\ l + y = s + u /\ l + y <= PageUnits /\ s + d <= l
      BY <1>1, <1>2, <1>3, <1>9, <2>2, OffsetFacts
    <3>2. w3 = set_slob(w2, l, y, n)
      BY <2>2, <3>1
    <3> HIDE DEF w3, l, y
    <3>3. Header(w3, l, y, n) /\ w3 \in [Offsets -> Int]
      BY <1>2, <1>10, <3>1, <3>2, HeaderSet
    <3>4. ASSUME NEW t \in Offsets, NEW x \in Int, NEW m \in Int,
                 x >= 1, t + x <= PageUnits, Header(w2, t, x, m), t + x <= l \/ l + y <= t
          PROVE  Header(w3, t, x, m)
      BY <1>2, <1>10, <3>1, <3>2, <3>4, HeaderKept
    <3>5. Header(w3, s, d, link)
      BY <1>1, <1>3, <1>9, <1>10, <3>1, <3>4
    <3>6. ASSUME NEW t \in Offsets, NEW x \in Int, NEW m \in Int,
                 x >= 1, t + x <= PageUnits, Header(w2, t, x, m), t + x <= s \/ s + u <= t
          PROVE  Header(w3, t, x, m)
      <4>1. t \in Int /\ (t + x <= l \/ l + y <= t)
        BY <1>1, <1>2, <1>3, <3>1, <3>6, OffsetFacts DEF l
      <4> QED
        BY <3>4, <3>6, <4>1
    <3> QED
      BY <3>3, <3>5, <3>6 DEF l, y
  <2> QED
    BY <2>1, <2>2
<1> HIDE DEF w3
<1>13. ASSUME NEW t \in Heads(F), t # s
       PROVE  Header(w3, t, slob_units(w, t), slob_next(w, t))
  <2> DEFINE x == slob_units(w, t)
             m == slob_next(w, t)
  <2>1. /\ t \in Offsets /\ t \in Int /\ x \in Int /\ m \in Int /\ x >= 1 /\ t + x <= m
        /\ m <= PageUnits /\ Header(w, t, x, m) /\ Block(F, t, x, m)
    BY <1>1, HeadFacts, OffsetFacts DEF Block
  <2> HIDE DEF x, m
  <2>2. t + x <= s \/ s + u <= t
    <3>1. t < s => t + x < s
      BY <1>1, <2>1, BlocksApart
    <3>2. s < t => s + u < t
      BY <1>1, <1>2, <2>1, BlocksApart
    <3> QED
      BY <1>1, <1>2, <1>13, <2>1, <3>1, <3>2
  <2>3. t + x <= PageUnits
    BY <1>1, <2>1
  <2>4. Header(w2, t, x, m)
    BY <1>11, <2>1, <2>2, <2>3
  <2>5. Header(w3, t, x, m)
    BY <1>12, <2>1, <2>2, <2>3, <2>4
  <2> QED
    BY <2>5 DEF x, m
<1>14. CutWords(F, w, s, d, k, b.prev, link, w3)
  <2>1. /\ b.prev = NULL \/ (b.prev \in Heads(F) /\ slob_next(w, b.prev) = s)
        /\ b.prev = NULL => \A i \in F : s <= i
    <3>1. NULL \notin Heads(F)
      BY OffsetFacts DEF Heads, NULL
    <3> QED
      BY <3>1 DEF FreeBlock, s, w
  <2>2. u = slob_units(w, s) /\ n = slob_next(w, s)
    BY DEF u, n
  <2>3. d # 0
    OBVIOUS
  <2> QED
    BY <1>1, <1>3, <1>9, <1>12, <1>13, <2>1, <2>2, <2>3 DEF CutWords
<1>15. Sound(w3, F \ (s + d .. s + d + k - 1))
  BY <1>1, <1>9, <1>12, <1>14, CutSound
<1> QED
  BY <1>8, <1>12, <1>15 DEF w, s, C, CutFrom

\* Numbers of units.
LEMMA UnitCount ==
    ASSUME NEW F \in SUBSET Offsets, NEW c \in Int, NEW k \in Int, k >= 1
    PROVE  /\ c .. c + k - 1 \subseteq F =>
                 Cardinality(F \ (c .. c + k - 1)) = Cardinality(F) - k
           /\ (c .. c + k - 1) \cap F = {} =>
                 Cardinality(F \cup (c .. c + k - 1)) = Cardinality(F) + k
           /\ Cardinality(c .. c + k - 1) = k
<1> DEFINE I == c .. c + k - 1
<1>1. IsFiniteSet(I) /\ Cardinality(I) = k
  <2>1. c + k - 1 \in Int
    OBVIOUS
  <2>2. /\ IsFiniteSet(I)
        /\ Cardinality(I) = IF c > c + k - 1 THEN 0 ELSE (c + k - 1) - c + 1
    BY <2>1, FS_Interval
  <2> QED
    BY <2>2
<1>2. IsFiniteSet(F) /\ Cardinality(F) \in Nat
  BY FiniteOffsets
<1> HIDE DEF I
<1>3. ASSUME I \subseteq F PROVE Cardinality(F \ I) = Cardinality(F) - k
  <2>1. Cardinality(F \ I) = Cardinality(F) - Cardinality(F \cap I)
    BY <1>2, FS_Difference
  <2>2. F \cap I = I
    BY <1>3
  <2> QED
    BY <1>1, <2>1, <2>2
<1>4. ASSUME I \cap F = {} PROVE Cardinality(F \cup I) = Cardinality(F) + k
  <2>1. Cardinality(F \cup I) = Cardinality(F) + Cardinality(I) - Cardinality(F \cap I)
    BY <1>1, <1>2, FS_Union
  <2>2. Cardinality(F \cap I) = 0
    <3>1. F \cap I = {}
      BY <1>4
    <3> QED
      BY <3>1, FS_EmptySet
  <2> QED
    BY <1>1, <1>2, <2>1, <2>2
<1> QED
  BY <1>1, <1>3, <1>4 DEF I

\* The padding in front of an object is less than its alignment, and it puts
\* the object on its alignment.
LEMMA DeltaFacts ==
    ASSUME NEW s \in Int, NEW a \in Nat \ {0}
    PROVE  /\ Delta(s, a) \in Int /\ 0 <= Delta(s, a) /\ Delta(s, a) < a
           /\ (s + Delta(s, a)) % a = 0
<1>1. a \in Int /\ a > 0 /\ -s \in Int
  OBVIOUS
<1>2. (-s) % a \in Int /\ 0 <= (-s) % a /\ (-s) % a < a
  BY <1>1
<1> DEFINE x == (-s) % a
           q == (-s) \div a
<1>3. Delta(s, a) = x
  BY DEF Delta
<1>4. x \in Int /\ 0 <= x /\ x < a
  BY <1>2
<1>5. q \in Int /\ -s = a * q + x
  BY <1>1
<1>6. (s + x) % a = 0
  <2> HIDE DEF x, q
  <2>1. PICK y \in Int : y = s + x
    BY <1>4
  <2>2. -q \in Int /\ y = a * (-q)
    BY <1>1, <1>5, <1>4, <2>1
  <2>3. \A m \in Int : (a * m) % a = 0
    BY <1>1
  <2> QED
    BY <2>1, <2>2, <2>3
<1> HIDE DEF x
<1> QED
  BY <1>3, <1>4, <1>6

\* The page slob_page_alloc and find_best_fit_block leave is exact: the object
\* is taken out of the units that were free, and it is aligned.
LEMMA CarveExact ==
    ASSUME NEW F \in SUBSET Offsets, NEW pg, Exact(pg, F),
           NEW b, FreeBlock(b, pg.words, F),
           NEW k \in Int, k >= 1, NEW a \in Nat \ {0}, Fits(b, k, a)
    PROVE  LET c == b.cur + Delta(b.cur, a)
           IN  /\ c \in Offsets /\ c % a = 0
               /\ c .. c + k - 1 \subseteq F
               /\ Exact(Carve(pg, b, k, a), F \ (c .. c + k - 1))
<1> DEFINE w == pg.words
           s == b.cur
           d == Delta(s, a)
           u == slob_units(w, s)
           n == slob_next(w, s)
           c == s + d
           G == F \ (c .. c + k - 1)
           C == Carve(pg, b, k, a)
<1>1. /\ pg \in PageRecord /\ w \in [Offsets -> Int] /\ Sound(w, F) /\ PageUnits \in Int
      /\ PageUnits > 1 /\ s \in Heads(F) /\ s \in Offsets /\ s \in Int /\ 0 <= s /\ u = b.avail
      /\ \A i \in F : i \in Int /\ 0 <= i /\ i < PageUnits
  BY PageFacts, OffsetFacts DEF PageRecord, FreeBlock, Heads, Exact
<1>2. /\ u \in Int /\ n \in Int /\ Block(F, s, u, n)
  BY <1>1, HeadFacts
<1>3. d \in Int /\ 0 <= d /\ c % a = 0 /\ c \in Int
  <2>1. s \in Int
    BY <1>1
  <2> HIDE DEF s
  <2>2. d \in Int /\ 0 <= d /\ c % a = 0
    BY <2>1, DeltaFacts
  <2> QED
    BY <2>1, <2>2
<1>4. d + k <= u
  BY <1>1, <1>2, <1>3 DEF Fits
<1> HIDE DEF u, n, d
<1>5. /\ u >= 1 /\ s + u <= n /\ n <= PageUnits
      /\ \A i \in s .. s + u - 1 : i \in F
      /\ \A i \in s + u .. n - 1 : i \notin F
      /\ n < PageUnits => n \in F /\ s + u < n
  BY <1>2 DEF Block
<1>6. c .. c + k - 1 \subseteq F
  <2>1. \A i \in c .. c + k - 1 : i \in s .. s + u - 1
    BY <1>1, <1>2, <1>3, <1>4
  <2> QED
    BY <1>5, <2>1
<1>7. c \in Offsets
  BY <1>3, <1>6
<1>8. Cardinality(G) = Cardinality(F) - k /\ G \in SUBSET Offsets
  BY <1>3, <1>6, UnitCount
<1>9. Cardinality(G) \in Nat /\ Cardinality(G) <= PageUnits
  BY <1>8, FiniteOffsets
<1>10. pg.free \in F /\ (\A i \in F : pg.free <= i) /\ pg.free \in Int
  BY <1>1, <1>6, <1>3 DEF Exact, Heads
<1>11. CASE d = 0
  <2>1. /\ Delta(b.cur, a) = 0 /\ k <= b.avail
    BY <1>1, <1>2, <1>4, <1>11 DEF d
  <2> DEFINE link == IF k = b.avail THEN n ELSE s + k
  <2>2. /\ C.units = pg.units - k
        /\ C.free = IF b.prev = NULL THEN link ELSE pg.free
        /\ C.words \in [Offsets -> Int]
        /\ Sound(C.words, F \ (s .. s + k - 1))
        /\ C = [units |-> C.units, words |-> C.words, free |-> C.free]
    <3>1. Sound(pg.words, F) /\ pg \in PageRecord
      BY <1>1
    <3>2. C.free = (IF b.prev = NULL THEN link ELSE pg.free) /\ CutFrom(C, pg, F, s, k)
      BY <2>1, <3>1, CarveFront DEF n
    <3> QED
      BY <3>2 DEF CutFrom
  <2>3. c = s /\ k <= u
    BY <1>1, <1>2, <1>4, <1>11
  <2> HIDE DEF C
  <2>4. CASE b.prev = NULL
    <3>1. \A i \in F : s <= i
      <4>1. NULL \notin Heads(F)
        BY OffsetFacts DEF Heads, NULL
      <4> QED
        BY <2>4, <4>1 DEF FreeBlock
    <3>2. link \in Int /\ 0 <= link /\ link <= PageUnits
      BY <1>1, <1>2, <1>5, <2>3
    <3>3. \A i \in G : link <= i
      <4> SUFFICES ASSUME NEW i \in G PROVE link <= i
        OBVIOUS
      <4>1. i \in F /\ i \in Int /\ s <= i /\ i \notin s .. s + k - 1
        BY <1>1, <2>3, <3>1
      <4>2. i \notin s + u .. n - 1
        BY <1>5, <4>1
      <4> QED
        BY <1>1, <1>2, <1>5, <4>1, <4>2
    <3>4. G # {} => link \in G
      <4> SUFFICES ASSUME NEW i \in G PROVE link \in G
        OBVIOUS
      <4>1. link < PageUnits
        BY <1>1, <3>2, <3>3
      <4>2. CASE k = u
        BY <1>1, <1>2, <1>5, <2>3, <4>1, <4>2
      <4>3. CASE k # u
        <5>1. link \in s .. s + u - 1 /\ link \notin s .. s + k - 1
          BY <1>1, <1>2, <2>3, <4>3
        <5> QED
          BY <1>5, <2>3, <5>1
      <4> QED
        BY <4>2, <4>3
    <3>5. C.free = link
      BY <2>2, <2>4
    <3> HIDE DEF link, G
    <3>6. C \in PageRecord
      <4>1. pg.units = Cardinality(F)
        BY DEF Exact
      <4>2. C.units \in 0 .. PageUnits /\ C.free \in 0 .. PageUnits
        BY <1>1, <1>8, <1>9, <2>2, <3>2, <3>5, <4>1
      <4> QED
        BY <2>2, <4>2 DEF PageRecord
    <3>7. Exact(C, G)
      BY <1>8, <2>2, <2>3, <3>3, <3>4, <3>5, <3>6 DEF Exact, G
    <3> QED
      BY <1>3, <1>6, <1>7, <3>7 DEF C, G, d
  <2>5. CASE b.prev # NULL
    <3>1. b.prev \in Heads(F) /\ slob_next(w, b.prev) = s
      BY <2>5 DEF FreeBlock
    <3>2. b.prev < s /\ b.prev \in F
      <4>1. /\ slob_units(w, b.prev) \in Int /\ Block(F, b.prev, slob_units(w, b.prev), s)
            /\ b.prev \in F /\ b.prev \in Int
        BY <1>1, <3>1, HeadFacts
      <4> QED
        BY <1>1, <4>1 DEF Block
    <3>3. pg.free \in G
      BY <1>1, <1>10, <2>3, <3>2
    <3>5. C.free = pg.free
      BY <2>2, <2>5
    <3> HIDE DEF link
    <3>6. C \in PageRecord
      <4>1. pg.units = Cardinality(F)
        BY DEF Exact
      <4>2. C.units \in 0 .. PageUnits /\ C.free \in 0 .. PageUnits
        <5> HIDE DEF G
        <5> QED  BY <1>1, <1>8, <1>9, <2>2, <3>5, <4>1 DEF PageRecord
      <4> QED
        BY <2>2, <4>2 DEF PageRecord
    <3>7. Exact(C, G)
      BY <1>8, <1>10, <2>2, <2>3, <3>3, <3>5, <3>6 DEF Exact
    <3> QED
      BY <1>3, <1>6, <1>7, <3>7 DEF C, G, d
  <2> QED
    BY <2>4, <2>5
<1>12. CASE d > 0
  <2>1. d = Delta(b.cur, a) /\ d + k <= b.avail
    BY <1>1, <1>4 DEF d
  <2>2. /\ C.units = pg.units - k
        /\ C.free = pg.free
        /\ C.words \in [Offsets -> Int]
        /\ Sound(C.words, F \ (c .. c + k - 1))
        /\ C = [units |-> C.units, words |-> C.words, free |-> C.free]
    <3>1. Sound(pg.words, F) /\ pg \in PageRecord /\ d \in Int /\ d > 0
      BY <1>1, <1>3, <1>12
    <3>2. C.free = pg.free /\ CutFrom(C, pg, F, c, k)
      BY <2>1, <3>1, CarveInside
    <3> QED
      BY <3>2 DEF CutFrom
  <2> HIDE DEF C
  <2>3. pg.free \in G
    <3>1. pg.free <= s
      BY <1>1, <1>10 DEF Heads
    <3> QED
      BY <1>1, <1>3, <1>10, <1>12, <3>1
  <2>6. C \in PageRecord
    <3>1. pg.units = Cardinality(F)
      BY DEF Exact
    <3>2. C.units \in 0 .. PageUnits /\ C.free \in 0 .. PageUnits
      <4> HIDE DEF G
      <4> QED  BY <1>1, <1>8, <1>9, <2>2, <3>1 DEF PageRecord
    <3> QED
      BY <2>2, <3>2 DEF PageRecord
  <2>7. Exact(C, G)
    BY <1>8, <1>10, <2>2, <2>3, <2>6 DEF Exact
  <2> QED
    BY <1>3, <1>6, <1>7, <2>7 DEF C, G, d
<1> QED
  BY <1>3, <1>11, <1>12

-----------------------------------------------------------------------------
(* Giving the units of an object back *)

\* The words v of a page after the k units at b have come back, q being the
\* free block in front of b, n the one behind it or the end of the page: they
\* make, with n if they touch it, e free units in front of m, which have become
\* part of q if they touch it.
JoinWords(F, w, b, k, q, n, e, m, v) ==
    LET u  == slob_units(w, q)
        jn == n < PageUnits /\ b + k = n
    IN  /\ b >= 0 /\ k >= 1 /\ b + k <= n /\ n <= PageUnits
        /\ \A i \in b .. b + k - 1 : i \notin F
        /\ n < PageUnits => n \in Heads(F)
        /\ \/ q = NULL /\ \A i \in F : n <= i
           \/ q \in Heads(F) /\ q < b /\ slob_next(w, q) = n
        /\ e = IF jn THEN k + slob_units(w, n) ELSE k
        /\ m = IF jn THEN slob_next(w, n) ELSE n
        /\ \A t \in Heads(F) : t # q /\ ~(jn /\ t = n) =>
              Header(v, t, slob_units(w, t), slob_next(w, t))
        /\ (q # NULL /\ q + u = b) => Header(v, q, u + e, m)
        /\ ~(q # NULL /\ q + u = b) =>
              Header(v, b, e, m) /\ (q # NULL => Header(v, q, u, b))

\* Such words describe the units that are free then.
LEMMA JoinSound ==
    ASSUME NEW F \in SUBSET Offsets, NEW w \in [Offsets -> Int], Sound(w, F),
           NEW b \in Int, NEW k \in Int, NEW q, NEW n \in Int, NEW e \in Int, NEW m \in Int,
           NEW v, JoinWords(F, w, b, k, q, n, e, m, v)
    PROVE  Sound(v, F \cup (b .. b + k - 1))
<1> DEFINE u == slob_units(w, q)
           x == slob_units(w, n)
           y == slob_next(w, n)
           jn == n < PageUnits /\ b + k = n
           jq == q # NULL /\ q + u = b
           G == F \cup (b .. b + k - 1)
<1>1. /\ b >= 0 /\ k >= 1 /\ b + k <= n /\ n <= PageUnits
      /\ \A i \in b .. b + k - 1 : i \notin F
      /\ n < PageUnits => n \in Heads(F)
      /\ \/ q = NULL /\ \A i \in F : n <= i
         \/ q \in Heads(F) /\ q < b /\ slob_next(w, q) = n
      /\ e = (IF jn THEN k + x ELSE k)
      /\ m = (IF jn THEN y ELSE n)
      /\ \A t \in Heads(F) : t # q /\ ~(jn /\ t = n) =>
            Header(v, t, slob_units(w, t), slob_next(w, t))
      /\ jq => Header(v, q, u + e, m)
      /\ ~jq => Header(v, b, e, m) /\ (q # NULL => Header(v, q, u, b))
  BY DEF JoinWords
<1>2. /\ PageUnits \in Int /\ PageUnits > 1
      /\ \A i \in F : i \in Int /\ 0 <= i /\ i < PageUnits
      /\ \A i \in Heads(F) : i \in Int /\ i \in F /\ i - 1 \notin F
  BY PageFacts, OffsetFacts DEF Heads
<1>3. jn => /\ x \in Int /\ y \in Int /\ x >= 1 /\ n + x <= y /\ y <= PageUnits
            /\ \A i \in n .. n + x - 1 : i \in F
            /\ \A i \in n + x .. y - 1 : i \notin F
            /\ y < PageUnits => y \in F /\ n + x < y
  <2> SUFFICES ASSUME jn
               PROVE  /\ x \in Int /\ y \in Int /\ x >= 1 /\ n + x <= y /\ y <= PageUnits
                      /\ \A i \in n .. n + x - 1 : i \in F
                      /\ \A i \in n + x .. y - 1 : i \notin F
                      /\ y < PageUnits => y \in F /\ n + x < y
    OBVIOUS
  <2>1. x \in Int /\ y \in Int /\ Block(F, n, x, y)
    BY <1>1, HeadFacts
  <2> HIDE DEF x, y
  <2> QED
    BY <2>1 DEF Block
<1>4. q # NULL => /\ q \in Heads(F) /\ q \in Int /\ q < b /\ u \in Int /\ u >= 1 /\ q + u <= n
                  /\ Block(F, q, u, n)
                  /\ \A i \in q .. q + u - 1 : i \in F
                  /\ \A i \in q + u .. n - 1 : i \notin F
                  /\ q + u <= b
  <2> SUFFICES ASSUME q # NULL
               PROVE  /\ q \in Heads(F) /\ q \in Int /\ q < b /\ u \in Int /\ u >= 1 /\ q + u <= n
                      /\ Block(F, q, u, n)
                      /\ \A i \in q .. q + u - 1 : i \in F
                      /\ \A i \in q + u .. n - 1 : i \notin F
                      /\ q + u <= b
    OBVIOUS
  <2>1. q \in Heads(F) /\ q < b /\ slob_next(w, q) = n /\ q \in Int
    BY <1>1, <1>2
  <2>2. u \in Int /\ Block(F, q, u, n)
    BY <2>1, HeadFacts
  <2> HIDE DEF u
  <2>3. /\ u >= 1 /\ q + u <= n
        /\ \A i \in q .. q + u - 1 : i \in F
        /\ \A i \in q + u .. n - 1 : i \notin F
    BY <2>2 DEF Block
  <2>4. b \notin q .. q + u - 1
    <3>1. b \in b .. b + k - 1
      BY <1>1
    <3> QED
      BY <1>1, <2>3, <3>1
  <2> QED
    BY <2>1, <2>2, <2>3, <2>4
<1> HIDE DEF u, x, y
<1>5. \A i \in b + k .. n - 1 : i \notin F
  <2>1. CASE q = NULL
    <3>1. \A i \in F : n <= i
      <4>1. NULL \notin Heads(F)
        BY OffsetFacts DEF Heads, NULL
      <4> QED
        BY <1>1, <2>1, <4>1
    <3> QED
      BY <1>1, <1>2, <3>1
  <2>2. CASE q # NULL
    <3>1. \A i \in b + k .. n - 1 : i \in q + u .. n - 1
      BY <1>1, <1>4, <2>2
    <3> QED
      BY <1>4, <2>2, <3>1
  <2> QED
    BY <2>1, <2>2
\* The block at b, with the one behind it.
<1>6. /\ e >= 1 /\ b + e <= m /\ m <= PageUnits /\ m >= 1
      /\ \A i \in b .. b + e - 1 : i \in G
      /\ \A i \in b + e .. m - 1 : i \notin G
      /\ m < PageUnits => m \in G /\ b + e < m
  <2>1. CASE jn
    <3>1. e = k + x /\ m = y /\ b + e = n + x
      BY <1>1, <1>3, <2>1
    <3>2. \A i \in b .. b + e - 1 : i \in b .. b + k - 1 \/ i \in n .. n + x - 1
      BY <1>1, <1>3, <2>1, <3>1
    <3>3. \A i \in b + e .. m - 1 : i \in n + x .. y - 1 /\ i \notin b .. b + k - 1
      BY <1>1, <1>3, <2>1, <3>1
    <3>4. \A i \in b .. b + e - 1 : i \in G
      BY <1>3, <2>1, <3>2
    <3>5. \A i \in b + e .. m - 1 : i \notin G
      BY <1>3, <2>1, <3>3
    <3>6. e >= 1 /\ b + e <= m /\ m <= PageUnits /\ m >= 1
      BY <1>1, <1>3, <2>1, <3>1
    <3>7. m < PageUnits => m \in G /\ b + e < m
      BY <1>1, <1>3, <2>1, <3>1
    <3> QED
      BY <3>4, <3>5, <3>6, <3>7
  <2>2. CASE ~jn
    <3>1. e = k /\ m = n
      BY <1>1, <2>2
    <3>2. \A i \in b + k .. n - 1 : i \notin G
      BY <1>1, <1>5
    <3>3. n < PageUnits => n \in G /\ b + k < n
      BY <1>1, <1>2, <2>2
    <3> HIDE DEF jn
    <3> QED
      BY <1>1, <1>2, <3>1, <3>2, <3>3
  <2> QED
    BY <2>1, <2>2
<1> SUFFICES ASSUME NEW t \in Heads(G)
             PROVE  \E a, c \in 1 .. PageUnits : Header(v, t, a, c) /\ Block(G, t, a, c)
  BY DEF Sound
<1>7. /\ t \in G /\ t - 1 \notin F /\ t - 1 \notin b .. b + k - 1 /\ t \in Int
      /\ t \in F => t \in Heads(F)
  BY <1>1, <1>2 DEF Heads
<1>8. CASE t = b
  <2>1. ~jq
    <3> SUFFICES ASSUME jq PROVE FALSE
      OBVIOUS
    <3>1. b - 1 \in q .. q + u - 1
      BY <1>4
    <3> QED
      BY <1>4, <1>7, <1>8, <3>1
  <2>2. e \in 1 .. PageUnits /\ m \in 1 .. PageUnits
    BY <1>1, <1>2, <1>6
  <2> HIDE DEF G, jn, jq
  <2>3. Block(G, b, e, m)
    BY <1>6 DEF Block
  <2> QED
    BY <1>1, <1>8, <2>1, <2>2, <2>3
<1>9. CASE t \in F /\ t = q
  <2>0. q # NULL
    BY <1>2, <1>9 DEF NULL
  <2>1. CASE jq
    <3>1. \A i \in q .. b + e - 1 : i \in q .. q + u - 1 \/ i \in b .. b + e - 1
      BY <1>4, <1>6, <2>1
    <3>2. \A i \in q .. b + e - 1 : i \in G
      BY <1>4, <1>6, <2>0, <3>1
    <3>3. q + (u + e) = b + e
      BY <1>4, <2>1
    <3>4. u + e \in 1 .. PageUnits /\ m \in 1 .. PageUnits
      <4>1. 0 <= q
        BY <1>2, <1>9
      <4> QED
        BY <1>2, <1>4, <1>6, <2>0, <3>3, <4>1
    <3> HIDE DEF G, jn
    <3>5. Block(G, q, u + e, m)
      <4> DEFINE z == u + e
      <4>1. z >= 1 /\ q + z = b + e /\ z \in Int /\ q \in Int
        BY <1>4, <1>6, <2>0, <3>3
      <4> HIDE DEF z
      <4>2. Block(G, q, z, m)
        <5>1. q + z - 1 = b + e - 1
          BY <4>1
        <5>2. /\ \A i \in q .. q + z - 1 : i \in G
              /\ \A i \in q + z .. m - 1 : i \notin G
          BY <1>6, <3>2, <4>1, <5>1
        <5> QED
          BY <1>6, <4>1, <5>2 DEF Block
      <4> QED
        BY <4>2 DEF z
    <3> QED
      BY <1>1, <1>9, <2>1, <3>4, <3>5
  <2>2. CASE ~jq
    <3>1. q + u < b
      BY <1>4, <2>0, <2>2
    <3>2. \A i \in q .. q + u - 1 : i \in G
      BY <1>4, <2>0
    <3>3. \A i \in q + u .. b - 1 : i \notin G
      <4>1. \A i \in q + u .. b - 1 : i \in q + u .. n - 1 /\ i \notin b .. b + k - 1
        BY <1>1, <1>4, <2>0
      <4> QED
        BY <1>4, <2>0, <4>1
    <3>4. b \in G /\ b <= PageUnits
      BY <1>1, <1>2
    <3>5. u \in 1 .. PageUnits /\ b \in 1 .. PageUnits
      <4>1. 0 <= q
        BY <1>2, <1>9
      <4> QED
        BY <1>2, <1>4, <2>0, <3>1, <3>4, <4>1
    <3> HIDE DEF G, jn, jq
    <3>6. Block(G, q, u, b)
      <4>1. q + u <= b
        BY <1>4, <2>0
      <4> QED
        BY <1>4, <2>0, <3>1, <3>2, <3>3, <3>4, <4>1 DEF Block
    <3> QED
      BY <1>1, <1>9, <2>0, <2>2, <3>5, <3>6
  <2> QED
    BY <2>1, <2>2
<1>10. CASE t \in F /\ t # q
  <2> DEFINE a == slob_units(w, t)
             c == slob_next(w, t)
  <2>1. t \in Heads(F) /\ t # b + k
    BY <1>1, <1>7, <1>10
  <2>2. Header(v, t, a, c)
    BY <1>1, <1>10, <2>1
  <2>3. a \in Int /\ c \in Int /\ Block(F, t, a, c)
    BY <2>1, HeadFacts
  <2> HIDE DEF a, c
  <2>4. /\ a >= 1 /\ t + a <= c /\ c <= PageUnits
        /\ \A i \in t .. t + a - 1 : i \in F
        /\ \A i \in t + a .. c - 1 : i \notin F
        /\ c < PageUnits => c \in F /\ t + a < c
    BY <2>3 DEF Block
  <2>5. t + a >= b + k \/ c <= b
    <3>1. CASE q = NULL
      <4>1. NULL \notin Heads(F)
        BY OffsetFacts DEF Heads, NULL
      <4>2. n <= t
        BY <1>1, <1>10, <3>1, <4>1
      <4> QED
        BY <1>1, <1>2, <1>7, <2>3, <2>4, <4>2
    <3>2. CASE q # NULL /\ t < q
      <4>1. c <= q
        BY <1>4, <2>1, <2>3, <3>2, BlocksApart
      <4> QED
        BY <1>4, <2>3, <3>2, <4>1
    <3>3. CASE q # NULL /\ q < t
      <4>1. n <= t
        BY <1>4, <2>1, <3>3, BlocksApart
      <4> QED
        BY <1>1, <1>2, <1>7, <2>3, <2>4, <4>1
    <3> QED
      BY <1>4, <1>7, <1>10, <3>1, <3>2, <3>3
  <2>6. \A i \in t + a .. c - 1 : i \notin b .. b + k - 1
    BY <1>7, <2>3, <2>5
  <2>7. /\ \A i \in t .. t + a - 1 : i \in G
        /\ \A i \in t + a .. c - 1 : i \notin G
        /\ c < PageUnits => c \in G
    BY <2>4, <2>6
  <2>8. a \in 1 .. PageUnits /\ c \in 1 .. PageUnits
    <3>1. 0 <= t
      BY <1>2, <1>10
    <3> QED
      BY <1>2, <1>7, <2>3, <2>4, <3>1
  <2> HIDE DEF G, jn, jq
  <2>9. Block(G, t, a, c)
    BY <2>4, <2>7 DEF Block
  <2> QED
    BY <2>2, <2>8, <2>9
<1>11. CASE t \notin F
  <2>1. t = b
    BY <1>1, <1>7, <1>11
  <2> QED
    BY <1>8, <2>1
<1> QED
  BY <1>9, <1>10, <1>11

\* The free block in front of b, as slob_free looks for it along the chain.
BlockBefore(pg, b) ==
    Chain(pg)[SelectInSeq(Chain(pg), LAMBDA s : b <= slob_next(pg.words, s))]

\* It is found, and nothing is free between it and b.
LEMMA FindsBefore ==
    ASSUME NEW F \in SUBSET Offsets, NEW pg, Exact(pg, F), F # {},
           NEW b \in Offsets, pg.free < b
    PROVE  LET q == BlockBefore(pg, b)
           IN  q \in Heads(F) /\ q < b /\ b <= slob_next(pg.words, q)
<1> DEFINE c == Chain(pg)
           w == pg.words
           I == {j \in 1 .. Len(c) : b <= slob_next(w, c[j])}
           i == SelectInSeq(c, LAMBDA s : b <= slob_next(w, s))
<1>1. Visits(w, F, pg.free, c)
  BY ChainFacts
<1>2. i = IF I # {} THEN Min(I) ELSE 0
  BY DEF SelectInSeq
<1>3. w \in [Offsets -> Int] /\ Sound(w, F)
  BY DEF Exact, PageRecord
<1> HIDE DEF c, w, i
<1>4. /\ c \in Seq(Int) /\ Len(c) >= 1 /\ c[1] = pg.free /\ Len(c) \in Nat
      /\ \A j \in 1 .. Len(c) : c[j] \in Heads(F)
      /\ \A j \in 1 .. Len(c) - 1 : slob_next(w, c[j]) = c[j + 1]
      /\ slob_next(w, c[Len(c)]) = PageUnits
  BY <1>1 DEF Visits
<1>5. b \in Int /\ b <= PageUnits
  BY PageFacts, OffsetFacts
<1>6. Len(c) \in I /\ I \in SUBSET Nat
  BY <1>4, <1>5
<1>7. i \in I /\ \A j \in I : i <= j
  <2>1. \E j \in I : \A y \in I : j <= y
    BY <1>6, MinNat
  <2>2. i = Min(I)
    BY <1>2, <1>6
  <2> HIDE DEF I
  <2> QED
    BY <2>1, <2>2 DEF Min
<1>8. i \in 1 .. Len(c) /\ b <= slob_next(w, c[i])
  BY <1>7
<1>9. c[i] < b
  <2>1. CASE i = 1
    BY <1>4, <2>1
  <2>2. CASE i # 1
    <3>1. i - 1 \in 1 .. Len(c) - 1 /\ (i - 1) + 1 = i /\ i - 1 \in 1 .. Len(c) /\ ~(i <= i - 1)
      BY <1>4, <1>8, <2>2
    <3>2. i - 1 \notin I
      <4> HIDE DEF I
      <4> QED  BY <1>7, <3>1
    <3>3. ~(b <= slob_next(w, c[i - 1])) /\ slob_next(w, c[i - 1]) = c[i]
      BY <1>4, <3>1, <3>2
    <3>4. c[i] \in Int
      BY <1>4, <1>8, OffsetFacts DEF Heads
    <3> QED
      BY <1>5, <3>3, <3>4
  <2> QED
    BY <2>1, <2>2
<1> QED
  BY <1>4, <1>8, <1>9 DEF BlockBefore, c, i, w

\* A header at the block that comes back, with the one behind it, and what the
\* other headers keep.
LEMMA GivenHeader ==
    ASSUME NEW F \in SUBSET Offsets, NEW w \in [Offsets -> Int], Sound(w, F),
           NEW b \in Offsets, NEW k \in Int, k >= 1, NEW n \in Int, b + k <= n, n <= PageUnits,
           n < PageUnits => n \in Heads(F),
           \A i \in b .. b + k - 1 : i \notin F,
           \A t \in Heads(F) : t < b \/ n <= t,
           NEW e, e = IF n < PageUnits /\ b + k = n THEN k + slob_units(w, n) ELSE k,
           NEW m, m = IF n < PageUnits /\ b + k = n THEN slob_next(w, n) ELSE n
    PROVE  /\ e \in Int /\ m \in Int /\ e >= 1 /\ b + e <= m /\ m <= PageUnits /\ m >= 1
           /\ set_slob(w, b, e, m) \in [Offsets -> Int]
           /\ Header(set_slob(w, b, e, m), b, e, m)
           /\ \A t \in Heads(F) : ~(n < PageUnits /\ b + k = n /\ t = n) =>
                 /\ Header(set_slob(w, b, e, m), t, slob_units(w, t), slob_next(w, t))
                 /\ t + slob_units(w, t) <= b \/ b + e <= t
<1> DEFINE jn == n < PageUnits /\ b + k = n
           x == slob_units(w, n)
           y == slob_next(w, n)
<1>1. /\ PageUnits \in Int /\ PageUnits > 1 /\ b \in Int /\ 0 <= b
      /\ \A i \in Heads(F) : i \in Int
  BY PageFacts, OffsetFacts DEF Heads
<1>2. jn => x \in Int /\ y \in Int /\ Block(F, n, x, y) /\ x >= 1 /\ n + x <= y /\ y <= PageUnits
  <2> SUFFICES ASSUME jn
               PROVE  /\ x \in Int /\ y \in Int /\ Block(F, n, x, y) /\ x >= 1
                      /\ n + x <= y /\ y <= PageUnits
    OBVIOUS
  <2>1. x \in Int /\ y \in Int /\ Block(F, n, x, y)
    BY HeadFacts
  <2> HIDE DEF x, y
  <2> QED
    BY <2>1 DEF Block
<1>3. e = (IF jn THEN k + x ELSE k) /\ m = (IF jn THEN y ELSE n)
  OBVIOUS
<1> HIDE DEF x, y
<1>4. e \in Int /\ m \in Int /\ e >= 1 /\ b + e <= m /\ m <= PageUnits /\ m >= 1
  BY <1>1, <1>2, <1>3
<1>5. b + e <= PageUnits
  BY <1>1, <1>4
<1>6. set_slob(w, b, e, m) \in [Offsets -> Int] /\ Header(set_slob(w, b, e, m), b, e, m)
  BY <1>4, <1>5, HeaderSet
<1>7. ASSUME NEW t \in Heads(F), ~(jn /\ t = n)
      PROVE  /\ Header(set_slob(w, b, e, m), t, slob_units(w, t), slob_next(w, t))
             /\ t + slob_units(w, t) <= b \/ b + e <= t
  <2> DEFINE a == slob_units(w, t)
             c == slob_next(w, t)
  <2>1. /\ t \in Offsets /\ t \in Int /\ a \in Int /\ c \in Int /\ Header(w, t, a, c)
        /\ Block(F, t, a, c)
    BY <1>1, HeadFacts
  <2> HIDE DEF a, c
  <2>2. a >= 1 /\ t + a <= c /\ c <= PageUnits /\ \A i \in t .. t + a - 1 : i \in F
    BY <2>1 DEF Block
  <2>3. t + a <= b \/ b + e <= t
    <3>1. CASE t < b
      <4>1. b \in b .. b + k - 1
        BY <1>1
      <4>2. b \notin t .. t + a - 1
        BY <2>2, <4>1
      <4> QED
        BY <1>1, <2>1, <3>1, <4>2
    <3>2. CASE n <= t /\ jn
      <4>1. n < t
        BY <1>7, <2>1, <3>2
      <4>2. n + x < t
        BY <1>2, <3>2, <4>1, BlocksApart
      <4> QED
        BY <1>1, <1>2, <1>3, <2>1, <3>2, <4>2
    <3>3. CASE n <= t /\ ~jn
      BY <1>1, <1>3, <2>1, <3>3
    <3> QED
      BY <3>1, <3>2, <3>3
  <2>4. t + a <= PageUnits
    BY <1>1, <2>1, <2>2
  <2>5. Header(set_slob(w, b, e, m), t, a, c)
    BY <1>4, <1>5, <2>1, <2>2, <2>3, <2>4, HeaderKept
  <2> QED
    BY <2>3, <2>5 DEF a, c
<1> QED
  BY <1>4, <1>6, <1>7

\* The page slob_free leaves, of one that was partly free, is exact: the units
\* that came back are free and are joined with the free blocks they touch.
LEMMA GiveBackExact ==
    ASSUME NEW F \in SUBSET Offsets, NEW pg, Exact(pg, F), F # {},
           NEW b \in Offsets, NEW k \in Int, k >= 1, b + k <= PageUnits,
           \A i \in b .. b + k - 1 : i \notin F
    PROVE  Exact(GiveBack(pg, b, k), F \cup (b .. b + k - 1))
<1> DEFINE w == pg.words
           f == pg.free
           p == BlockBefore(pg, b)
           q == IF b < f THEN NULL ELSE p
           n == IF b < f THEN f ELSE slob_next(w, p)
           jn == n < PageUnits /\ b + k = n
           e == IF jn THEN k + slob_units(w, n) ELSE k
           m == IF jn THEN slob_next(w, n) ELSE n
           w1 == set_slob(w, b, e, m)
           u == slob_units(w, q)
           v == IF b < f THEN w1
                ELSE IF q + u = b THEN set_slob(w1, q, u + e, m) ELSE set_slob(w1, q, u, b)
           G == F \cup (b .. b + k - 1)
<1>1. /\ PageUnits \in Int /\ PageUnits > 1 /\ b \in Int /\ 0 <= b
      /\ pg \in PageRecord /\ w \in [Offsets -> Int] /\ Sound(w, F)
      /\ f \in F /\ f \in Int /\ 0 <= f /\ f < PageUnits /\ \A i \in F : f <= i
      /\ pg.units = Cardinality(F)
      /\ \A i \in F : i \in Int /\ 0 <= i /\ i < PageUnits
      /\ \A i \in Heads(F) : i \in Int /\ i \in F
  BY PageFacts, OffsetFacts DEF Exact, PageRecord, Heads
<1>2. b \notin F /\ b # f
  <2>1. b \in b .. b + k - 1
    BY <1>1
  <2> QED
    BY <1>1, <2>1
<1>3. f \in Heads(F) /\ \A t \in Heads(F) : t >= f
  BY <1>1, FirstHead
<1>4. ~(b < f) => /\ q = p /\ n = slob_next(w, q) /\ q \in Heads(F) /\ q < b /\ b <= n
                  /\ u \in Int /\ n \in Int /\ Header(w, q, u, n) /\ Block(F, q, u, n)
                  /\ q \in Offsets /\ q # NULL /\ (slob_last(w, q) <=> n = PageUnits)
  <2> SUFFICES ASSUME ~(b < f)
               PROVE  /\ q = p /\ n = slob_next(w, q) /\ q \in Heads(F) /\ q < b /\ b <= n
                      /\ u \in Int /\ n \in Int /\ Header(w, q, u, n) /\ Block(F, q, u, n)
                      /\ q \in Offsets /\ q # NULL /\ (slob_last(w, q) <=> n = PageUnits)
    OBVIOUS
  <2>1. f < b
    BY <1>1, <1>2
  <2>2. p \in Heads(F) /\ p < b /\ b <= slob_next(w, p)
    BY <2>1, FindsBefore
  <2> HIDE DEF p
  <2>3. q = p /\ n = slob_next(w, q)
    OBVIOUS
  <2> HIDE DEF q, n, w
  <2>4. /\ u \in Int /\ n \in Int /\ Header(w, q, u, n) /\ Block(F, q, u, n)
        /\ q \in Offsets /\ (slob_last(w, q) <=> n = PageUnits)
    BY <1>1, <2>2, <2>3, HeadFacts
  <2>5. q # NULL
    BY <2>4, OffsetFacts DEF NULL
  <2> QED
    BY <2>2, <2>3, <2>4, <2>5
<1>5. /\ n \in Int /\ b < n /\ n <= PageUnits /\ (n < PageUnits => n \in Heads(F))
      /\ \A t \in Heads(F) : t < b \/ n <= t
  <2>1. CASE b < f
    <3>1. n = f
      BY <2>1
    <3> HIDE DEF n
    <3> QED
      BY <1>1, <1>3, <2>1, <3>1
  <2>2. CASE ~(b < f)
    <3> HIDE DEF q, n, u
    <3>1. /\ n < PageUnits => n \in Heads(F)
          /\ \A t \in Heads(F) : t > q => t >= n
      BY <1>1, <1>4, <2>2, NextHead
    <3>2. n <= PageUnits
      BY <1>4, <2>2 DEF Block
    <3>3. b # n
      BY <1>1, <1>2, <3>1
    <3> QED
      BY <1>1, <1>4, <2>2, <3>1, <3>2, <3>3
  <2> QED
    BY <2>1, <2>2
<1>6. b + k <= n
  <2>1. CASE n = PageUnits
    BY <2>1
  <2>2. CASE n < PageUnits
    <3>1. n \notin b .. b + k - 1
      BY <1>1, <1>5, <2>2
    <3> HIDE DEF n
    <3> QED
      BY <1>1, <1>5, <2>2, <3>1
  <2> QED
    BY <1>1, <1>5, <2>1, <2>2
<1>7. /\ e \in Int /\ m \in Int /\ e >= 1 /\ b + e <= m /\ m <= PageUnits /\ m >= 1
      /\ w1 \in [Offsets -> Int]
      /\ Header(w1, b, e, m)
      /\ \A t \in Heads(F) : ~(jn /\ t = n) =>
            /\ Header(w1, t, slob_units(w, t), slob_next(w, t))
            /\ t + slob_units(w, t) <= b \/ b + e <= t
  <2> HIDE DEF n, w
  <2>1. /\ e = IF n < PageUnits /\ b + k = n THEN k + slob_units(w, n) ELSE k
        /\ m = IF n < PageUnits /\ b + k = n THEN slob_next(w, n) ELSE n
    OBVIOUS
  <2>2. \A i \in b .. b + k - 1 : i \notin F
    BY <1>1
  <2> HIDE DEF e, m
  <2>3. /\ e \in Int /\ m \in Int /\ e >= 1 /\ b + e <= m /\ m <= PageUnits /\ m >= 1
        /\ set_slob(w, b, e, m) \in [Offsets -> Int]
        /\ Header(set_slob(w, b, e, m), b, e, m)
        /\ \A t \in Heads(F) : ~(n < PageUnits /\ b + k = n /\ t = n) =>
              /\ Header(set_slob(w, b, e, m), t, slob_units(w, t), slob_next(w, t))
              /\ t + slob_units(w, t) <= b \/ b + e <= t
    BY <1>1, <1>5, <1>6, <2>1, <2>2, GivenHeader
  <2> QED
    BY <2>3
<1>8. ~(b < f) => /\ Header(w1, q, u, n) /\ q + u <= b /\ u >= 1 /\ q \in Int
                  /\ slob_units(w1, q) = u /\ slob_units(w1, b) = e /\ slob_next(w1, b) = m
  <2> SUFFICES ASSUME ~(b < f)
               PROVE  /\ Header(w1, q, u, n) /\ q + u <= b /\ u >= 1 /\ q \in Int
                      /\ slob_units(w1, q) = u /\ slob_units(w1, b) = e /\ slob_next(w1, b) = m
    OBVIOUS
  <2> HIDE DEF n, w, q, w1, e, m
  <2>1. q # n /\ q \in Int /\ u >= 1
    BY <1>1, <1>4, <1>5 DEF Block
  <2>2. Header(w1, q, u, n) /\ (q + u <= b \/ b + e <= q)
    BY <1>4, <1>7, <2>1
  <2>3. q + u <= b
    BY <1>1, <1>4, <1>7, <2>1, <2>2
  <2>4. n >= 1 /\ n <= PageUnits
    BY <1>1, <1>5
  <2>5. slob_units(w1, q) = u
    BY <1>4, <1>5, <1>7, <2>1, <2>2, <2>4, HeaderRead
  <2>6. slob_units(w1, b) = e /\ slob_next(w1, b) = m
    BY <1>7, HeaderRead
  <2> QED
    BY <2>1, <2>2, <2>3, <2>5, <2>6
<1>9. GiveBack(pg, b, k) = [units |-> pg.units + k, free |-> IF b < f THEN b ELSE f, words |-> v]
  <2>1. CASE b < f
    <3>1. n = f /\ (jn <=> b + k = f)
      BY <1>1, <2>1
    <3> QED
      BY <2>1, <3>1 DEF GiveBack
  <2>2. CASE ~(b < f)
    <3> DEFINE w2 == IF ~slob_last(w, p) /\ b + k = slob_next(w, p)
                     THEN set_slob(w, b, k + slob_units(w, slob_next(w, p)),
                                   slob_next(w, slob_next(w, p)))
                     ELSE set_slob(w, b, k, slob_next(w, p))
    <3>1. GiveBack(pg, b, k) = [units |-> pg.units + k, free |-> f,
             words |-> IF p + slob_units(w2, p) = b
                       THEN set_slob(w2, p, slob_units(w2, b) + slob_units(w2, p),
                                     slob_next(w2, b))
                       ELSE set_slob(w2, p, slob_units(w2, p), b)]
      BY <2>2 DEF GiveBack, BlockBefore
    <3>2. q = p /\ n = slob_next(w, p) /\ (slob_last(w, p) <=> n = PageUnits)
      BY <1>4, <2>2
    <3> HIDE DEF p, q, n, u
    <3>3. w2 = w1
      BY <1>1, <1>5, <2>2, <3>2
    <3> HIDE DEF w2, w1, e, m
    <3>4. e + u = u + e
      BY <1>4, <1>7, <2>2
    <3> QED
      BY <1>8, <2>2, <3>1, <3>2, <3>3, <3>4
  <2> QED
    BY <2>1, <2>2
<1> DEFINE N == GiveBack(pg, b, k)
<1>10. N.units = pg.units + k /\ N.free = (IF b < f THEN b ELSE f) /\ N.words = v
       /\ N = [units |-> N.units, free |-> N.free, words |-> N.words]
  <2> HIDE DEF v
  <2> QED  BY <1>9
<1> HIDE DEF N
<1>11. /\ v \in [Offsets -> Int]
       /\ \A t \in Heads(F) : t # q /\ ~(jn /\ t = n) =>
             Header(v, t, slob_units(w, t), slob_next(w, t))
       /\ (q # NULL /\ q + u = b) => Header(v, q, u + e, m)
       /\ ~(q # NULL /\ q + u = b) => Header(v, b, e, m) /\ (q # NULL => Header(v, q, u, b))
  <2>1. CASE b < f
    <3>1. q = NULL /\ v = w1
      BY <2>1
    <3> HIDE DEF q, v, w1, u, e, m, n
    <3> QED
      BY <1>7, <3>1
  <2>2. CASE ~(b < f)
    <3> DEFINE z == IF q + u = b THEN u + e ELSE u
               l == IF q + u = b THEN m ELSE b
    <3>1. v = set_slob(w1, q, z, l)
      BY <2>2
    <3>2. /\ z \in Int /\ l \in Int /\ z >= 1 /\ q + z <= l /\ l <= PageUnits /\ q \in Offsets
          /\ q \in Int /\ q # NULL
      <4> HIDE DEF q, u, e, m, n
      <4> QED  BY <1>1, <1>4, <1>7, <1>8, <2>2
    <3>3. q + z <= PageUnits
      <4> HIDE DEF z, l, q
      <4> QED  BY <1>1, <3>2
    <3> HIDE DEF v
    <3>4. v \in [Offsets -> Int] /\ Header(v, q, z, l)
      <4> HIDE DEF z, l, q, w1
      <4> QED  BY <1>7, <3>1, <3>2, <3>3, HeaderSet
    <3>5. ASSUME NEW t \in Heads(F), t # q, ~(jn /\ t = n)
          PROVE  Header(v, t, slob_units(w, t), slob_next(w, t))
      <4> DEFINE a == slob_units(w, t)
                 c == slob_next(w, t)
      <4>1. /\ t \in Offsets /\ t \in Int /\ a \in Int /\ c \in Int /\ Header(w1, t, a, c)
            /\ Block(F, t, a, c) /\ (t + a <= b \/ b + e <= t)
        <5>1. t \in Offsets /\ t \in Int /\ a \in Int /\ c \in Int /\ Block(F, t, a, c)
          BY <1>1, HeadFacts
        <5> HIDE DEF w1, e, m, n
        <5> QED
          BY <1>7, <3>5, <5>1
      <4> HIDE DEF a, c, z, l, q, w1, u, e, m, n
      <4>2. a >= 1 /\ t + a <= c /\ c <= PageUnits
        BY <4>1 DEF Block
      <4>3. t + a <= q \/ q + z <= t
        <5>1. CASE t < q
          <6>1. t + a < q
            BY <1>4, <2>2, <4>1, <5>1, BlocksApart
          <6> QED
            BY <1>8, <2>2, <4>1, <6>1
        <5>2. CASE q < t
          <6>1. q + u < t /\ n <= t
            BY <1>4, <2>2, <5>2, BlocksApart
          <6>2. b + e <= t
            BY <1>1, <1>5, <1>7, <4>1, <4>2, <6>1
          <6> QED
            BY <1>1, <1>4, <1>7, <1>8, <2>2, <4>1, <6>1, <6>2 DEF z
        <5> QED
          BY <3>2, <3>5, <4>1, <5>1, <5>2
      <4>4. t + a <= PageUnits
        BY <1>1, <4>1, <4>2
      <4>5. Header(v, t, a, c)
        BY <1>7, <3>1, <3>2, <3>3, <4>1, <4>2, <4>3, <4>4, HeaderKept
      <4> QED
        BY <4>5 DEF a, c
    <3>6. q + u # b => Header(v, b, e, m)
      <4> SUFFICES ASSUME q + u # b PROVE Header(v, b, e, m)
        OBVIOUS
      <4>1. z = u /\ q + z <= b
        BY <1>8, <2>2
      <4>2. b + e <= PageUnits
        <5> HIDE DEF e, m
        <5> QED  BY <1>1, <1>7
      <4> HIDE DEF z, l, q, w1, u, e, m, n
      <4> QED
        BY <1>7, <3>1, <3>2, <3>3, <4>1, <4>2, HeaderKept
    <3>7. /\ q + u = b => Header(v, q, u + e, m)
          /\ q + u # b => Header(v, q, u, b)
      <4> HIDE DEF q, w1, u, e, m, n
      <4> QED  BY <3>4
    <3> HIDE DEF q, w1, u, e, m, n, z, l, w
    <3> QED
      BY <3>2, <3>4, <3>5, <3>6, <3>7
  <2> QED
    BY <2>1, <2>2, Zenon
<1>12. JoinWords(F, w, b, k, q, n, e, m, v)
  <2>1. \/ q = NULL /\ \A i \in F : n <= i
        \/ q \in Heads(F) /\ q < b /\ slob_next(w, q) = n
    <3>1. CASE b < f
      BY <1>1, <3>1
    <3>2. CASE ~(b < f)
      BY <1>4, <3>2
    <3> QED
      BY <3>1, <3>2
  <2>2. u = slob_units(w, q) /\ e = (IF jn THEN k + slob_units(w, n) ELSE k)
        /\ m = (IF jn THEN slob_next(w, n) ELSE n)
    OBVIOUS
  <2> HIDE DEF v, e, m, u, n, q, w
  <2> QED
    BY <1>1, <1>5, <1>6, <1>11, <2>1, <2>2 DEF JoinWords
<1>13. Sound(v, G)
  <2> HIDE DEF v, e, m, n, q, w
  <2> QED  BY <1>1, <1>5, <1>7, <1>12, JoinSound
<1>14. /\ G \in SUBSET Offsets /\ Cardinality(G) = Cardinality(F) + k
       /\ Cardinality(G) \in Nat /\ Cardinality(G) <= PageUnits
  <2>1. G \in SUBSET Offsets
    BY <1>1, OffsetFacts
  <2>2. (b .. b + k - 1) \cap F = {}
    OBVIOUS
  <2>3. Cardinality(G) = Cardinality(F) + k
    <3>1. b \in Int
      BY <1>1
    <3> QED
      BY <2>2, <3>1, UnitCount
  <2> QED
    BY <2>1, <2>3, FiniteOffsets
<1>15. N.free \in G /\ (\A i \in G : N.free <= i) /\ N.free \in 0 .. PageUnits
  <2>1. CASE b < f
    <3>1. N.free = b
      BY <1>10, <2>1
    <3> QED
      BY <1>1, <2>1, <3>1
  <2>2. CASE ~(b < f)
    <3>1. N.free = f
      BY <1>10, <2>2
    <3> QED
      BY <1>1, <1>2, <2>2, <3>1
  <2> QED
    BY <2>1, <2>2
<1> HIDE DEF G, v
<1>16. N \in PageRecord
  <2>1. N.units \in 0 .. PageUnits
    BY <1>1, <1>10, <1>14
  <2> QED
    BY <1>10, <1>11, <1>15, <2>1 DEF PageRecord
<1>17. Exact(N, G)
  BY <1>1, <1>10, <1>13, <1>14, <1>15, <1>16 DEF Exact
<1> QED
  BY <1>17 DEF N, G

\* A page whose only free units are the k at b.
OnlyBlock(w, b, k) == [units |-> k, free |-> b, words |-> set_slob(w, b, k, PageUnits)]

LEMMA OneBlock ==
    ASSUME NEW w \in [Offsets -> Int], NEW b \in Offsets, NEW k \in Int, k >= 1, b + k <= PageUnits
    PROVE  Exact(OnlyBlock(w, b, k), b .. b + k - 1)
<1> DEFINE v == set_slob(w, b, k, PageUnits)
           G == b .. b + k - 1
           N == [units |-> k, free |-> b, words |-> v]
<1>1. PageUnits \in Int /\ PageUnits > 1 /\ b \in Int /\ 0 <= b
  BY PageFacts, OffsetFacts
<1>2. v \in [Offsets -> Int] /\ Header(v, b, k, PageUnits)
  BY <1>1, HeaderSet
<1> HIDE DEF v
<1>3. Heads(G) = {b}
  BY <1>1 DEF Heads
<1>4. Block(G, b, k, PageUnits)
  BY <1>1 DEF Block
<1>5. Sound(v, G)
  <2>1. k \in 1 .. PageUnits /\ PageUnits \in 1 .. PageUnits
    BY <1>1
  <2> HIDE DEF G
  <2> QED
    BY <1>2, <1>3, <1>4, <2>1 DEF Sound
<1>6. Cardinality(G) = k
  <2>1. {} \in SUBSET Offsets
    OBVIOUS
  <2> QED
    BY <1>1, <2>1, UnitCount
<1>7. N \in PageRecord
  <2>1. k \in 0 .. PageUnits /\ b \in 0 .. PageUnits
    BY <1>1
  <2> QED
    BY <1>2, <2>1 DEF PageRecord
<1>8. b \in G /\ \A i \in G : b <= i
  BY <1>1
<1>9. N.units = k /\ N.free = b /\ N.words = v
  OBVIOUS
<1> HIDE DEF G, N
<1>10. Exact(N, G)
  BY <1>5, <1>6, <1>7, <1>8, <1>9 DEF Exact
<1> QED
  BY <1>10 DEF N, G, v, OnlyBlock

-----------------------------------------------------------------------------
(* The searches *)

\* Free blocks of pages, as the searches see them.
FreeBlocks == [page : Pages, cur : Offsets, prev : Int, avail : 1 .. PageUnits]

\* The list q holds the free blocks F of page p, which is in state pg.
FreeList(q, p, pg, F) ==
    /\ q \in Seq(FreeBlocks)
    /\ \A i \in 1 .. Len(q) :
          q[i].page = p /\ FreeBlock(q[i], pg.words, F) /\ q[i].avail <= pg.units
    /\ \A s \in Heads(F) : \E i \in 1 .. Len(q) : q[i].cur = s

\* The blocks a search visits in an exact page are its free blocks.
LEMMA BlocksOfFacts ==
    ASSUME NEW F \in SUBSET Offsets, NEW p \in Pages, NEW pg, Exact(pg, F)
    PROVE  FreeList(BlocksOf(p, pg), p, pg, F)
<1> DEFINE c == Chain(pg)
           w == pg.words
           q == BlocksOf(p, pg)
           B(i) == [page |-> p, cur |-> c[i], prev |-> IF i = 1 THEN NULL ELSE c[i - 1],
                    avail |-> slob_units(w, c[i])]
<1>1. w \in [Offsets -> Int] /\ Sound(w, F)
  BY DEF Exact, PageRecord
<1>2. q = [i \in DOMAIN c |-> B(i)]
  BY DEF BlocksOf
<1>3. /\ c \in Seq(Int) /\ Len(c) \in Nat /\ DOMAIN c = 1 .. Len(c)
      /\ \A i \in 1 .. Len(c) : c[i] \in Heads(F)
      /\ \A i \in 1 .. Len(c) - 1 : slob_next(w, c[i]) = c[i + 1]
      /\ \A s \in Heads(F) : \E i \in 1 .. Len(c) : c[i] = s
      /\ Len(c) >= 1 => \A i \in F : c[1] <= i
  <2>1. CASE F = {}
    <3>1. c = << >>
      BY <2>1, ChainFacts
    <3>2. Heads(F) = {}
      BY <2>1 DEF Heads
    <3> HIDE DEF c
    <3> QED
      BY <3>1, <3>2
  <2>2. CASE F # {}
    <3>1. Visits(w, F, pg.free, c)
      BY <2>2, ChainFacts
    <3>2. pg.free \in F /\ \A i \in F : pg.free <= i
      BY <2>2 DEF Exact
    <3>3. \A t \in Heads(F) : t >= pg.free
      BY <3>2, FirstHead
    <3> HIDE DEF c, w
    <3> QED
      BY <3>1, <3>2, <3>3 DEF Visits
  <2> QED
    BY <2>1, <2>2
<1> HIDE DEF c, w, q
<1>4. ASSUME NEW i \in 1 .. Len(c)
      PROVE  B(i) \in FreeBlocks /\ B(i).page = p /\ FreeBlock(B(i), w, F) /\ B(i).avail <= pg.units
  <2> DEFINE u == slob_units(w, c[i])
             n == slob_next(w, c[i])
  <2>1. /\ c[i] \in Heads(F) /\ c[i] \in Int /\ c[i] \in F /\ c[i] \in Offsets /\ 0 <= c[i]
    BY <1>3, OffsetFacts DEF Heads
  <2>2. u \in Int /\ n \in Int /\ Block(F, c[i], u, n)
    BY <1>1, <2>1, HeadFacts
  <2> HIDE DEF u, n
  <2>3. u \in 1 .. PageUnits
    BY <2>1, <2>2, PageFacts DEF Block
  <2>4. u <= pg.units
    <3>1. u >= 1 /\ \A j \in c[i] .. c[i] + u - 1 : j \in F
      BY <2>2 DEF Block
    <3>2. Cardinality(c[i] .. c[i] + u - 1) = u
      <4>1. {} \in SUBSET Offsets
        OBVIOUS
      <4> QED
        BY <2>1, <2>2, <3>1, <4>1, UnitCount
    <3>3. IsFiniteSet(F)
      BY FiniteOffsets
    <3>4. c[i] .. c[i] + u - 1 \subseteq F
      BY <3>1
    <3>5. Cardinality(c[i] .. c[i] + u - 1) <= Cardinality(F)
      BY <3>3, <3>4, FS_Subset
    <3> QED
      BY <3>2, <3>5 DEF Exact
  <2>5. CASE i = 1
    <3>1. B(i) = [page |-> p, cur |-> c[i], prev |-> NULL, avail |-> u]
      BY <2>5 DEF u
    <3>2. \A j \in F : c[i] <= j
      BY <1>3, <2>5
    <3>3. NULL \in Int
      BY DEF NULL
    <3> HIDE DEF B
    <3>4. B(i) \in FreeBlocks /\ B(i).cur = c[i] /\ B(i).prev = NULL /\ B(i).avail = u /\ B(i).page = p
      BY <2>1, <2>3, <3>1, <3>3 DEF FreeBlocks
    <3> QED
      BY <2>1, <2>4, <3>2, <3>4 DEF FreeBlock, u
  <2>6. CASE i # 1
    <3>1. B(i) = [page |-> p, cur |-> c[i], prev |-> c[i - 1], avail |-> u]
      BY <2>6 DEF u
    <3>2. i - 1 \in 1 .. Len(c) - 1 /\ (i - 1) + 1 = i /\ i - 1 \in 1 .. Len(c)
      BY <1>3, <2>6
    <3>3. c[i - 1] \in Heads(F) /\ c[i - 1] \in Int /\ slob_next(w, c[i - 1]) = c[i]
      BY <1>3, <3>2, OffsetFacts DEF Heads
    <3> HIDE DEF B
    <3>4. B(i) \in FreeBlocks /\ B(i).cur = c[i] /\ B(i).prev = c[i - 1] /\ B(i).avail = u
          /\ B(i).page = p
      BY <2>1, <2>3, <3>1, <3>3 DEF FreeBlocks
    <3> QED
      BY <2>1, <2>4, <3>3, <3>4 DEF FreeBlock, u
  <2> QED
    BY <2>5, <2>6
<1> HIDE DEF B
<1>5. q \in Seq(FreeBlocks) /\ Len(q) = Len(c) /\ \A i \in 1 .. Len(c) : q[i] = B(i)
  <2>1. q \in [1 .. Len(c) -> FreeBlocks]
    BY <1>2, <1>3, <1>4
  <2>2. \A i \in 1 .. Len(c) : q[i] = B(i)
    BY <1>2, <1>3
  <2> HIDE DEF B
  <2>3. q \in Seq(FreeBlocks)
    <3>1. Len(c) \in Nat
      BY <1>3
    <3> QED
      BY <2>1, <3>1
  <2>4. Len(q) = Len(c)
    <3>1. DOMAIN q = 1 .. Len(c) /\ DOMAIN q = 1 .. Len(q) /\ Len(q) \in Nat
      BY <2>1, <2>3, LenProperties
    <3> QED
      BY <1>3, <3>1
  <2> QED
    BY <2>2, <2>3, <2>4
<1>6. \A i \in 1 .. Len(c) : B(i).cur = c[i]
  BY DEF B
<1>7. \A i \in 1 .. Len(q) : q[i].page = p /\ FreeBlock(q[i], w, F) /\ q[i].avail <= pg.units
  BY <1>4, <1>5, Zenon
<1>8. ASSUME NEW s \in Heads(F) PROVE \E i \in 1 .. Len(q) : q[i].cur = s
  <2>1. PICK i \in 1 .. Len(c) : c[i] = s
    BY <1>3, Zenon
  <2>2. q[i].cur = s
    BY <1>5, <1>6, <2>1, Zenon
  <2> QED
    BY <1>5, <2>2, Zenon
<1> QED
  BY <1>5, <1>7, <1>8 DEF FreeList, q, w

-----------------------------------------------------------------------------
(* Recursive functions *)

\* f follows the steps g from a, up to N.
Follows(f, S, a, g, N) ==
    f \in [0 .. N -> S] /\ f[0] = a /\ \A i \in 0 .. N - 1 : f[i + 1] = g[i][f[i]]

\* Two functions that follow the same steps agree.
LEMMA FollowsAgree ==
    ASSUME NEW S, NEW a \in S, NEW g \in [Nat -> [S -> S]], NEW N \in Nat, NEW M \in Nat,
           NEW f, Follows(f, S, a, g, N), NEW h, Follows(h, S, a, g, M),
           NEW i \in Nat, i <= N, i <= M
    PROVE  f[i] = h[i]
<1> DEFINE Differ == {j \in 0 .. i : f[j] # h[j]}
<1> SUFFICES ASSUME Differ # {} PROVE FALSE
  OBVIOUS
<1>1. Differ \in SUBSET Nat
  OBVIOUS
<1>2. PICK j \in Differ : \A l \in Differ : j <= l
  BY <1>1, MinNat
<1>3. j # 0
  BY <1>2 DEF Follows
<1>4. j - 1 \in 0 .. i /\ ~(j <= j - 1) /\ (j - 1) + 1 = j /\ j - 1 \in 0 .. N - 1 /\ j - 1 \in 0 .. M - 1
  BY <1>2, <1>3
<1>5. f[j - 1] = h[j - 1]
  <2>1. j - 1 \notin Differ
    <3> HIDE DEF Differ
    <3> QED  BY <1>2, <1>4
  <2> QED
    BY <1>4, <2>1
<1>6. f[(j - 1) + 1] = g[j - 1][f[j - 1]] /\ h[(j - 1) + 1] = g[j - 1][h[j - 1]]
  BY <1>4 DEF Follows
<1>7. f[j] = h[j]
  BY <1>4, <1>5, <1>6
<1> QED
  BY <1>2, <1>7

\* f follows the steps g from a for ever.
Solves(f, S, a, g) == f \in [Nat -> S] /\ f[0] = a /\ \A i \in Nat : f[i + 1] = g[i][f[i]]

\* A function of natural numbers can be defined step by step.
LEMMA RecursionExists ==
    ASSUME NEW S, NEW a \in S, NEW g \in [Nat -> [S -> S]]
    PROVE  \E f : Solves(f, S, a, g)
<1> DEFINE Upto(N) == \E f : Follows(f, S, a, g, N)
           Bad == {N \in Nat : ~Upto(N)}
<1>1. Bad = {}
  <2> SUFFICES ASSUME Bad # {} PROVE FALSE
    OBVIOUS
  <2>1. PICK N \in Bad : \A l \in Bad : N <= l
    <3>1. Bad \in SUBSET Nat
      OBVIOUS
    <3> QED
      BY <3>1, MinNat
  <2>2. N \in Nat /\ ~Upto(N)
    BY <2>1
  <2>3. CASE N = 0
    <3> DEFINE f == [i \in 0 .. 0 |-> a]
    <3>1. Follows(f, S, a, g, 0)
      BY DEF Follows
    <3> QED
      BY <2>2, <2>3, <3>1
  <2>4. CASE N # 0
    <3>1. N - 1 \in Nat /\ ~(N <= N - 1)
      BY <2>2, <2>4
    <3>2. Upto(N - 1)
      <4> HIDE DEF Upto
      <4>1. N - 1 \notin Bad
        <5> HIDE DEF Bad
        <5> QED  BY <2>1, <3>1
      <4> QED
        BY <3>1, <4>1
    <3>3. PICK f : Follows(f, S, a, g, N - 1)
      BY <3>2
    <3> DEFINE h == [i \in 0 .. N |-> IF i = N THEN g[N - 1][f[N - 1]] ELSE f[i]]
    <3>4. f \in [0 .. N - 1 -> S] /\ f[0] = a /\ \A i \in 0 .. (N - 1) - 1 : f[i + 1] = g[i][f[i]]
      BY <3>3 DEF Follows
    <3>5. f[N - 1] \in S /\ g[N - 1] \in [S -> S]
      BY <3>1, <3>4
    <3>6. \A i \in 0 .. N : i # N => i \in 0 .. N - 1
      BY <2>2
    <3>7. h \in [0 .. N -> S]
      BY <3>4, <3>5, <3>6
    <3>8. h[0] = a
      BY <2>2, <2>4, <3>4
    <3>9. ASSUME NEW i \in 0 .. N - 1 PROVE h[i + 1] = g[i][h[i]]
      <4>1. CASE i = N - 1
        <5>1. i \in 0 .. N /\ i # N /\ i + 1 = N /\ N \in 0 .. N
          BY <2>2, <4>1
        <5> QED
          BY <4>1, <5>1
      <4>2. CASE i # N - 1
        <5>1. /\ i \in 0 .. N /\ i # N /\ i + 1 # N /\ i + 1 \in 0 .. N
              /\ i \in 0 .. (N - 1) - 1
          BY <2>2, <4>2
        <5> QED
          BY <3>4, <5>1
      <4> QED
        BY <4>1, <4>2
    <3> HIDE DEF h
    <3>10. Follows(h, S, a, g, N)
      BY <3>7, <3>8, <3>9 DEF Follows
    <3> QED
      BY <2>2, <3>10
  <2> QED
    BY <2>3, <2>4
<1> DEFINE A(N) == CHOOSE f : Follows(f, S, a, g, N)
           F == [N \in Nat |-> A(N)[N]]
<1>2. \A N \in Nat : Follows(A(N), S, a, g, N)
  <2> SUFFICES ASSUME NEW N \in Nat PROVE Follows(A(N), S, a, g, N)
    OBVIOUS
  <2>1. Upto(N)
    <3> HIDE DEF Upto
    <3> QED  BY <1>1
  <2> QED
    BY <2>1
<1> HIDE DEF A
<1>3. \A N \in Nat : A(N)[N] \in S
  <2> SUFFICES ASSUME NEW N \in Nat PROVE A(N)[N] \in S
    OBVIOUS
  <2>1. A(N) \in [0 .. N -> S] /\ N \in 0 .. N
    BY <1>2 DEF Follows
  <2> QED
    BY <2>1
<1>4. F \in [Nat -> S]
  BY <1>3
<1>5. F[0] = a
  <2>1. 0 \in Nat
    OBVIOUS
  <2>2. A(0)[0] = a
    BY <1>2, <2>1 DEF Follows
  <2> QED
    BY <2>1, <2>2
<1>6. ASSUME NEW i \in Nat PROVE F[i + 1] = g[i][F[i]]
  <2>1. i + 1 \in Nat /\ i <= i + 1 /\ i <= i /\ i \in 0 .. (i + 1) - 1
    OBVIOUS
  <2>2. A(i + 1)[i + 1] = g[i][A(i + 1)[i]]
    BY <1>2, <2>1 DEF Follows
  <2>3. Follows(A(i + 1), S, a, g, i + 1) /\ Follows(A(i), S, a, g, i)
    BY <1>2, <2>1
  <2>4. A(i + 1)[i] = A(i)[i]
    BY <2>1, <2>3, FollowsAgree
  <2> QED
    BY <2>1, <2>2, <2>4
<1> HIDE DEF F
<1> QED
  BY <1>4, <1>5, <1>6 DEF Solves

\* The number of frames of a compound page is at least one more than its order.
LEMMA FramesFacts ==
    /\ \A n \in Nat : Frames[n] \in Nat /\ Frames[n] > n
    /\ Frames[0] = 1
<1> DEFINE g == [i \in Nat |-> [x \in Nat |-> 2 * x]]
<1>1. g \in [Nat -> [Nat -> Nat]]
  OBVIOUS
<1>2. PICK f \in [Nat -> Nat] : f[0] = 1 /\ \A i \in Nat : f[i + 1] = g[i][f[i]]
  <2> HIDE DEF g
  <2>1. \E f : Solves(f, Nat, 1, g)
    <3>1. 1 \in Nat
      OBVIOUS
    <3> QED
      BY <1>1, <3>1, RecursionExists
  <2> QED
    BY <2>1 DEF Solves
<1>3. \A i \in Nat : f[i + 1] = 2 * f[i]
  BY <1>2
<1>4. f = [n \in Nat |-> IF n = 0 THEN 1 ELSE 2 * f[n - 1]]
  <2>1. \A n \in Nat : n # 0 => n - 1 \in Nat /\ (n - 1) + 1 = n
    OBVIOUS
  <2>2. \A n \in Nat : f[n] = IF n = 0 THEN 1 ELSE 2 * f[n - 1]
    <3> SUFFICES ASSUME NEW n \in Nat PROVE f[n] = IF n = 0 THEN 1 ELSE 2 * f[n - 1]
      OBVIOUS
    <3>1. n # 0 => f[(n - 1) + 1] = 2 * f[n - 1]
      BY <1>3, <2>1
    <3> QED
      BY <1>2, <2>1, <3>1
  <2> QED
    BY <2>2
<1>5. Frames = [n \in Nat |-> IF n = 0 THEN 1 ELSE 2 * Frames[n - 1]]
  <2> DEFINE P(h) == h = [n \in Nat |-> IF n = 0 THEN 1 ELSE 2 * h[n - 1]]
  <2>1. Frames = CHOOSE h : P(h)
    BY DEF Frames
  <2>2. P(f)
    BY <1>4
  <2>3. P(CHOOSE h : P(h))
    <3> HIDE DEF P
    <3> QED  BY <2>2
  <2> QED
    BY <2>1, <2>3
<1>6. /\ Frames[0] = 1
      /\ \A n \in Nat : n # 0 => Frames[n] = 2 * Frames[n - 1]
  <2> DEFINE h == Frames
  <2>1. h = [n \in Nat |-> IF n = 0 THEN 1 ELSE 2 * h[n - 1]]
    BY <1>5
  <2> HIDE DEF h
  <2>2. \A n \in Nat : h[n] = IF n = 0 THEN 1 ELSE 2 * h[n - 1]
    BY <2>1
  <2>3. 0 \in Nat
    OBVIOUS
  <2> QED
    BY <2>2, <2>3 DEF h
<1> DEFINE Bad == {n \in Nat : ~(Frames[n] \in Nat /\ Frames[n] > n)}
<1>7. Bad = {}
  <2> SUFFICES ASSUME Bad # {} PROVE FALSE
    OBVIOUS
  <2>1. Bad \in SUBSET Nat
    OBVIOUS
  <2>2. PICK n \in Bad : \A l \in Bad : n <= l
    BY <2>1, MinNat
  <2>3. n \in Nat /\ ~(Frames[n] \in Nat /\ Frames[n] > n)
    BY <2>2
  <2>4. n # 0
    BY <1>6, <2>3
  <2>5. n - 1 \in Nat /\ ~(n <= n - 1)
    BY <2>3, <2>4
  <2>6. n - 1 \notin Bad
    <3> HIDE DEF Bad
    <3> QED  BY <2>2, <2>5
  <2>7. Frames[n - 1] \in Nat /\ Frames[n - 1] > n - 1
    BY <2>5, <2>6
  <2>8. Frames[n] = 2 * Frames[n - 1]
    BY <1>6, <2>3, <2>4
  <2> DEFINE x == Frames[n - 1]
             y == Frames[n]
  <2> HIDE DEF x, y
  <2>9. x \in Nat /\ x > n - 1 /\ y = 2 * x /\ ~(y \in Nat /\ y > n)
    BY <2>3, <2>7, <2>8 DEF x, y
  <2> QED
    BY <2>3, <2>4, <2>9
<1> QED
  BY <1>6, <1>7

\* get_order finds an order.
LEMMA OrderFacts ==
    ASSUME NEW size \in Nat
    PROVE  get_order(size) \in Nat
<1> DEFINE Enough == {k \in Nat : PageBytes * Frames[k] >= size}
           P(k) == /\ PageBytes * Frames[k] >= size
                   /\ k > 0 => PageBytes * Frames[k - 1] < size
<1>1. PageBytes \in Int /\ PageBytes >= 1
  BY PageFacts
<1>2. \A k \in Nat : Frames[k] \in Int /\ Frames[k] > k
  BY FramesFacts
<1>3. \A x, y \in Int : x >= 1 /\ y > size => x * y >= size
  <2> SUFFICES ASSUME NEW x \in Int, NEW y \in Int, x >= 1, y > size PROVE x * y >= size
    OBVIOUS
  <2>1. x * y >= 1 * y
    OBVIOUS
  <2> QED
    BY <2>1
<1>4. size \in Enough /\ Enough \in SUBSET Nat
  BY <1>1, <1>2, <1>3
<1>5. PICK k \in Enough : \A l \in Enough : k <= l
  BY <1>4, MinNat
<1>6. k \in 0 .. size /\ k \in Nat /\ PageBytes * Frames[k] >= size
  BY <1>4, <1>5
<1>7. k > 0 => PageBytes * Frames[k - 1] < size
  <2> SUFFICES ASSUME k > 0, ~(PageBytes * Frames[k - 1] < size) PROVE FALSE
    OBVIOUS
  <2>1. k - 1 \in Nat /\ ~(k <= k - 1)
    BY <1>6
  <2>2. Frames[k - 1] \in Int
    BY <1>2, <2>1
  <2>3. PageBytes * Frames[k - 1] >= size
    BY <1>1, <2>2
  <2>4. k - 1 \in Enough
    BY <2>1, <2>3
  <2> HIDE DEF Enough
  <2> QED
    BY <1>5, <2>1, <2>4
<1>8. get_order(size) = CHOOSE j \in 0 .. size : P(j)
  BY DEF get_order
<1>9. P(k)
  BY <1>6, <1>7
<1> HIDE DEF P
<1>10. get_order(size) \in 0 .. size
  BY <1>6, <1>8, <1>9
<1> QED
  BY <1>10

\* What a list of lists becomes when it is flattened.
LEMMA FlattenFacts ==
    ASSUME NEW S, NEW q \in Seq(Seq(S))
    PROVE  /\ FlattenSeq(q) \in Seq(S)
           /\ \A x : x \in Range(FlattenSeq(q)) <=> \E i \in 1 .. Len(q) : x \in Range(q[i])
<1> DEFINE L == Len(q)
           step(f, i) == IF i = 1 THEN q[i] ELSE f[i - 1] \o q[i]
           P(f) == f = [i \in 1 .. L |-> step(f, i)]
<1>1. L \in Nat /\ \A i \in 1 .. L : q[i] \in Seq(S)
  OBVIOUS
<1>2. CASE L = 0
  <2>1. FlattenSeq(q) = q /\ q = << >>
    BY <1>2 DEF FlattenSeq
  <2>2. Range(<< >>) = {} /\ << >> \in Seq(S)
    BY ShortLists
  <2> QED
    BY <1>2, <2>1, <2>2
<1>3. CASE L # 0
  <2>1. FlattenSeq(q) = (CHOOSE f : P(f))[L]
    BY <1>3 DEF FlattenSeq
  <2> DEFINE g == [i \in Nat |-> [x \in Seq(S) |-> IF i + 1 \in 1 .. L THEN x \o q[i + 1] ELSE x]]
  <2>2. g \in [Nat -> [Seq(S) -> Seq(S)]]
    <3>1. \A i \in Nat, x \in Seq(S) : i + 1 \in 1 .. L => x \o q[i + 1] \in Seq(S)
      BY <1>1, ConcatProperties
    <3> QED
      BY <3>1
  <2>3. PICK h : Solves(h, Seq(S), << >>, g)
    <3> HIDE DEF g
    <3>1. << >> \in Seq(S)
      OBVIOUS
    <3> QED
      BY <2>2, <3>1, RecursionExists
  <2>4. h \in [Nat -> Seq(S)] /\ h[0] = << >> /\ \A i \in Nat : i + 1 \in 1 .. L => h[i + 1] = h[i] \o q[i + 1]
    BY <2>3 DEF Solves
  <2> DEFINE f == [i \in 1 .. L |-> h[i]]
  <2>5. \A i \in 1 .. L : f[i] = step(f, i)
    <3> SUFFICES ASSUME NEW i \in 1 .. L PROVE f[i] = step(f, i)
      OBVIOUS
    <3>1. i - 1 \in Nat /\ (i - 1) + 1 = i
      BY <1>1
    <3>2. h[i] = h[i - 1] \o q[i]
      BY <2>4, <3>1
    <3>3. CASE i = 1
      <4>1. h[i - 1] = << >>
        BY <2>4, <3>3
      <4>2. << >> \o q[i] = q[i]
        BY <1>1, ConcatEmptySeq
      <4> QED
        BY <3>2, <3>3, <4>1, <4>2
    <3>4. CASE i # 1
      <4>1. i - 1 \in 1 .. L
        BY <1>1, <3>4
      <4> QED
        BY <3>2, <3>4, <4>1
    <3> QED
      BY <3>3, <3>4
  <2>6. P(f)
    BY <2>5
  <2> DEFINE c == CHOOSE z : P(z)
  <2>7. P(c)
    <3> HIDE DEF P, f
    <3> QED  BY <2>6
  <2>8. \A i \in 1 .. L : c[i] = step(c, i)
    <3> HIDE DEF c, step
    <3> QED  BY <2>7
  <2> HIDE DEF c
  <2> DEFINE Right(i) == /\ c[i] \in Seq(S)
                         /\ \A x : x \in Range(c[i]) <=> \E j \in 1 .. i : x \in Range(q[j])
             Wrong == {i \in 1 .. L : ~Right(i)}
  <2>9. Wrong = {}
    <3> SUFFICES ASSUME Wrong # {} PROVE FALSE
      OBVIOUS
    <3>1. Wrong \in SUBSET Nat
      OBVIOUS
    <3>2. PICK i \in Wrong : \A l \in Wrong : i <= l
      <4> HIDE DEF Wrong
      <4> QED  BY <3>1, MinNat
    <3>3. i \in 1 .. L /\ ~Right(i)
      BY <3>2
    <3>4. CASE i = 1
      <4>1. c[i] = q[i]
        BY <2>8, <3>3, <3>4
      <4>2. 1 .. i = {i}
        BY <3>4
      <4> QED
        BY <1>1, <3>3, <4>1, <4>2
    <3>5. CASE i # 1
      <4>1. i - 1 \in 1 .. L /\ ~(i <= i - 1) /\ 1 .. i = (1 .. i - 1) \cup {i}
        BY <1>1, <3>3, <3>5
      <4>2. Right(i - 1)
        <5> HIDE DEF Right
        <5>1. i - 1 \notin Wrong
          <6> HIDE DEF Wrong
          <6> QED  BY <3>2, <4>1
        <5> QED
          BY <4>1, <5>1
      <4>3. c[i] = c[i - 1] \o q[i]
        BY <2>8, <3>3, <3>5
      <4>4. c[i - 1] \in Seq(S) /\ q[i] \in Seq(S)
        BY <1>1, <3>3, <4>2
      <4>5. c[i] \in Seq(S) /\ Range(c[i]) = Range(c[i - 1]) \cup Range(q[i])
        BY <4>3, <4>4, ConcatOrder
      <4>6. \A x : x \in Range(c[i - 1]) <=> \E j \in 1 .. i - 1 : x \in Range(q[j])
        BY <4>2
      <4>7. \A x : x \in Range(c[i]) <=> \E j \in 1 .. i : x \in Range(q[j])
        BY <4>1, <4>5, <4>6, Zenon
      <4> QED
        BY <3>3, <4>5, <4>7
    <3> QED
      BY <3>4, <3>5
  <2>10. Right(L)
    <3> HIDE DEF Right
    <3>1. L \in 1 .. L
      BY <1>1, <1>3
    <3> QED
      BY <2>9, <3>1
  <2> QED
    BY <2>1, <2>10 DEF c
<1> QED
  BY <1>2, <1>3

\* best.block_size before the search: PAGE_SIZE + 1, or a negative number.
LEMMA WidthFacts ==
    /\ BlockSizeFits \in BOOLEAN /\ slobidx_t(PageBytes + 1) \in Int
    /\ BlockSizeFits => slobidx_t(PageBytes + 1) = PageBytes + 1
    /\ ~BlockSizeFits => slobidx_t(PageBytes + 1) < 0
<1> DEFINE z == PageBytes + 1
<1>1. z \in Int /\ z >= 5 /\ z <= 65535
  <2>1. PageUnits \in Int /\ PageUnits >= 2 /\ PageUnits <= 32767
    BY PageAssumption, SMTT(60)
  <2> QED
    BY <2>1, PageFacts
<1> HIDE DEF z
<1>2. CASE z <= 32767
  <2>1. (z + 32768) % 65536 = z + 32768
    BY <1>1, <1>2
  <2>2. slobidx_t(z) = z
    BY <1>1, <2>1 DEF slobidx_t
  <2> QED
    BY <1>1, <2>2 DEF BlockSizeFits, z
<1>3. CASE z >= 32768
  <2>1. (z + 32768) % 65536 = z - 32768
    BY <1>1, <1>3
  <2>2. slobidx_t(z) = z - 65536
    BY <1>1, <2>1 DEF slobidx_t
  <2>3. slobidx_t(z) \in Int /\ slobidx_t(z) < 0 /\ slobidx_t(z) # z
    BY <1>1, <2>2
  <2> QED
    BY <2>3 DEF BlockSizeFits, z
<1> QED
  BY <1>1, <1>2, <1>3

\* A block the search takes when it has none yet: one with room, and if
\* PAGE_SIZE + 1 does not fit best.block_size only one without a rest.
Noticed(b, units, align) ==
    Fits(b, units, align) /\ (BlockSizeFits \/ Rest(b, units, align) = 0)

\* What find_best_fit_block keeps in best, after the first n of the blocks:
\* nothing, if it noticed none of them, and otherwise one that has room and its
\* size; for alignments of one and two units it is one that leaves least behind
\* the object.
BestOf(best, blocks, units, align, n) ==
    /\ \/ /\ best = NoBest(units)
          /\ \A i \in 1 .. n : ~Noticed(blocks[i], units, align)
       \/ /\ \E i \in 1 .. n : Noticed(blocks[i], units, align)
          /\ \E i \in 1 .. n :
                /\ Fits(blocks[i], units, align)
                /\ best = [blk |-> blocks[i], block_size |-> blocks[i].avail, object_size |-> units]
    /\ (align <= 2 /\ best.blk # NoBlock) => \A i \in 1 .. n :
          Fits(blocks[i], units, align) =>
             Rest(best.blk, units, align) <= Rest(blocks[i], units, align)

\* What the arithmetic of the search needs to know of a block.
LEMMA BlockFacts ==
    ASSUME NEW b \in FreeBlocks, NEW align \in Nat \ {0}, NEW units \in Int
    PROVE  /\ b # NoBlock /\ b.cur \in Int /\ b.avail \in Int /\ b.avail >= 1 /\ b.avail <= PageUnits
           /\ Delta(b.cur, align) \in Int /\ 0 <= Delta(b.cur, align) /\ Delta(b.cur, align) < align
           /\ Rest(b, units, align) \in Int
           /\ Rest(b, units, align) = b.avail - (units + Delta(b.cur, align))
           /\ Fits(b, units, align) <=> Rest(b, units, align) >= 0
<1>1. b.cur \in Offsets /\ b.avail \in 1 .. PageUnits
  BY DEF FreeBlocks
<1>2. b.cur \in Int /\ b.cur # NULL /\ b.avail \in Int /\ b.avail >= 1 /\ b.avail <= PageUnits
  BY <1>1, PageFacts, OffsetFacts DEF NULL
<1>3. b # NoBlock
  BY <1>2 DEF NoBlock
<1> DEFINE s == b.cur
           d == Delta(s, align)
<1>4. d \in Int /\ 0 <= d /\ d < align
  <2> HIDE DEF s
  <2>1. s \in Int
    BY <1>2 DEF s
  <2> QED
    BY <2>1, DeltaFacts
<1> HIDE DEF d
<1>5. /\ b.avail - (units + d) \in Int
      /\ b.avail >= units + d <=> b.avail - (units + d) >= 0
  BY <1>2, <1>4
<1> QED
  BY <1>2, <1>3, <1>4, <1>5 DEF Rest, Fits, d

\* One block more: a block replaces another only if its rest is less than the
\* other's rest plus its padding, which is at most one unit.
LEMMA ImproveStep ==
    ASSUME NEW blocks \in Seq(FreeBlocks), NEW units \in Int, units >= 1, NEW align \in Nat \ {0},
           NEW n \in Nat, n + 1 <= Len(blocks), NEW best, BestOf(best, blocks, units, align, n)
    PROVE  BestOf(Improve(best, blocks[n + 1], units, align), blocks, units, align, n + 1)
<1> DEFINE b == blocks[n + 1]
           R(x) == Rest(x, units, align)
           D(x) == Delta(x.cur, align)
           new == Improve(best, b, units, align)
           Takes == Fits(b, units, align) /\ (R(b) = 0 \/ R(b) < best.block_size - best.object_size)
<1>1. Len(blocks) \in Nat /\ \A i \in 1 .. n + 1 : blocks[i] \in FreeBlocks
  <2>1. Len(blocks) \in Nat /\ \A i \in 1 .. Len(blocks) : blocks[i] \in FreeBlocks
    OBVIOUS
  <2> QED
    BY <2>1
<1>2. n + 1 \in 1 .. n + 1 /\ 1 .. n + 1 = (1 .. n) \cup {n + 1}
  OBVIOUS
<1>3. \A i \in 1 .. n + 1 :
         /\ blocks[i] # NoBlock /\ blocks[i].avail \in Int /\ blocks[i].avail <= PageUnits
         /\ D(blocks[i]) \in Int /\ 0 <= D(blocks[i]) /\ D(blocks[i]) < align
         /\ R(blocks[i]) \in Int /\ R(blocks[i]) = blocks[i].avail - (units + D(blocks[i]))
         /\ Fits(blocks[i], units, align) <=> R(blocks[i]) >= 0
  BY <1>1, BlockFacts
<1>4. /\ Takes => new = [blk |-> b, block_size |-> b.avail, object_size |-> units]
      /\ ~Takes => new = best
  BY DEF Improve
<1>5. PageUnits \in Int /\ PageBytes = 2 * PageUnits /\ PageUnits > 1 /\ align \in Int
  BY PageFacts
<1> HIDE DEF b, R, D, new
<1>6. ASSUME best = NoBest(units), \A i \in 1 .. n : ~Noticed(blocks[i], units, align)
      PROVE  BestOf(new, blocks, units, align, n + 1)
  <2> DEFINE z == slobidx_t(PageBytes + 1)
  <2>1. best.block_size = z /\ best.object_size = units /\ best.blk = NoBlock
    BY <1>6 DEF NoBest
  <2>2. Takes <=> Noticed(b, units, align)
    <3>1. /\ b.avail \in Int /\ b.avail <= PageUnits /\ D(b) \in Int /\ 0 <= D(b)
          /\ R(b) = b.avail - (units + D(b)) /\ R(b) \in Int
          /\ Fits(b, units, align) <=> R(b) >= 0
      BY <1>2, <1>3 DEF b
    <3>2. R(b) < (PageBytes + 1) - units
      BY <1>5, <3>1
    <3>3. z \in Int /\ (BlockSizeFits => z = PageBytes + 1) /\ (~BlockSizeFits => z < 0)
      BY WidthFacts
    <3>4. Noticed(b, units, align) <=> R(b) >= 0 /\ (BlockSizeFits \/ R(b) = 0)
      BY <3>1 DEF Noticed, R
    <3>5. Takes <=> R(b) >= 0 /\ (R(b) = 0 \/ R(b) < z - units)
      BY <2>1, <3>1
    <3> HIDE DEF z, Takes
    <3>6. CASE BlockSizeFits
      BY <3>2, <3>3, <3>4, <3>5, <3>6
    <3>7. CASE ~BlockSizeFits
      <4>1. ~(R(b) >= 0 /\ R(b) < z - units)
        BY <3>1, <3>3, <3>7
      <4> QED
        BY <3>4, <3>5, <3>7, <4>1
    <3> QED
      BY <3>6, <3>7
  <2>3. CASE Takes
    <3>1. new = [blk |-> b, block_size |-> b.avail, object_size |-> units] /\ new.blk = b
      BY <1>4, <2>3
    <3>2. \A i \in 1 .. n + 1 : Fits(blocks[i], units, align) => R(b) <= R(blocks[i])
      <4>1. R(b) \in Int /\ \A i \in 1 .. n + 1 : R(blocks[i]) \in Int
        BY <1>2, <1>3 DEF b
      <4>2. CASE BlockSizeFits
        <5>1. \A i \in 1 .. n + 1 : Fits(blocks[i], units, align) => blocks[i] = b
          BY <1>2, <1>6, <4>2 DEF b, Noticed
        <5> QED
          BY <4>1, <5>1
      <4>3. CASE ~BlockSizeFits
        <5>1. R(b) = 0
          BY <2>2, <2>3, <4>3 DEF Noticed, R
        <5> QED
          BY <1>3, <4>1, <5>1
      <4> QED
        BY <4>2, <4>3
    <3>3. \E i \in 1 .. n + 1 : /\ Fits(blocks[i], units, align)
             /\ new = [blk |-> blocks[i], block_size |-> blocks[i].avail, object_size |-> units]
      BY <1>2, <2>3, <3>1 DEF b
    <3>4. \E i \in 1 .. n + 1 : Noticed(blocks[i], units, align)
      BY <1>2, <2>2, <2>3 DEF b
    <3> HIDE DEF Takes
    <3> QED
      BY <3>1, <3>2, <3>3, <3>4 DEF BestOf, R
  <2>4. CASE ~Takes
    <3>1. new = best
      BY <1>4, <2>4
    <3>2. \A i \in 1 .. n + 1 : ~Noticed(blocks[i], units, align)
      BY <1>2, <1>6, <2>2, <2>4 DEF b
    <3> QED
      BY <1>6, <2>1, <3>1, <3>2 DEF BestOf
  <2> QED
    BY <2>3, <2>4
<1>7. ASSUME NEW k \in 1 .. n, Fits(blocks[k], units, align),
             \E i \in 1 .. n : Noticed(blocks[i], units, align),
             best = [blk |-> blocks[k], block_size |-> blocks[k].avail, object_size |-> units]
      PROVE  BestOf(new, blocks, units, align, n + 1)
  <2> DEFINE a == blocks[k]
  <2>1. /\ a \in FreeBlocks /\ a # NoBlock /\ a.avail \in Int /\ D(a) \in Int /\ 0 <= D(a)
        /\ D(a) < align /\ R(a) \in Int /\ R(a) = a.avail - (units + D(a)) /\ R(a) >= 0
    BY <1>1, <1>2, <1>3, <1>7
  <2>2. b # NoBlock /\ R(b) \in Int
    BY <1>2, <1>3 DEF b
  <2>3. best.blk = a /\ best.block_size - best.object_size = R(a) + D(a)
    <3>1. best.blk = a /\ best.block_size = a.avail /\ best.object_size = units
      BY <1>7
    <3>2. a.avail - units = R(a) + D(a)
      <4> HIDE DEF a
      <4> QED  BY <2>1
    <3> QED
      BY <3>1, <3>2
  <2>4. align <= 2 => \A i \in 1 .. n : Fits(blocks[i], units, align) => R(a) <= R(blocks[i])
    BY <2>1, <2>3 DEF BestOf, R
  <2>7. \E i \in 1 .. n + 1 : Noticed(blocks[i], units, align)
    BY <1>2, <1>7
  <2> HIDE DEF a
  <2>5. CASE Takes
    <3>1. new = [blk |-> b, block_size |-> b.avail, object_size |-> units] /\ new.blk = b
      BY <1>4, <2>5
    <3>2. align <= 2 => R(b) = 0 \/ R(b) <= R(a)
      BY <1>5, <2>1, <2>2, <2>3, <2>5
    <3>3. ASSUME align <= 2, NEW i \in 1 .. n + 1, Fits(blocks[i], units, align)
          PROVE  R(b) <= R(blocks[i])
      <4>1. R(blocks[i]) \in Int /\ R(blocks[i]) >= 0
        BY <1>3, <3>3
      <4>2. CASE i = n + 1
        BY <2>2, <4>2 DEF b
      <4>3. CASE i \in 1 .. n
        BY <2>1, <2>2, <2>4, <3>2, <3>3, <4>1, <4>3
      <4> QED
        BY <1>2, <4>2, <4>3
    <3>4. \E i \in 1 .. n + 1 : /\ Fits(blocks[i], units, align)
             /\ new = [blk |-> blocks[i], block_size |-> blocks[i].avail, object_size |-> units]
      BY <1>2, <2>5, <3>1 DEF b
    <3> QED
      BY <2>7, <3>1, <3>3, <3>4 DEF BestOf, R
  <2>6. CASE ~Takes
    <3>1. new = best
      BY <1>4, <2>6
    <3>2. ASSUME align <= 2, NEW i \in 1 .. n + 1, Fits(blocks[i], units, align)
          PROVE  R(a) <= R(blocks[i])
      <4>1. CASE i = n + 1
        <5>1. Fits(b, units, align)
          BY <3>2, <4>1 DEF b
        <5>2. R(b) >= R(a) + D(a)
          BY <2>1, <2>2, <2>3, <2>6, <5>1
        <5> QED
          BY <2>1, <2>2, <4>1, <5>2 DEF b
      <4>2. CASE i \in 1 .. n
        BY <2>4, <3>2, <4>2
      <4> QED
        BY <1>2, <4>1, <4>2
    <3>3. k \in 1 .. n + 1
      BY <1>2
    <3>4. \E i \in 1 .. n + 1 : /\ Fits(blocks[i], units, align)
             /\ new = [blk |-> blocks[i], block_size |-> blocks[i].avail, object_size |-> units]
      BY <1>7, <3>1, <3>3
    <3> QED
      BY <2>3, <2>7, <3>1, <3>2, <3>4 DEF BestOf, R
  <2> QED
    BY <2>5, <2>6
<1>8. BestOf(new, blocks, units, align, n + 1)
  <2>1. \/ best = NoBest(units) /\ \A i \in 1 .. n : ~Noticed(blocks[i], units, align)
        \/ /\ \E i \in 1 .. n : Noticed(blocks[i], units, align)
           /\ \E i \in 1 .. n : /\ Fits(blocks[i], units, align)
                /\ best = [blk |-> blocks[i], block_size |-> blocks[i].avail, object_size |-> units]
    BY DEF BestOf
  <2> QED
    BY <1>6, <1>7, <2>1
<1> QED
  BY <1>8 DEF new, b

\* The whole search.
LEMMA SearchBest ==
    ASSUME NEW blocks \in Seq(FreeBlocks), NEW units \in Int, units >= 1, NEW align \in Nat \ {0}
    PROVE  BestOf(Search(blocks, units, align), blocks, units, align, Len(blocks))
<1> DEFINE L == Len(blocks)
           B == [blk : FreeBlocks \cup {NoBlock}, block_size : Int, object_size : Int]
           step(f, n) == IF n = 0 THEN NoBest(units)
                         ELSE Improve(f[n - 1], blocks[n], units, align)
           P(f) == f = [n \in 0 .. L |-> step(f, n)]
           g == [i \in Nat |-> [x \in B |->
                    IF i + 1 \in 1 .. L THEN Improve(x, blocks[i + 1], units, align) ELSE x]]
<1>1. L \in Nat /\ \A i \in 1 .. L : blocks[i] \in FreeBlocks
  OBVIOUS
<1>2. NoBest(units) \in B
  BY WidthFacts DEF NoBest
<1>3. g \in [Nat -> [B -> B]]
  <2>1. ASSUME NEW i \in Nat, NEW x \in B, i + 1 \in 1 .. L
        PROVE  Improve(x, blocks[i + 1], units, align) \in B
    <3>1. blocks[i + 1] \in FreeBlocks
      BY <1>1, <2>1
    <3>2. blocks[i + 1].avail \in Int
      BY <3>1, BlockFacts
    <3> QED
      BY <3>1, <3>2 DEF Improve
  <2> HIDE DEF B
  <2> QED
    BY <2>1
<1>4. PICK h : Solves(h, B, NoBest(units), g)
  <2> HIDE DEF B, g
  <2> QED
    BY <1>2, <1>3, RecursionExists
<1>5. /\ h \in [Nat -> B] /\ h[0] = NoBest(units)
      /\ \A i \in Nat : i + 1 \in 1 .. L => h[i + 1] = Improve(h[i], blocks[i + 1], units, align)
  <2> HIDE DEF B
  <2> QED
    BY <1>4 DEF Solves
<1> DEFINE f == [n \in 0 .. L |-> h[n]]
<1>6. \A n \in 0 .. L : f[n] = step(f, n)
  <2> SUFFICES ASSUME NEW n \in 0 .. L PROVE f[n] = step(f, n)
    OBVIOUS
  <2>1. CASE n = 0
    BY <1>5, <2>1
  <2>2. CASE n # 0
    <3>1. n - 1 \in Nat /\ (n - 1) + 1 = n /\ n - 1 \in 0 .. L /\ n \in 1 .. L
      BY <1>1, <2>2
    <3>2. h[n] = Improve(h[n - 1], blocks[n], units, align)
      BY <1>5, <3>1
    <3> QED
      BY <2>2, <3>1, <3>2
  <2> QED
    BY <2>1, <2>2
<1> DEFINE c == CHOOSE z : P(z)
<1>7. P(c)
  <2>1. P(f)
    BY <1>6
  <2> HIDE DEF P, f
  <2> QED
    BY <2>1
<1>8. Search(blocks, units, align) = c[L]
  BY DEF Search
<1>9. \A n \in 0 .. L : c[n] = step(c, n)
  <2> HIDE DEF c, step
  <2> QED
    BY <1>7
<1> HIDE DEF c
<1> DEFINE Right(n) == BestOf(c[n], blocks, units, align, n)
           Wrong == {n \in 0 .. L : ~Right(n)}
<1>10. Wrong = {}
  <2> SUFFICES ASSUME Wrong # {} PROVE FALSE
    OBVIOUS
  <2>1. Wrong \in SUBSET Nat
    OBVIOUS
  <2>2. PICK n \in Wrong : \A l \in Wrong : n <= l
    <3> HIDE DEF Wrong
    <3> QED  BY <2>1, MinNat
  <2>3. n \in 0 .. L /\ ~Right(n)
    BY <2>2
  <2>4. CASE n = 0
    <3>1. c[n] = NoBest(units)
      BY <1>9, <2>3, <2>4
    <3>2. 1 .. n = {}
      BY <2>4
    <3>3. BestOf(c[n], blocks, units, align, n)
      BY <3>1, <3>2 DEF BestOf
    <3> QED
      BY <2>3, <3>3
  <2>5. CASE n # 0
    <3>1. n - 1 \in 0 .. L /\ ~(n <= n - 1) /\ n - 1 \in Nat /\ (n - 1) + 1 = n /\ n <= L
      BY <1>1, <2>3, <2>5
    <3>2. Right(n - 1)
      <4> HIDE DEF Right
      <4>1. n - 1 \notin Wrong
        <5> HIDE DEF Wrong
        <5> QED  BY <2>2, <3>1
      <4> QED
        BY <3>1, <4>1
    <3>3. c[n] = Improve(c[n - 1], blocks[n], units, align)
      BY <1>9, <2>3, <2>5
    <3>4. PICK m \in Nat : m = n - 1
      BY <3>1
    <3>5. BestOf(c[m], blocks, units, align, m) /\ m + 1 = n /\ m + 1 <= L
      BY <3>1, <3>2, <3>4
    <3>6. BestOf(Improve(c[m], blocks[m + 1], units, align), blocks, units, align, m + 1)
      BY <3>5, ImproveStep
    <3> QED
      BY <2>3, <3>3, <3>4, <3>5, <3>6
  <2> QED
    BY <2>4, <2>5
<1>11. Right(L)
  <2> HIDE DEF Right
  <2>1. L \in 0 .. L
    BY <1>1
  <2> QED
    BY <1>10, <2>1
<1> QED
  BY <1>8, <1>11

\* The search ends with a block that has room, or with none; with none exactly
\* if it noticed none.
LEMMA SearchFacts ==
    ASSUME NEW blocks \in Seq(FreeBlocks), NEW units \in Nat \ {0}, NEW align \in Nat \ {0}
    PROVE  LET found == Search(blocks, units, align).blk
           IN  \/ found = NoBlock /\ \A b \in ToSet(blocks) : ~Noticed(b, units, align)
               \/ /\ found \in ToSet(blocks) /\ Fits(found, units, align) /\ found # NoBlock
                  /\ \E b \in ToSet(blocks) : Noticed(b, units, align)
<1> DEFINE S == Search(blocks, units, align)
           L == Len(blocks)
<1>1. BestOf(S, blocks, units, align, L)
  BY SearchBest
<1> HIDE DEF S
<1>2. ToSet(blocks) = {blocks[i] : i \in 1 .. L} /\ \A i \in 1 .. L : blocks[i] \in FreeBlocks
  BY DEF ToSet
<1>3. \A i \in 1 .. L : blocks[i] # NoBlock
  <2>1. units \in Int
    OBVIOUS
  <2> HIDE DEF L
  <2> QED
    BY <1>2, <2>1, BlockFacts
<1> HIDE DEF L
<1>4. CASE S = NoBest(units) /\ \A i \in 1 .. L : ~Noticed(blocks[i], units, align)
  <2>1. S.blk = NoBlock
    BY <1>4 DEF NoBest
  <2> QED
    BY <1>2, <1>4, <2>1 DEF S
<1>5. CASE /\ \E i \in 1 .. L : Noticed(blocks[i], units, align)
           /\ \E i \in 1 .. L : /\ Fits(blocks[i], units, align)
                /\ S = [blk |-> blocks[i], block_size |-> blocks[i].avail, object_size |-> units]
  <2>1. PICK i \in 1 .. L : /\ Fits(blocks[i], units, align)
           /\ S = [blk |-> blocks[i], block_size |-> blocks[i].avail, object_size |-> units]
    BY <1>5
  <2>2. S.blk = blocks[i]
    BY <2>1
  <2>3. S.blk \in ToSet(blocks) /\ Fits(S.blk, units, align) /\ S.blk # NoBlock
    BY <1>2, <1>3, <2>1, <2>2
  <2>4. \E b \in ToSet(blocks) : Noticed(b, units, align)
    BY <1>2, <1>5
  <2> QED
    BY <2>3, <2>4 DEF S
<1> QED
  BY <1>1, <1>4, <1>5 DEF BestOf

\* With pages on which PAGE_SIZE + 1 fits best.block_size (up to 16K) the
\* search of slob_alloc finds a block with room exactly if the blocks it visits
\* include one, for every list of free blocks, object and alignment: no page is
\* taken while one on the list has room, and no object is cut from a block that
\* is too small.
THEOREM SearchFinds ==
    ASSUME BlockSizeFits,
           NEW blocks \in Seq(FreeBlocks), NEW units \in Nat \ {0}, NEW align \in Nat \ {0}
    PROVE  LET found   == Search(blocks, units, align).blk
               fitting == {b \in ToSet(blocks) : Fits(b, units, align)}
           IN  IF fitting = {} THEN found = NoBlock ELSE found \in fitting
<1> DEFINE found == Search(blocks, units, align).blk
<1>1. \/ found = NoBlock /\ \A b \in ToSet(blocks) : ~Noticed(b, units, align)
      \/ found \in ToSet(blocks) /\ Fits(found, units, align)
  BY SearchFacts
<1> HIDE DEF found
<1>2. \A b \in ToSet(blocks) : Noticed(b, units, align) <=> Fits(b, units, align)
  BY DEF Noticed
<1>3. LET fitting == {b \in ToSet(blocks) : Fits(b, units, align)}
      IN  IF fitting = {} THEN found = NoBlock ELSE found \in fitting
  BY <1>1, <1>2
<1> QED
  BY <1>3 DEF found

\* With pages of 32K, where PAGE_SIZE + 1 wraps to a negative best.block_size
\* (mm/slob.c:131, 426), the search overlooks every block that is not an exact
\* fit, whatever its size: slob_alloc then takes a page for nearly every object.
THEOREM WideSearchMisses ==
    ASSUME ~BlockSizeFits,
           NEW blocks \in Seq(FreeBlocks), NEW units \in Nat \ {0}, NEW align \in Nat \ {0},
           \A b \in ToSet(blocks) : Fits(b, units, align) => Rest(b, units, align) # 0
    PROVE  Search(blocks, units, align).blk = NoBlock
<1>1. \A b \in ToSet(blocks) : ~Noticed(b, units, align)
  BY DEF Noticed
<1> QED
  BY <1>1, SearchFacts

\* For alignments of one and two units (the 4 bytes of kmalloc on a 32-bit
\* machine) the block that find_best_fit_block ends with, if any, leaves least
\* behind the object, although it compares a rest with a rest plus padding:
\* with these the team's comparison really is best fit, on pages of every size.
THEOREM SearchIsBestFit ==
    ASSUME NEW blocks \in Seq(FreeBlocks), NEW units \in Nat \ {0}, NEW align \in 1 .. 2,
           Search(blocks, units, align).blk # NoBlock,
           NEW b \in ToSet(blocks), Fits(b, units, align)
    PROVE  Rest(Search(blocks, units, align).blk, units, align) <= Rest(b, units, align)
<1> DEFINE S == Search(blocks, units, align)
           L == Len(blocks)
<1>1. BestOf(S, blocks, units, align, L) /\ align <= 2 /\ align \in Nat \ {0}
  BY SearchBest
<1>2. PICK i \in 1 .. L : blocks[i] = b
  BY DEF ToSet
<1> HIDE DEF S
<1>3. S.blk # NoBlock
  BY DEF S
<1>4. Rest(S.blk, units, align) <= Rest(b, units, align)
  BY <1>1, <1>2, <1>3 DEF BestOf
<1> QED
  BY <1>4 DEF S

-----------------------------------------------------------------------------
(* Lists of pages *)

\* A page leaves the list.
LEMMA DelFacts ==
    ASSUME NEW S, NEW l \in Seq(S), Once(l), NEW p \in Range(l)
    PROVE  list_del(l, p) \in Seq(S) /\ Once(list_del(l, p)) /\ Range(list_del(l, p)) = Range(l) \ {p}
<1> DEFINE I == {j \in 1 .. Len(l) : l[j] = p}
           i == SelectInSeq(l, LAMBDA q : q = p)
<1>1. Len(l) \in Nat /\ \E j \in 1 .. Len(l) : l[j] = p
  BY ListFacts
<1>2. I # {} /\ I \in SUBSET Nat
  BY <1>1
<1>3. i = Min(I)
  BY <1>2 DEF SelectInSeq
<1>4. \E j \in I : \A y \in I : j <= y
  BY <1>2, MinNat
<1>5. i \in I
  <2> HIDE DEF I, i
  <2> QED
    BY <1>3, <1>4 DEF Min
<1>6. i \in 1 .. Len(l) /\ l[i] = p
  BY <1>5
<1> HIDE DEF i
<1>7. /\ RemoveAt(l, i) \in Seq(S)
      /\ \A x, y : Prec(RemoveAt(l, i), x, y) => Prec(l, x, y)
      /\ Range(RemoveAt(l, i)) = Range(l) \ {l[i]}
  BY <1>6, RemoveOrder
<1>8. list_del(l, p) = RemoveAt(l, i)
  BY DEF list_del, i
<1> QED
  BY <1>6, <1>7, <1>8 DEF Once

\* A page joins the list at its head.
LEMMA ConsFacts ==
    ASSUME NEW S, NEW l \in Seq(S), Once(l), NEW p \in S, p \notin Range(l)
    PROVE  Cons(p, l) \in Seq(S) /\ Once(Cons(p, l)) /\ Range(Cons(p, l)) = Range(l) \cup {p}
<1>1. /\ <<p>> \o l \in Seq(S) /\ Range(<<p>> \o l) = Range(l) \cup {p}
      /\ \A x, y : Prec(<<p>> \o l, x, y) <=> Prec(l, x, y) \/ (x = p /\ y \in Range(l))
  BY FrontOrder
<1> QED
  BY <1>1 DEF Cons, Once

-----------------------------------------------------------------------------
(* The inductive invariant *)

Kinds == {"kmalloc", "object", "rcu", "struct"}

\* A request as a caller of slob_alloc makes it.
RqOK(rq) ==
    /\ rq \in [kind : Kinds, cache : Caches \cup {NoCache}, size : Nat \ {0}, align : Nat,
               big : BOOLEAN]
    /\ rq.align >= SLOB_UNIT
    /\ ~rq.big => rq.size < PageBytes
    /\ rq.kind \in {"object", "rcu"} => (rq.big <=> rq.size >= PageBytes)
    /\ rq.kind = "struct" => ~rq.big

\* A small object lies in one page, on its alignment.
ObjOK(o) ==
    /\ o \in [kind : Kinds, cache : Caches \cup {NoCache}, size : Nat \ {0}, align : Nat,
              big : BOOLEAN, pages : SUBSET Pages, at : Nat]
    /\ RqOK(Request(o.kind, o.cache, o.size, o.align, o.big))
    /\ o.pages # {}
    /\ ~o.big => /\ \E p \in Pages : o.pages = {p}
                 /\ o.at + SLOB_UNITS(o.size) <= PageUnits
                 /\ o.at % (o.align \div SLOB_UNIT) = 0

\* What a thread holds while it takes or returns a page.
PcOK(c) ==
    /\ c.at \in {"idle", "new", "count", "init", "drop", "uncount", "walk"}
    /\ c.at \in {"new", "count", "init"} => RqOK(c.rq)
    /\ c.at \in {"count", "init", "drop", "uncount"} => c.pages \in SUBSET Pages /\ c.pages # {}
    /\ c.at = "count" /\ ~c.rq.big => \E p \in Pages : c.pages = {p}
    /\ c.at = "init" => ~c.rq.big /\ \E p \in Pages : c.pages = {p}
    /\ c.at \in {"drop", "uncount"} => \E p \in Pages : c.pages = {p}
    /\ c.at \in {"count", "uncount"} => c.old \in Int
    /\ c.at = "walk" => c = [at |-> "walk", sum |-> c.sum, next |-> c.next]

\* The objects of O in page p of the heap; the units of the page that are free;
\* the pages of the heap.
Here(O, p) == {o \in O : ~o.big /\ p \in o.pages}
FreeOf(O, p) == Offsets \ UNION {UnitsOf(o) : o \in Here(O, p)}
HeapOf(O) == {p \in Pages : Here(O, p) # {}}

\* Objects of the heap do not overlap.
Apart(O) == \A p \in Pages : \A o, x \in Here(O, p) : o # x => UnitsOf(o) \cap UnitsOf(x) = {}

\* struct slob_page as TypeOK has it.
PageState == [units : 0 .. PageUnits, free : 0 .. PageUnits,
              words : [Offsets -> -PageUnits .. PageUnits]]

\* The heap with pages in the states S, objects O and the list L is sound.
HeapOK(S, L, O) ==
    /\ S \in [Pages -> PageState]
    /\ \A o \in O : ObjOK(o)
    /\ Apart(O)
    /\ \A p \in HeapOf(O) : Exact(S[p], FreeOf(O, p))
    /\ L \in Seq(Pages) /\ Once(L)
    /\ Range(L) = {p \in HeapOf(O) : S[p].units > 0}

\* What SLOB_UNITS makes of a size.
LEMMA UnitsFacts ==
    ASSUME NEW size \in Nat \ {0}
    PROVE  /\ SLOB_UNITS(size) \in Int /\ SLOB_UNITS(size) >= 1
           /\ size < PageBytes => SLOB_UNITS(size) <= PageUnits
<1>1. PageUnits \in Int /\ PageBytes = 2 * PageUnits
  BY PageFacts
<1>2. SLOB_UNITS(size) = (size + 1) \div 2
  BY DEF SLOB_UNITS, SLOB_UNIT
<1>3. (size + 1) \div 2 \in Int /\ (size + 1) \div 2 >= 1
  OBVIOUS
<1>4. size < 2 * PageUnits => (size + 1) \div 2 <= PageUnits
  BY <1>1
<1> QED
  BY <1>1, <1>2, <1>3, <1>4

\* An alignment in bytes is one in units.
LEMMA AlignFacts ==
    ASSUME NEW align \in Nat, align >= SLOB_UNIT
    PROVE  align \div SLOB_UNIT \in Nat \ {0}
BY DEF SLOB_UNIT

\* The units of a small object.
LEMMA ObjFacts ==
    ASSUME NEW o, ObjOK(o), ~o.big
    PROVE  LET k == SLOB_UNITS(o.size)
           IN  /\ o.at \in Offsets /\ o.at \in Int /\ k \in Int /\ k >= 1 /\ o.at + k <= PageUnits
               /\ UnitsOf(o) = o.at .. o.at + k - 1 /\ o.at \in UnitsOf(o)
               /\ UnitsOf(o) \subseteq Offsets
               /\ \E p \in Pages : o.pages = {p}
<1> DEFINE k == SLOB_UNITS(o.size)
<1>1. /\ o.at \in Int /\ 0 <= o.at /\ o.at + k <= PageUnits /\ o.size \in Nat \ {0}
      /\ \E p \in Pages : o.pages = {p}
  BY DEF ObjOK
<1>2. k \in Int /\ k >= 1
  BY <1>1, UnitsFacts
<1> HIDE DEF k
<1>3. /\ o.at \in Offsets /\ o.at .. o.at + k - 1 \subseteq Offsets
      /\ o.at \in o.at .. o.at + k - 1
  BY <1>1, <1>2, PageFacts, OffsetFacts
<1> QED
  BY <1>1, <1>2, <1>3 DEF UnitsOf, k

\* N are the objects O and one more, o, in page p.
Added(O, N, o, p) ==
    /\ Apart(N)
    /\ HeapOf(N) = HeapOf(O) \cup {p}
    /\ FreeOf(N, p) = FreeOf(O, p) \ UnitsOf(o)
    /\ \A x \in Pages : x # p => FreeOf(N, x) = FreeOf(O, x)

\* An object is cut out of free units of page p.
LEMMA AddObject ==
    ASSUME NEW O, \A x \in O : ObjOK(x), Apart(O),
           NEW o, ObjOK(o), ~o.big, NEW p \in Pages, o.pages = {p}, UnitsOf(o) \subseteq FreeOf(O, p)
    PROVE  Added(O, O \cup {o}, o, p)
<1> DEFINE N == O \cup {o}
<1>1. Here(N, p) = Here(O, p) \cup {o}
  BY DEF Here
<1>2. \A x \in Pages : x # p => Here(N, x) = Here(O, x)
  BY DEF Here
<1> HIDE DEF N
<1>3. FreeOf(N, p) = FreeOf(O, p) \ UnitsOf(o)
  BY <1>1 DEF FreeOf
<1>4. \A x \in Here(O, p) : UnitsOf(x) \cap UnitsOf(o) = {}
  BY DEF FreeOf
<1>5. Apart(N)
  <2> SUFFICES ASSUME NEW x \in Pages, NEW y \in Here(N, x), NEW z \in Here(N, x), y # z
               PROVE  UnitsOf(y) \cap UnitsOf(z) = {}
    BY DEF Apart
  <2>1. CASE x = p
    <3>1. CASE y = o
      BY <1>1, <1>4, <2>1, <3>1
    <3>2. CASE z = o
      BY <1>1, <1>4, <2>1, <3>2
    <3>3. CASE y # o /\ z # o
      BY <1>1, <2>1, <3>3 DEF Apart
    <3> QED
      BY <3>1, <3>2, <3>3
  <2>2. CASE x # p
    BY <1>2, <2>2 DEF Apart
  <2> QED
    BY <2>1, <2>2
<1>6. HeapOf(N) = HeapOf(O) \cup {p}
  BY <1>1, <1>2 DEF HeapOf
<1>7. \A x \in Pages : x # p => FreeOf(N, x) = FreeOf(O, x)
  BY <1>2 DEF FreeOf
<1>8. Added(O, N, o, p)
  BY <1>3, <1>5, <1>6, <1>7 DEF Added
<1> QED
  BY <1>8 DEF N

\* N are the objects O without o, which lies in page p.
Dropped(O, N, o, p) ==
    /\ Apart(N)
    /\ UnitsOf(o) \cap FreeOf(O, p) = {} /\ UnitsOf(o) \subseteq Offsets
    /\ FreeOf(N, p) = FreeOf(O, p) \cup UnitsOf(o)
    /\ p \in HeapOf(O) /\ (p \in HeapOf(N) <=> FreeOf(N, p) # Offsets)
    /\ \A x \in Pages : x # p =>
          (x \in HeapOf(N) <=> x \in HeapOf(O)) /\ FreeOf(N, x) = FreeOf(O, x)

\* The object o of page p is freed.
LEMMA DropObject ==
    ASSUME NEW O, \A x \in O : ObjOK(x), Apart(O),
           NEW o \in O, ~o.big, NEW p \in Pages, o.pages = {p}
    PROVE  Dropped(O, O \ {o}, o, p)
<1> DEFINE N == O \ {o}
<1>1. Here(N, p) = Here(O, p) \ {o} /\ o \in Here(O, p)
  BY DEF Here
<1>2. \A x \in Pages : x # p => Here(N, x) = Here(O, x)
  BY DEF Here
<1>3. Here(O, p) \subseteq O /\ \A x \in Here(O, p) : ~x.big
  BY DEF Here
<1> HIDE DEF N
<1>4. ObjOK(o) /\ UnitsOf(o) \subseteq Offsets
  BY ObjFacts
<1>5. \A x \in Here(O, p) : x # o => UnitsOf(x) \cap UnitsOf(o) = {}
  BY <1>1 DEF Apart
<1>6. UnitsOf(o) \cap FreeOf(O, p) = {}
  BY <1>1 DEF FreeOf
<1>7. FreeOf(N, p) = FreeOf(O, p) \cup UnitsOf(o)
  <2>1. ASSUME NEW i PROVE i \in FreeOf(N, p) <=> i \in FreeOf(O, p) \cup UnitsOf(o)
    BY <1>1, <1>4, <1>5 DEF FreeOf
  <2> QED
    BY <2>1
<1>8. Apart(N)
  <2> SUFFICES ASSUME NEW x \in Pages, NEW y \in Here(N, x), NEW z \in Here(N, x), y # z
               PROVE  UnitsOf(y) \cap UnitsOf(z) = {}
    BY DEF Apart
  <2>1. y \in Here(O, x) /\ z \in Here(O, x)
    BY <1>1, <1>2
  <2> QED
    BY <2>1 DEF Apart
<1>9. p \in HeapOf(O)
  BY <1>1 DEF HeapOf
<1>10. p \in HeapOf(N) <=> FreeOf(N, p) # Offsets
  <2>1. ASSUME NEW x \in Here(N, p) PROVE FreeOf(N, p) # Offsets
    <3>1. x \in O /\ ~x.big
      BY <1>1, <1>3
    <3>2. ObjOK(x)
      BY <3>1
    <3>3. x.at \in UnitsOf(x) /\ x.at \in Offsets
      BY <3>1, <3>2, ObjFacts
    <3> QED
      BY <3>3 DEF FreeOf
  <2>2. ASSUME Here(N, p) = {} PROVE FreeOf(N, p) = Offsets
    BY <2>2 DEF FreeOf
  <2> QED
    BY <2>1, <2>2 DEF HeapOf
<1>11. \A x \in Pages : x # p => (x \in HeapOf(N) <=> x \in HeapOf(O)) /\ FreeOf(N, x) = FreeOf(O, x)
  BY <1>2 DEF FreeOf, HeapOf
<1>12. Dropped(O, N, o, p)
  BY <1>4, <1>6, <1>7, <1>8, <1>9, <1>10, <1>11 DEF Dropped
<1> QED
  BY <1>12 DEF N

\* Objects change, but not what the heap sees of the small ones.
SameHeap(O, N) == \A p \in Pages :
    /\ \A o \in Here(O, p) : \E x \in Here(N, p) : UnitsOf(x) = UnitsOf(o)
    /\ \A x \in Here(N, p) : \E o \in Here(O, p) : UnitsOf(x) = UnitsOf(o)

LEMMA SameHeapFacts ==
    ASSUME NEW O, NEW N, SameHeap(O, N)
    PROVE  HeapOf(N) = HeapOf(O) /\ \A p \in Pages : FreeOf(N, p) = FreeOf(O, p)
<1>1. HeapOf(N) = HeapOf(O)
  BY DEF HeapOf, SameHeap
<1>2. ASSUME NEW p \in Pages PROVE FreeOf(N, p) = FreeOf(O, p)
  <2>1. \A i : i \in UNION {UnitsOf(o) : o \in Here(N, p)} <=>
               i \in UNION {UnitsOf(o) : o \in Here(O, p)}
    BY DEF SameHeap
  <2> QED
    BY <2>1 DEF FreeOf
<1> QED
  BY <1>1, <1>2

-----------------------------------------------------------------------------
(* Requests and the search of the list *)

\* Alignments are compared with this.
LEMMA LargestFacts ==
    ASSUME NEW x \in Nat, NEW y \in Nat, NEW z \in Nat
    PROVE  LET m == Largest({x, y, z}) IN m \in Nat /\ m >= x /\ m >= y /\ m >= z
<1> DEFINE S == {x, y, z}
<1>1. \E m \in S : \A n \in S : n <= m
  <2>1. CASE x >= y /\ x >= z
    BY <2>1
  <2>2. CASE y >= x /\ y >= z
    BY <2>2
  <2>3. CASE z >= x /\ z >= y
    BY <2>3
  <2> QED
    BY <2>1, <2>2, <2>3
<1>2. Largest(S) \in S /\ \A n \in S : n <= Largest(S)
  BY <1>1 DEF Largest
<1> QED
  BY <1>2

\* Callers ask for what slob_alloc can serve: a small object with its header
\* is smaller than a page, and is aligned to units.
LEMMA RequestsOK == \A rq \in Requests : RqOK(rq)
<1> SUFFICES ASSUME NEW rq \in Requests PROVE RqOK(rq)
  OBVIOUS
<1>1. /\ PageBytes \in Int /\ MinAlign \in Nat /\ MinAlign >= SLOB_UNIT /\ SLOB_UNIT = 2
      /\ StructBytes \in 1 .. PageBytes - 1 /\ KmallocSizes \subseteq Nat \ {0}
      /\ RcuBytes \in Nat /\ SLOB_ALIGN \in Nat
      /\ \A c \in Caches : CacheSpec[c] \in
            [size : Nat \ {0}, align : Nat, hwcache : BOOLEAN, rcu : BOOLEAN]
  BY SlobAssumption, PageFacts DEF SLOB_UNIT
<1>2. \/ \E n \in KmallocSizes : rq = __kmalloc_node(n)
      \/ \E c \in Caches : rq = kmem_cache_alloc_node(c)
      \/ \E c \in Caches : rq = kmem_cache_create(c)
  BY DEF Requests
<1>3. ASSUME NEW n \in KmallocSizes, rq = __kmalloc_node(n) PROVE RqOK(rq)
  <2>1. n \in Nat \ {0} /\ n + MinAlign \in Nat \ {0}
    <3>1. KmallocSizes \subseteq Nat \ {0} /\ MinAlign \in Nat
      BY <1>1
    <3>2. n \in Nat \ {0}
      BY <3>1
    <3> QED
      BY <3>1, <3>2
  <2>2. CASE n < PageBytes - MinAlign
    <3>1. rq = [kind |-> "kmalloc", cache |-> NoCache, size |-> n + MinAlign, align |-> MinAlign,
                big |-> FALSE]
      BY <1>3, <2>2 DEF __kmalloc_node, Request
    <3>2. n + MinAlign < PageBytes
      BY <1>1, <2>1, <2>2
    <3> QED
      BY <1>1, <2>1, <3>1, <3>2 DEF RqOK, Kinds
  <2>3. CASE ~(n < PageBytes - MinAlign)
    <3>1. rq = [kind |-> "kmalloc", cache |-> NoCache, size |-> n, align |-> MinAlign,
                big |-> TRUE]
      BY <1>3, <2>3 DEF __kmalloc_node, Request
    <3> QED
      BY <1>1, <2>1, <3>1 DEF RqOK, Kinds
  <2> QED
    BY <2>2, <2>3
<1>4. ASSUME NEW c \in Caches, rq = kmem_cache_alloc_node(c) PROVE RqOK(rq)
  <2>1. /\ CacheSpec[c].size \in Nat \ {0} /\ CacheSpec[c].align \in Nat
    BY <1>1
  <2>2. CacheSize(c) \in Nat \ {0}
    BY <1>1, <2>1 DEF CacheSize
  <2>3. CacheAlign(c) \in Nat /\ CacheAlign(c) >= MinAlign
    <3> DEFINE z == IF CacheSpec[c].hwcache THEN SLOB_ALIGN ELSE 0
    <3>1. z \in Nat
      BY <1>1
    <3> HIDE DEF z
    <3>2. LET m == Largest({MinAlign, CacheSpec[c].align, z}) IN m \in Nat /\ m >= MinAlign
      BY <1>1, <2>1, <3>1, LargestFacts
    <3> QED
      BY <3>2 DEF CacheAlign, z
  <2>4. rq = [kind |-> "object", cache |-> c, size |-> CacheSize(c), align |-> CacheAlign(c),
              big |-> CacheSize(c) >= PageBytes]
    BY <1>4 DEF kmem_cache_alloc_node, Request
  <2>5. CacheAlign(c) >= SLOB_UNIT
    BY <1>1, <2>3
  <2>6. (CacheSize(c) >= PageBytes) \in BOOLEAN /\ (~(CacheSize(c) >= PageBytes) => CacheSize(c) < PageBytes)
    BY <1>1, <2>2
  <2> QED
    BY <2>2, <2>3, <2>4, <2>5, <2>6 DEF RqOK, Kinds
<1>5. ASSUME NEW c \in Caches, rq = kmem_cache_create(c) PROVE RqOK(rq)
  <2>1. rq = [kind |-> "struct", cache |-> c, size |-> StructBytes, align |-> MinAlign,
              big |-> FALSE]
    BY <1>5 DEF kmem_cache_create, Request
  <2>2. StructBytes \in Nat \ {0} /\ StructBytes < PageBytes
    BY <1>1
  <2> QED
    BY <1>1, <2>1, <2>2 DEF RqOK, Kinds
<1> QED
  BY <1>2, <1>3, <1>4, <1>5

\* A request in units.
LEMMA RqFacts ==
    ASSUME NEW rq, RqOK(rq)
    PROVE  /\ SLOB_UNITS(rq.size) \in Int /\ SLOB_UNITS(rq.size) >= 1
           /\ SLOB_UNITS(rq.size) \in Nat \ {0}
           /\ ~rq.big => SLOB_UNITS(rq.size) <= PageUnits
           /\ rq.align \div SLOB_UNIT \in Nat \ {0}
<1>1. rq.size \in Nat \ {0} /\ rq.align \in Nat /\ rq.align >= SLOB_UNIT /\ (~rq.big => rq.size < PageBytes)
  BY DEF RqOK
<1>2. /\ SLOB_UNITS(rq.size) \in Int /\ SLOB_UNITS(rq.size) >= 1
      /\ rq.size < PageBytes => SLOB_UNITS(rq.size) <= PageUnits
  BY <1>1, UnitsFacts
<1> QED
  BY <1>1, <1>2, AlignFacts

\* The state of a page on the list is exact, and some of its units are free.
LEMMA ListedFacts ==
    ASSUME NEW S, NEW L, NEW O, HeapOK(S, L, O), NEW p \in Range(L)
    PROVE  /\ p \in Pages /\ p \in HeapOf(O) /\ FreeOf(O, p) \in SUBSET Offsets
           /\ Exact(S[p], FreeOf(O, p)) /\ FreeOf(O, p) # {}
<1>1. p \in HeapOf(O) /\ S[p].units > 0
  BY DEF HeapOK
<1>2. p \in Pages /\ FreeOf(O, p) \in SUBSET Offsets
  BY <1>1 DEF HeapOf, FreeOf
<1>3. Exact(S[p], FreeOf(O, p))
  BY <1>1 DEF HeapOK
<1>4. FreeOf(O, p) # {}
  BY <1>1, <1>2, <1>3, FiniteOffsets DEF Exact
<1> QED
  BY <1>1, <1>2, <1>3, <1>4

\* The search visits every free block that is large enough, and only free blocks
\* of pages on the list.
LEMMA CandidatesFacts ==
    ASSUME HeapOK(sp, list, objs), NEW units \in Int
    PROVE  /\ Candidates(units) \in Seq(FreeBlocks)
           /\ \A b \in Range(Candidates(units)) :
                 b.page \in Range(list) /\ FreeBlock(b, sp[b.page].words, FreeOf(objs, b.page))
           /\ \A p \in Range(list) : \A s \in Heads(FreeOf(objs, p)) :
                 slob_units(sp[p].words, s) >= units =>
                    \E b \in Range(Candidates(units)) :
                       b.page = p /\ b.cur = s /\ b.avail = slob_units(sp[p].words, s)
<1> DEFINE Part(i) == IF sp[list[i]].units < units THEN << >> ELSE BlocksOf(list[i], sp[list[i]])
           Q == [i \in DOMAIN list |-> Part(i)]
           C == Candidates(units)
<1>1. C = FlattenSeq(Q)
  BY DEF Candidates
<1>2. /\ list \in Seq(Pages) /\ Len(list) \in Nat /\ DOMAIN list = 1 .. Len(list)
      /\ \A i \in 1 .. Len(list) : list[i] \in Range(list)
      /\ \A x \in Range(list) : \E i \in 1 .. Len(list) : list[i] = x
  BY ListFacts DEF HeapOK
<1>3. ASSUME NEW i \in 1 .. Len(list)
      PROVE  LET p == list[i]
                 q == BlocksOf(p, sp[p])
             IN  /\ q \in Seq(FreeBlocks)
                 /\ \A x \in Range(q) : x.page = p /\ FreeBlock(x, sp[p].words, FreeOf(objs, p))
                                        /\ x.avail <= sp[p].units
                 /\ \A s \in Heads(FreeOf(objs, p)) : \E x \in Range(q) : x.cur = s
  <2> DEFINE p == list[i]
             q == BlocksOf(p, sp[p])
  <2>1. p \in Pages /\ FreeOf(objs, p) \in SUBSET Offsets /\ Exact(sp[p], FreeOf(objs, p))
    BY <1>2, ListedFacts
  <2> HIDE DEF p
  <2>2. /\ q \in Seq(FreeBlocks)
        /\ \A j \in 1 .. Len(q) :
              q[j].page = p /\ FreeBlock(q[j], sp[p].words, FreeOf(objs, p)) /\ q[j].avail <= sp[p].units
        /\ \A s \in Heads(FreeOf(objs, p)) : \E j \in 1 .. Len(q) : q[j].cur = s
    <3>1. FreeList(q, p, sp[p], FreeOf(objs, p))
      BY <2>1, BlocksOfFacts
    <3> HIDE DEF q
    <3> QED
      BY <3>1 DEF FreeList
  <2> HIDE DEF q
  <2>3. /\ \A j \in 1 .. Len(q) : q[j] \in Range(q)
        /\ \A x \in Range(q) : \E j \in 1 .. Len(q) : q[j] = x
    BY <2>2, ListFacts
  <2>4. \A x \in Range(q) : x.page = p /\ FreeBlock(x, sp[p].words, FreeOf(objs, p)) /\ x.avail <= sp[p].units
    BY <2>2, <2>3
  <2>5. \A s \in Heads(FreeOf(objs, p)) : \E x \in Range(q) : x.cur = s
    BY <2>2, <2>3
  <2> QED
    BY <2>2, <2>4, <2>5 DEF p, q
<1>4. Q \in Seq(Seq(FreeBlocks)) /\ Len(Q) = Len(list)
  <2>1. \A i \in 1 .. Len(list) : Part(i) \in Seq(FreeBlocks)
    BY <1>3
  <2> HIDE DEF Part
  <2> QED
    BY <1>2, <2>1
<1>5. \A i \in 1 .. Len(list) : Q[i] = Part(i)
  BY <1>2
<1> HIDE DEF Q
<1>6. C \in Seq(FreeBlocks) /\ \A x : x \in Range(C) <=> \E i \in 1 .. Len(list) : x \in Range(Part(i))
  <2>1. /\ FlattenSeq(Q) \in Seq(FreeBlocks)
        /\ \A x : x \in Range(FlattenSeq(Q)) <=> \E i \in 1 .. Len(Q) : x \in Range(Q[i])
    BY <1>4, FlattenFacts
  <2> HIDE DEF Part, C
  <2> QED
    BY <1>1, <1>4, <1>5, <2>1
<1> HIDE DEF C
<1>7. Range(<< >>) = {}
  BY DEF Range
<1>8. ASSUME NEW b \in Range(C)
      PROVE  b.page \in Range(list) /\ FreeBlock(b, sp[b.page].words, FreeOf(objs, b.page))
  <2>1. PICK i \in 1 .. Len(list) : b \in Range(Part(i))
    BY <1>6
  <2>2. b \in Range(BlocksOf(list[i], sp[list[i]]))
    BY <1>7, <2>1
  <2> QED
    BY <1>2, <1>3, <2>2
<1>9. ASSUME NEW p \in Range(list), NEW s \in Heads(FreeOf(objs, p)), slob_units(sp[p].words, s) >= units
      PROVE  \E b \in Range(C) : b.page = p /\ b.cur = s /\ b.avail = slob_units(sp[p].words, s)
  <2>1. PICK i \in 1 .. Len(list) : list[i] = p
    BY <1>2
  <2>2. PICK x \in Range(BlocksOf(p, sp[p])) : x.cur = s
    BY <1>3, <2>1
  <2>3. x.page = p /\ FreeBlock(x, sp[p].words, FreeOf(objs, p)) /\ x.avail <= sp[p].units
    BY <1>3, <2>1, <2>2
  <2>4. x.avail = slob_units(sp[p].words, s)
    BY <2>2, <2>3 DEF FreeBlock
  <2>5. x.avail \in Int /\ sp[p].units \in Int
    <3>1. BlocksOf(p, sp[p]) \in Seq(FreeBlocks)
      BY <1>3, <2>1
    <3>2. x \in FreeBlocks
      BY <3>1, ListFacts
    <3>3. x.avail \in 1 .. PageUnits /\ p \in Pages
      BY <3>2, ListedFacts DEF FreeBlocks
    <3>4. sp[p].units \in 0 .. PageUnits
      BY <3>3 DEF HeapOK, PageState
    <3> QED
      BY <3>3, <3>4, PageFacts
  <2>6. ~(sp[p].units < units)
    BY <1>9, <2>3, <2>4, <2>5
  <2>7. x \in Range(Part(i))
    BY <2>1, <2>2, <2>6
  <2> HIDE DEF Part
  <2>8. x \in Range(C)
    BY <1>6, <2>7
  <2> QED
    BY <2>2, <2>3, <2>4, <2>8
<1> QED
  BY <1>6, <1>8, <1>9 DEF C

\* A block is found with room for the object, unless no free block on the list
\* has any (on pages of up to 16K).
LEMMA FoundFacts ==
    ASSUME HeapOK(sp, list, objs), NEW rq, RqOK(rq)
    PROVE  LET b == find_best_fit_block(rq)
               k == SLOB_UNITS(rq.size)
               a == rq.align \div SLOB_UNIT
           IN  /\ b # NoBlock =>
                    b.page \in Range(list) /\ FreeBlock(b, sp[b.page].words, FreeOf(objs, b.page)) /\ Fits(b, k, a)
               /\ BlockSizeFits /\ b = NoBlock => \A p \in Range(list) : \A s \in Heads(FreeOf(objs, p)) :
                                    ~Fits([cur |-> s, avail |-> slob_units(sp[p].words, s)], k, a)
<1> DEFINE b == find_best_fit_block(rq)
           k == SLOB_UNITS(rq.size)
           a == rq.align \div SLOB_UNIT
           C == Candidates(k)
<1>1. k \in Int /\ k >= 1 /\ k \in Nat \ {0} /\ a \in Nat \ {0}
  BY RqFacts
<1>2. b = Search(C, k, a).blk
  BY DEF find_best_fit_block
<1> HIDE DEF b, k, a
<1>3. C \in Seq(FreeBlocks)
  BY <1>1, CandidatesFacts
<1>4. \A x \in Range(C) : x.page \in Range(list) /\ FreeBlock(x, sp[x.page].words, FreeOf(objs, x.page))
  BY <1>1, CandidatesFacts
<1>5. \A p \in Range(list) : \A s \in Heads(FreeOf(objs, p)) :
         slob_units(sp[p].words, s) >= k =>
            \E x \in Range(C) : x.cur = s /\ x.avail = slob_units(sp[p].words, s)
  BY <1>1, CandidatesFacts
<1> HIDE DEF C
<1> DEFINE fitting == {x \in ToSet(C) : Fits(x, k, a)}
<1>6. /\ b = NoBlock \/ b \in fitting
      /\ BlockSizeFits => IF fitting = {} THEN b = NoBlock ELSE b \in fitting
  <2>1. b = NoBlock \/ (b \in ToSet(C) /\ Fits(b, k, a))
    BY <1>1, <1>2, <1>3, SearchFacts
  <2> QED
    BY <1>1, <1>2, <1>3, <2>1, SearchFinds
<1>7. ToSet(C) = Range(C)
  BY DEF ToSet, Range
<1>8. \A x \in fitting : x # NoBlock
  <2> TAKE x \in fitting
  <2>1. x \in FreeBlocks
    BY <1>3, <1>7, ListFacts
  <2> QED
    BY <1>1, <2>1, BlockFacts
<1>9. b # NoBlock => b.page \in Range(list) /\ FreeBlock(b, sp[b.page].words, FreeOf(objs, b.page)) /\ Fits(b, k, a)
  BY <1>4, <1>6, <1>7
<1>10. ASSUME BlockSizeFits, b = NoBlock, NEW p \in Range(list), NEW s \in Heads(FreeOf(objs, p)),
              Fits([cur |-> s, avail |-> slob_units(sp[p].words, s)], k, a)
       PROVE  FALSE
  <2> DEFINE u == slob_units(sp[p].words, s)
  <2>1. fitting = {}
    BY <1>6, <1>8, <1>10
  <2>2. u >= k + Delta(s, a)
    BY <1>10 DEF Fits
  <2>3. s \in Int /\ Delta(s, a) \in Int /\ Delta(s, a) >= 0
    <3>1. p \in Pages /\ FreeOf(objs, p) \in SUBSET Offsets
      BY ListedFacts
    <3>2. s \in Int /\ 0 <= s
      BY <3>1, OffsetFacts DEF Heads
    <3>3. (-s) \in Int
      BY <3>2
    <3>4. (-s) % a \in 0 .. a - 1
      <4> DEFINE z == -s
      <4>1. z \in Int
        BY <3>3
      <4> HIDE DEF z
      <4>2. z % a \in 0 .. a - 1
        BY <1>1, <4>1
      <4> QED
        BY <4>2 DEF z
    <3>5. Delta(s, a) \in 0 .. a - 1
      BY <3>4 DEF Delta
    <3> QED
      BY <1>1, <3>2, <3>5
  <2>4. u \in Int
    <3>1. p \in Pages /\ FreeOf(objs, p) \in SUBSET Offsets /\ Exact(sp[p], FreeOf(objs, p))
      BY ListedFacts
    <3>2. s \in Offsets /\ sp[p].words \in [Offsets -> Int]
      BY <3>1 DEF Heads, Exact, PageRecord
    <3>3. sp[p].words[s] \in Int
      BY <3>2
    <3> QED
      BY <3>3 DEF slob_units
  <2> HIDE DEF u
  <2>5. u >= k
    BY <1>1, <2>2, <2>3, <2>4
  <2>6. PICK x \in Range(C) : x.cur = s /\ x.avail = u
    BY <1>5, <2>5 DEF u
  <2>7. Fits(x, k, a)
    BY <2>2, <2>6 DEF Fits
  <2> QED
    BY <1>7, <2>1, <2>6, <2>7
<1> QED
  BY <1>9, <1>10 DEF b, k, a

-----------------------------------------------------------------------------
(* Steps of the heap *)

\* A page that no object lies in is free.
LEMMA EmptyPage ==
    ASSUME NEW O, NEW p \in Pages, p \notin HeapOf(O)
    PROVE  FreeOf(O, p) = Offsets
<1>1. Here(O, p) = {}
  BY DEF HeapOf
<1> QED
  BY <1>1 DEF FreeOf

\* An exact page, tidied up, is a page state as TypeOK has it.
LEMMA TidyState ==
    ASSUME NEW F \in SUBSET Offsets, NEW pg, Exact(pg, F)
    PROVE  /\ Tidy(pg) \in PageState /\ Exact(Tidy(pg), F)
           /\ Tidy(pg).units = pg.units
           /\ Tidy(pg).units > 0 <=> F # {}
           /\ pg.units = 0 <=> F = {}
<1> DEFINE T == Tidy(pg)
<1>1. /\ Exact(T, F) /\ T.words \in [Offsets -> -PageUnits .. PageUnits]
      /\ T.units = pg.units /\ T.free = pg.free
      /\ T = [units |-> pg.units, free |-> pg.free, words |-> T.words]
  BY TidyExact
<1> HIDE DEF T
<1>2. pg.units \in 0 .. PageUnits /\ pg.free \in 0 .. PageUnits /\ pg.units = Cardinality(F)
  BY DEF Exact, PageRecord
<1>3. T \in PageState
  BY <1>1, <1>2 DEF PageState
<1>4. pg.units \in Nat /\ (pg.units = 0 <=> F = {})
  BY <1>2, FiniteOffsets
<1> QED
  BY <1>1, <1>3, <1>4 DEF T

\* What Place does, of a heap S, O, to the heap S2, L2, N.
Placed(rq, b, pg, onlist, S, O, S2, L2, N) ==
    LET units == SLOB_UNITS(rq.size)
        align == rq.align \div SLOB_UNIT
        new   == Carve(pg, b, units, align)
        p     == b.page
    IN  /\ S2 = [S EXCEPT ![p] = Tidy(new)]
        /\ L2 = IF new.units = 0 THEN list_del(onlist, p) ELSE onlist
        /\ N = O \cup {Object(rq, {p}, b.cur + Delta(b.cur, align))}

\* The pages S with page p in state pg.
SetPage(S, p, pg) == [S EXCEPT ![p] = pg]

\* Page p of a heap with objects O and list L is in state pg when the objects
\* are N and the list is M; other pages are as they were.
OnePage(O, L, N, M, p, pg) ==
    /\ \A x \in N : ObjOK(x)
    /\ Apart(N)
    /\ \A x \in Pages : x # p =>
          (x \in HeapOf(N) <=> x \in HeapOf(O)) /\ FreeOf(N, x) = FreeOf(O, x)
    /\ pg \in PageState /\ (p \in HeapOf(N) => Exact(pg, FreeOf(N, p)))
    /\ M \in Seq(Pages) /\ Once(M)
    /\ \A x \in Pages : x # p => (x \in Range(M) <=> x \in Range(L))
    /\ p \in Range(M) <=> p \in HeapOf(N) /\ pg.units > 0

\* One page of a sound heap changes, and its place on the list with it.
LEMMA PageChange ==
    ASSUME NEW S, NEW L, NEW O, HeapOK(S, L, O),
           NEW N, NEW M, NEW p \in Pages, NEW pg, OnePage(O, L, N, M, p, pg)
    PROVE  HeapOK(SetPage(S, p, pg), M, N)
<1> DEFINE T == SetPage(S, p, pg)
<1>0. /\ \A x \in N : ObjOK(x)
      /\ Apart(N)
      /\ \A x \in Pages : x # p =>
            (x \in HeapOf(N) <=> x \in HeapOf(O)) /\ FreeOf(N, x) = FreeOf(O, x)
      /\ pg \in PageState /\ (p \in HeapOf(N) => Exact(pg, FreeOf(N, p)))
      /\ M \in Seq(Pages) /\ Once(M)
      /\ \A x \in Pages : x # p => (x \in Range(M) <=> x \in Range(L))
      /\ p \in Range(M) <=> p \in HeapOf(N) /\ pg.units > 0
  BY DEF OnePage
<1>1. S \in [Pages -> PageState]
  BY DEF HeapOK
<1>2. T \in [Pages -> PageState] /\ T[p] = pg /\ \A x \in Pages : x # p => T[x] = S[x]
  BY <1>0, <1>1 DEF SetPage
<1> HIDE DEF T
<1>3. ASSUME NEW x \in HeapOf(N) PROVE Exact(T[x], FreeOf(N, x))
  <2>1. x \in Pages
    BY DEF HeapOf
  <2>2. CASE x = p
    BY <1>0, <1>2, <1>3, <2>2
  <2>3. CASE x # p
    <3>1. x \in HeapOf(O) /\ FreeOf(N, x) = FreeOf(O, x) /\ T[x] = S[x]
      BY <1>0, <1>2, <1>3, <2>1, <2>3
    <3> QED
      BY <3>1 DEF HeapOK
  <2> QED
    BY <2>2, <2>3
<1>4. Range(M) \subseteq Pages /\ HeapOf(N) \subseteq Pages
  BY <1>0, ListFacts DEF HeapOf
<1>5. Range(L) = {x \in HeapOf(O) : S[x].units > 0}
  BY DEF HeapOK
<1>6. ASSUME NEW x \in Pages PROVE x \in Range(M) <=> x \in HeapOf(N) /\ T[x].units > 0
  <2>1. CASE x = p
    BY <1>0, <1>2, <2>1
  <2>2. CASE x # p
    <3>1. x \in Range(M) <=> x \in HeapOf(O) /\ S[x].units > 0
      BY <1>0, <1>5, <2>2
    <3> QED
      BY <1>0, <1>2, <2>2, <3>1
  <2> QED
    BY <2>1, <2>2
<1>7. Range(M) = {x \in HeapOf(N) : T[x].units > 0}
  BY <1>4, <1>6
<1>8. HeapOK(T, M, N)
  BY <1>0, <1>2, <1>3, <1>7 DEF HeapOK
<1> QED
  BY <1>8 DEF T

\* An object is cut out of page p, which is on the list or joins it.
LEMMA PlaceHeap ==
    ASSUME NEW S, NEW L, NEW O, HeapOK(S, L, O),
           NEW rq, RqOK(rq), ~rq.big, NEW p \in Pages,
           NEW pg, Exact(pg, FreeOf(O, p)),
           NEW b, b.page = p, FreeBlock(b, pg.words, FreeOf(O, p)),
           Fits(b, SLOB_UNITS(rq.size), rq.align \div SLOB_UNIT),
           NEW onlist \in Seq(Pages), Once(onlist), Range(onlist) = Range(L) \cup {p},
           NEW S2, NEW L2, NEW N, Placed(rq, b, pg, onlist, S, O, S2, L2, N)
    PROVE  /\ HeapOK(S2, L2, N)
           /\ HeapOf(N) = HeapOf(O) \cup {p}
           /\ \E o : ~o.big /\ N = O \cup {o}
<1> DEFINE k == SLOB_UNITS(rq.size)
           a == rq.align \div SLOB_UNIT
           F == FreeOf(O, p)
           c == b.cur + Delta(b.cur, a)
           new == Carve(pg, b, k, a)
           o == Object(rq, {p}, c)
           U == c .. c + k - 1
<1>1. k \in Int /\ k >= 1 /\ a \in Nat \ {0}
  BY RqFacts
<1>2. F \in SUBSET Offsets
  BY DEF FreeOf
<1>3. /\ S2 = [S EXCEPT ![p] = Tidy(new)]
      /\ L2 = IF new.units = 0 THEN list_del(onlist, p) ELSE onlist
      /\ N = O \cup {o}
  BY DEF Placed
<1>4. c \in Offsets /\ c % a = 0 /\ U \subseteq F /\ Exact(new, F \ U)
  <2> HIDE DEF k, a, F
  <2> QED
    BY <1>1, <1>2, CarveExact DEF k, a, F
<1>5. /\ o = [kind |-> rq.kind, cache |-> rq.cache, size |-> rq.size, align |-> rq.align,
              big |-> rq.big, pages |-> {p}, at |-> c]
      /\ UnitsOf(o) = U
  BY DEF Object, UnitsOf
<1>6. c \in Nat /\ c + k <= PageUnits
  <2>1. c \in Int /\ 0 <= c
    BY <1>4, OffsetFacts
  <2> HIDE DEF c, k
  <2>2. c + k - 1 \in Offsets
    BY <1>1, <1>2, <1>4, <2>1
  <2> QED
    BY <1>1, <2>1, <2>2, PageFacts, OffsetFacts
<1> HIDE DEF c, new, o
<1>7. ObjOK(o) /\ ~o.big /\ o.pages = {p}
  <2>1. /\ rq.kind \in Kinds /\ rq.cache \in Caches \cup {NoCache} /\ rq.size \in Nat \ {0}
        /\ rq.align \in Nat /\ rq.big \in BOOLEAN
    BY DEF RqOK
  <2>2. rq = Request(o.kind, o.cache, o.size, o.align, o.big)
    BY <1>5 DEF RqOK, Request
  <2>3. o \in [kind : Kinds, cache : Caches \cup {NoCache}, size : Nat \ {0}, align : Nat,
               big : BOOLEAN, pages : SUBSET Pages, at : Nat]
    BY <1>5, <1>6, <2>1
  <2>4. o.pages = {p} /\ o.at + SLOB_UNITS(o.size) <= PageUnits /\ o.at % (o.align \div SLOB_UNIT) = 0
    BY <1>4, <1>5, <1>6
  <2>5. ~o.big
    BY <1>5
  <2> QED
    BY <2>2, <2>3, <2>4, <2>5 DEF ObjOK
<1>8. UnitsOf(o) \subseteq FreeOf(O, p)
  BY <1>4, <1>5
<1> HIDE DEF U, k, a
<1>9. /\ \A x \in O : ObjOK(x)
      /\ Apart(O) /\ S \in [Pages -> PageState] /\ L \in Seq(Pages)
  BY DEF HeapOK
<1>10. /\ Apart(N)
       /\ HeapOf(N) = HeapOf(O) \cup {p}
       /\ FreeOf(N, p) = FreeOf(O, p) \ UnitsOf(o)
       /\ \A x \in Pages : x # p => FreeOf(N, x) = FreeOf(O, x)
  <2>1. Added(O, O \cup {o}, o, p)
    BY <1>7, <1>8, <1>9, AddObject
  <2>2. Added(O, N, o, p)
    BY <1>3, <2>1
  <2> QED
    BY <2>2 DEF Added
<1>11. \A x \in N : ObjOK(x)
  BY <1>3, <1>7, <1>9
<1> DEFINE T == Tidy(new)
           G == F \ U
<1>12. G \in SUBSET Offsets /\ Exact(new, G)
  BY <1>2, <1>4
<1>13. FreeOf(N, p) = G
  BY <1>5, <1>10
<1> HIDE DEF F, G
<1>14. T \in PageState /\ Exact(T, G) /\ (T.units > 0 <=> G # {}) /\ (new.units = 0 <=> G = {})
  BY <1>12, TidyState
<1> HIDE DEF T
<1>15. p \in Range(onlist) /\ p \in HeapOf(N)
  BY <1>10
<1>16. /\ L2 \in Seq(Pages) /\ Once(L2)
       /\ Range(L2) = IF G = {} THEN Range(onlist) \ {p} ELSE Range(onlist)
  <2>1. CASE G = {}
    <3>1. L2 = list_del(onlist, p)
      BY <1>3, <1>14, <2>1
    <3> QED
      BY <1>15, <2>1, <3>1, DelFacts
  <2>2. CASE G # {}
    BY <1>3, <1>14, <2>2
  <2> QED
    BY <2>1, <2>2
<1>17. HeapOK(SetPage(S, p, T), L2, N)
  <2>1. \A x \in Pages : x # p => (x \in HeapOf(N) <=> x \in HeapOf(O)) /\ FreeOf(N, x) = FreeOf(O, x)
    BY <1>10
  <2>2. Exact(T, FreeOf(N, p))
    BY <1>13, <1>14
  <2>3. \A x \in Pages : x # p => (x \in Range(L2) <=> x \in Range(L))
    BY <1>16
  <2>4. p \in Range(L2) <=> p \in HeapOf(N) /\ T.units > 0
    BY <1>14, <1>15, <1>16
  <2>5. T \in PageState /\ L2 \in Seq(Pages) /\ Once(L2)
    BY <1>14, <1>16
  <2>6. OnePage(O, L, N, L2, p, T)
    BY <1>10, <1>11, <2>1, <2>2, <2>3, <2>4, <2>5 DEF OnePage
  <2> QED
    BY <2>6, PageChange
<1> QED
  BY <1>3, <1>7, <1>10, <1>17 DEF T, SetPage

\* A page is all free exactly if it has as many free units as there are.
LEMMA AllFree ==
    ASSUME NEW F \in SUBSET Offsets
    PROVE  F = Offsets <=> Cardinality(F) = PageUnits
<1>1. PageUnits \in Int /\ PageUnits > 1
  BY PageFacts
<1>2. IsFiniteSet(Offsets) /\ Cardinality(Offsets) = PageUnits
  <2>1. 0 \in Int /\ PageUnits - 1 \in Int
    BY <1>1
  <2>2. /\ IsFiniteSet(0 .. PageUnits - 1)
        /\ Cardinality(0 .. PageUnits - 1) = IF 0 > PageUnits - 1 THEN 0 ELSE (PageUnits - 1) - 0 + 1
    BY <2>1, FS_Interval
  <2> QED
    BY <1>1, <2>2 DEF Offsets
<1>3. Cardinality(Offsets) = Cardinality(F) => Offsets = F
  BY <1>2, FS_Subset
<1> QED
  BY <1>2, <1>3

\* What slob_free does to page p, at which k units lay at offset at.
Returned(S, L, p, at, k, S2, L2) ==
    IF S[p].units + k = PageUnits
    THEN S2 = S /\ L2 = IF p \in ToSet(L) THEN list_del(L, p) ELSE L
    ELSE IF p \in ToSet(L)
         THEN S2 = SetPage(S, p, Tidy(GiveBack(S[p], at, k))) /\ L2 = L
         ELSE S2 = SetPage(S, p, Tidy(OnlyBlock(S[p].words, at, k))) /\ L2 = Cons(p, L)

\* The heap S2, L2, N is sound, and page p has left it if it is all free.
HeapAfter(S, O, p, k, S2, L2, N) ==
    /\ HeapOK(S2, L2, N)
    /\ p \in HeapOf(O)
    /\ HeapOf(N) = IF S[p].units + k = PageUnits THEN HeapOf(O) \ {p} ELSE HeapOf(O)

\* The heap after an object has been freed is sound; the page has left it when
\* the object was its last.
LEMMA FreeHeap ==
    ASSUME NEW S, NEW L, NEW O, HeapOK(S, L, O),
           NEW o \in O, ~o.big, NEW p \in Pages, o.pages = {p},
           NEW S2, NEW L2, Returned(S, L, p, o.at, SLOB_UNITS(o.size), S2, L2)
    PROVE  HeapAfter(S, O, p, SLOB_UNITS(o.size), S2, L2, O \ {o})
<1> DEFINE N == O \ {o}
           k == SLOB_UNITS(o.size)
           pg == S[p]
           F == FreeOf(O, p)
           U == UnitsOf(o)
           G == FreeOf(N, p)
<1>1. /\ \A x \in O : ObjOK(x)
      /\ Apart(O) /\ S \in [Pages -> PageState] /\ L \in Seq(Pages) /\ Once(L)
      /\ Range(L) = {x \in HeapOf(O) : S[x].units > 0}
  BY DEF HeapOK
<1>2. Dropped(O, N, o, p)
  BY <1>1, DropObject
<1>3. \A x \in N : ObjOK(x)
  BY <1>1
<1> HIDE DEF N
<1>4. /\ Apart(N) /\ U \cap F = {} /\ U \subseteq Offsets /\ G = F \cup U
      /\ p \in HeapOf(O) /\ (p \in HeapOf(N) <=> G # Offsets)
  BY <1>2 DEF Dropped
<1>5. \A x \in Pages : x # p => (x \in HeapOf(N) <=> x \in HeapOf(O)) /\ FreeOf(N, x) = FreeOf(O, x)
  BY <1>2 DEF Dropped
<1>6. /\ o.at \in Offsets /\ o.at \in Int /\ k \in Int /\ k >= 1 /\ o.at + k <= PageUnits
      /\ U = o.at .. o.at + k - 1
  BY <1>1, ObjFacts
<1>7. F \in SUBSET Offsets /\ Exact(pg, F) /\ pg.units = Cardinality(F) /\ pg.words \in [Offsets -> Int]
  BY <1>4 DEF HeapOK, FreeOf, Exact, PageRecord
<1>8. G \in SUBSET Offsets /\ Cardinality(G) = pg.units + k
  <2> HIDE DEF F, U, G, k, pg
  <2>1. (o.at .. o.at + k - 1) \cap F = {} /\ F \in SUBSET Offsets /\ o.at \in Int /\ k \in Int /\ k >= 1
    BY <1>4, <1>6, <1>7
  <2>2. Cardinality(F \cup (o.at .. o.at + k - 1)) = Cardinality(F) + k
    BY <2>1, UnitCount
  <2> QED
    BY <1>4, <1>6, <1>7, <2>2
<1>9. G = Offsets <=> pg.units + k = PageUnits
  BY <1>8, AllFree
<1>10. ToSet(L) = Range(L)
  BY DEF ToSet, Range
<1>11. p \in Range(L) <=> F # {}
  <2>1. p \in Range(L) <=> pg.units > 0
    BY <1>1, <1>4
  <2>2. pg.units \in Nat /\ (pg.units = 0 <=> F = {})
    BY <1>7, FiniteOffsets
  <2> HIDE DEF F, pg
  <2> QED
    BY <2>1, <2>2
<1>12. pg \in PageState
  BY <1>1
<1>13. HeapOf(N) = IF pg.units + k = PageUnits THEN HeapOf(O) \ {p} ELSE HeapOf(O)
  <2>1. HeapOf(N) \subseteq Pages /\ HeapOf(O) \subseteq Pages
    BY DEF HeapOf
  <2> HIDE DEF pg, k, G
  <2> QED
    BY <1>4, <1>5, <1>9, <2>1
<1> HIDE DEF k, F, U, G
<1>14. CASE pg.units + k = PageUnits
  <2>1. S2 = S /\ L2 = IF p \in Range(L) THEN list_del(L, p) ELSE L
    BY <1>10, <1>14 DEF Returned, k
  <2>2. L2 \in Seq(Pages) /\ Once(L2) /\ Range(L2) = Range(L) \ {p}
    <3>1. CASE p \in Range(L)
      BY <1>1, <2>1, <3>1, DelFacts
    <3>2. CASE p \notin Range(L)
      BY <1>1, <2>1, <3>2
    <3> QED
      BY <3>1, <3>2
  <2>3. p \notin HeapOf(N)
    BY <1>4, <1>9, <1>14
  <2>4. OnePage(O, L, N, L2, p, pg)
    <3>1. \A x \in Pages : x # p => (x \in Range(L2) <=> x \in Range(L))
      BY <2>2
    <3>2. p \notin Range(L2)
      BY <2>2
    <3> HIDE DEF pg
    <3> QED
      BY <1>3, <1>4, <1>5, <1>12, <2>2, <2>3, <3>1, <3>2 DEF OnePage
  <2>5. HeapOK(SetPage(S, p, pg), L2, N)
    BY <2>4, PageChange
  <2>6. SetPage(S, p, pg) = S
    BY <1>1 DEF SetPage
  <2>7. HeapOK(S2, L2, N)
    BY <2>1, <2>5, <2>6
  <2>8. HeapAfter(S, O, p, k, S2, L2, N)
    BY <1>4, <1>13, <2>7 DEF HeapAfter
  <2> QED
    BY <2>8 DEF N, k
<1>15. CASE pg.units + k # PageUnits
  <2> DEFINE new == IF p \in Range(L) THEN GiveBack(pg, o.at, k)
                    ELSE OnlyBlock(pg.words, o.at, k)
             T == Tidy(new)
  <2>1. S2 = SetPage(S, p, T) /\ L2 = IF p \in Range(L) THEN L ELSE Cons(p, L)
    BY <1>10, <1>15 DEF Returned, k
  <2>2. Exact(new, G)
    <3>1. CASE p \in Range(L)
      <4>1. F # {} /\ \A i \in o.at .. o.at + k - 1 : i \notin F
        BY <1>4, <1>6, <1>11, <3>1
      <4>2. Exact(GiveBack(pg, o.at, k), F \cup (o.at .. o.at + k - 1))
        BY <1>6, <1>7, <4>1, GiveBackExact
      <4>3. F \cup (o.at .. o.at + k - 1) = G
        BY <1>4, <1>6
      <4> QED
        BY <3>1, <4>2, <4>3
    <3>2. CASE p \notin Range(L)
      <4>1. Exact(OnlyBlock(pg.words, o.at, k), o.at .. o.at + k - 1)
        BY <1>6, <1>7, OneBlock
      <4>2. o.at .. o.at + k - 1 = G
        BY <1>4, <1>6, <1>11, <3>2
      <4> QED
        BY <3>2, <4>1, <4>2
    <3> QED
      BY <3>1, <3>2
  <2> HIDE DEF new
  <2>3. T \in PageState /\ Exact(T, G) /\ (T.units > 0 <=> G # {})
    BY <1>8, <2>2, TidyState
  <2>4. G # {} /\ p \in HeapOf(N)
    <3>1. o.at \in U
      BY <1>6
    <3> QED
      BY <1>4, <1>9, <1>15, <3>1
  <2> HIDE DEF T
  <2>5. L2 \in Seq(Pages) /\ Once(L2) /\ Range(L2) = Range(L) \cup {p}
    <3>1. CASE p \in Range(L)
      BY <1>1, <2>1, <3>1
    <3>2. CASE p \notin Range(L)
      BY <1>1, <2>1, <3>2, ConsFacts
    <3> QED
      BY <3>1, <3>2
  <2>6. OnePage(O, L, N, L2, p, T)
    <3>1. \A x \in Pages : x # p => (x \in Range(L2) <=> x \in Range(L))
      BY <2>5
    <3>2. p \in Range(L2)
      BY <2>5
    <3>3. Exact(T, FreeOf(N, p)) /\ T.units > 0
      BY <2>3, <2>4 DEF G
    <3> QED
      BY <1>3, <1>4, <1>5, <2>3, <2>4, <2>5, <3>1, <3>2, <3>3 DEF OnePage
  <2>7. HeapOK(S2, L2, N)
    BY <2>1, <2>6, PageChange
  <2>8. HeapAfter(S, O, p, k, S2, L2, N)
    BY <1>4, <1>13, <2>7 DEF HeapAfter
  <2> QED
    BY <2>8 DEF N, k
<1> QED
  BY <1>14, <1>15

-----------------------------------------------------------------------------
(* Owners of pages *)

\* Pages in the hands of a thread, and those of them that PageSlab is set on.
Hand(c) == IF c.at \in {"count", "init", "drop", "uncount"} THEN c.pages ELSE {}
Mark(c) == IF c.at \in {"init", "drop"} THEN c.pages ELSE {}

\* The large objects, the threads, and those that have set PageSlab, on page p.
LargeOf(O, p) == {o \in O : o.big /\ p \in o.pages}
HandsOf(c, p) == {t \in Threads : p \in Hand(c[t])}
MarksOf(c, p) == {t \in Threads : p \in Mark(c[t])}

\* Page p has one owner, when the pages B are free, H are those of the heap,
\* large are the large objects on it and hands the threads that have it.
OneOwner(p, B, H, large, hands) ==
    \/ p \in B /\ p \notin H /\ large = {} /\ hands = {}
    \/ p \notin B /\ p \in H /\ large = {} /\ hands = {}
    \/ p \notin B /\ p \notin H /\ (\E o : large = {o}) /\ hands = {}
    \/ p \notin B /\ p \notin H /\ large = {} /\ \E t : hands = {t}

\* Every page has one owner, and PageSlab is set on those of the heap, from
\* before they join it until after they have left it.
OwnersOK(B, A, O, c) == \A p \in Pages :
    /\ OneOwner(p, B, HeapOf(O), LargeOf(O, p), HandsOf(c, p))
    /\ p \in A <=> p \in HeapOf(O) \/ MarksOf(c, p) # {}

\* The threads' states.
ThreadsOK(c) == c = [t \in Threads |-> c[t]] /\ \A t \in Threads : PcOK(c[t])

SetPc(c, t, x) == [c EXCEPT ![t] = x]

\* One thread takes a step.
LEMMA PcChange ==
    ASSUME NEW c, ThreadsOK(c), NEW t \in Threads, NEW x
    PROVE  LET d == SetPc(c, t, x)
           IN  /\ d[t] = x
               /\ PcOK(x) => ThreadsOK(d)
               /\ \A p : HandsOf(d, p) = IF p \in Hand(x) THEN HandsOf(c, p) \cup {t} ELSE HandsOf(c, p) \ {t}
               /\ \A p : MarksOf(d, p) = IF p \in Mark(x) THEN MarksOf(c, p) \cup {t} ELSE MarksOf(c, p) \ {t}
<1> DEFINE d == SetPc(c, t, x)
<1>1. c = [u \in Threads |-> c[u]] /\ \A u \in Threads : PcOK(c[u])
  BY DEF ThreadsOK
<1>2. /\ d[t] = x /\ d = [u \in Threads |-> d[u]]
      /\ \A u \in Threads : u # t => d[u] = c[u]
  <2>1. DOMAIN c = Threads
    BY <1>1
  <2>2. d[t] = x /\ \A u \in Threads : u # t => d[u] = c[u]
    BY <2>1 DEF SetPc
  <2>3. d = [u \in Threads |-> IF u = t THEN x ELSE c[u]]
    BY <1>1, <2>1 DEF SetPc
  <2>4. d = [u \in Threads |-> d[u]]
    <3> DEFINE e == [u \in Threads |-> IF u = t THEN x ELSE c[u]]
    <3>1. e = [u \in Threads |-> e[u]]
      OBVIOUS
    <3> QED
      BY <2>3, <3>1
  <2> QED
    BY <2>2, <2>4
<1> HIDE DEF d
<1>3. PcOK(x) => ThreadsOK(d)
  <2> SUFFICES ASSUME PcOK(x) PROVE ThreadsOK(d)
    OBVIOUS
  <2>1. ASSUME NEW u \in Threads PROVE PcOK(d[u])
    <3>1. d[u] = x \/ d[u] = c[u]
      BY <1>2
    <3> QED
      BY <1>1, <3>1
  <2> QED
    BY <1>2, <2>1 DEF ThreadsOK
<1>4. ASSUME NEW p
      PROVE  HandsOf(d, p) = IF p \in Hand(x) THEN HandsOf(c, p) \cup {t} ELSE HandsOf(c, p) \ {t}
  BY <1>2 DEF HandsOf
<1>5. ASSUME NEW p
      PROVE  MarksOf(d, p) = IF p \in Mark(x) THEN MarksOf(c, p) \cup {t} ELSE MarksOf(c, p) \ {t}
  BY <1>2 DEF MarksOf
<1> QED
  BY <1>2, <1>3, <1>4, <1>5 DEF d

\* A thread that takes or returns no page.
LEMMA SameHands ==
    ASSUME NEW c, ThreadsOK(c), NEW t \in Threads, NEW x, PcOK(x),
           Hand(x) = Hand(c[t]), Mark(x) = Mark(c[t])
    PROVE  LET d == SetPc(c, t, x)
           IN  /\ ThreadsOK(d)
               /\ \A p : HandsOf(d, p) = HandsOf(c, p) /\ MarksOf(d, p) = MarksOf(c, p)
<1> DEFINE d == SetPc(c, t, x)
<1>1. /\ ThreadsOK(d)
      /\ \A p : HandsOf(d, p) = IF p \in Hand(x) THEN HandsOf(c, p) \cup {t} ELSE HandsOf(c, p) \ {t}
      /\ \A p : MarksOf(d, p) = IF p \in Mark(x) THEN MarksOf(c, p) \cup {t} ELSE MarksOf(c, p) \ {t}
  BY PcChange
<1> HIDE DEF d
<1>2. \A p : (p \in Hand(x) <=> t \in HandsOf(c, p)) /\ (p \in Mark(x) <=> t \in MarksOf(c, p))
  BY DEF HandsOf, MarksOf
<1>3. ASSUME NEW p PROVE HandsOf(d, p) = HandsOf(c, p) /\ MarksOf(d, p) = MarksOf(c, p)
  <2>1. HandsOf(d, p) = HandsOf(c, p)
    <3>1. HandsOf(d, p) = IF t \in HandsOf(c, p) THEN HandsOf(c, p) \cup {t} ELSE HandsOf(c, p) \ {t}
      BY <1>1, <1>2
    <3> QED
      BY <3>1
  <2>2. MarksOf(d, p) = MarksOf(c, p)
    <3>1. MarksOf(d, p) = IF t \in MarksOf(c, p) THEN MarksOf(c, p) \cup {t} ELSE MarksOf(c, p) \ {t}
      BY <1>1, <1>2
    <3> QED
      BY <3>1
  <2> QED
    BY <2>1, <2>2
<1> QED
  BY <1>1, <1>3 DEF d

\* What changes no page's owner.
LEMMA SameOwners ==
    ASSUME NEW B, NEW A, NEW O, NEW c, OwnersOK(B, A, O, c), NEW N, NEW d,
           HeapOf(N) = HeapOf(O), \A p \in Pages : LargeOf(N, p) = LargeOf(O, p),
           \A p \in Pages : HandsOf(d, p) = HandsOf(c, p) /\ MarksOf(d, p) = MarksOf(c, p)
    PROVE  OwnersOK(B, A, N, d)
BY DEF OwnersOK

\* The inductive invariant.
SlobInv ==
    /\ HeapOK(sp, list, objs)
    /\ ThreadsOK(pc)
    /\ OwnersOK(buddy, slab, objs, pc)
    /\ slab \in SUBSET Pages /\ buddy \in SUBSET Pages
    /\ pages_alloc \in 0 .. UIntMod - 1

\* Facts of one thread.
LEMMA ThreadFacts ==
    ASSUME NEW c, ThreadsOK(c), NEW t \in Threads
    PROVE  PcOK(c[t])
BY DEF ThreadsOK

\* It holds initially.
LEMMA InvInit == Init => SlobInv
<1> SUFFICES ASSUME Init PROVE SlobInv
  OBVIOUS
<1>1. /\ sp = [p \in Pages |-> FreshPage] /\ list = << >> /\ slab = {} /\ buddy = Pages
      /\ objs = {} /\ pages_alloc = 0 /\ pc = [t \in Threads |-> Idle]
  BY DEF Init
<1>2. PageUnits \in Int /\ PageUnits > 1
  BY PageFacts
<1>3. FreshPage \in PageState
  <2>1. 0 \in 0 .. PageUnits /\ 0 \in -PageUnits .. PageUnits
    BY <1>2
  <2>2. [i \in Offsets |-> 0] \in [Offsets -> -PageUnits .. PageUnits]
    BY <2>1
  <2> QED
    BY <2>1, <2>2 DEF FreshPage, PageState
<1>4. HeapOf(objs) = {} /\ Apart(objs) /\ \A p : LargeOf(objs, p) = {}
  BY <1>1 DEF HeapOf, Here, Apart, LargeOf
<1>5. HeapOK(sp, list, objs)
  <2>1. list \in Seq(Pages) /\ Range(list) = {} /\ Once(list)
    BY <1>1, ShortLists DEF Range, Once, Prec
  <2>2. sp \in [Pages -> PageState]
    BY <1>1, <1>3
  <2> QED
    BY <1>1, <1>4, <2>1, <2>2 DEF HeapOK
<1>6. ThreadsOK(pc)
  <2>1. Idle.at = "idle"
    BY DEF Idle
  <2>2. PcOK(Idle)
    BY <2>1 DEF PcOK
  <2> QED
    BY <1>1, <2>2 DEF ThreadsOK
<1>7. \A p : HandsOf(pc, p) = {} /\ MarksOf(pc, p) = {}
  <2>1. \A t \in Threads : pc[t].at = "idle"
    BY <1>1 DEF Idle
  <2> QED
    BY <2>1 DEF HandsOf, MarksOf, Hand, Mark
<1>8. OwnersOK(buddy, slab, objs, pc)
  BY <1>1, <1>4, <1>7 DEF OwnersOK, OneOwner
<1>9. pages_alloc \in 0 .. UIntMod - 1
  BY <1>1, SlobAssumption
<1> QED
  BY <1>1, <1>5, <1>6, <1>8, <1>9 DEF SlobInv

-----------------------------------------------------------------------------
(* Steps that leave the heap alone *)

\* Thread t goes from state c[t] to one with the same pages in its hands.
QuietStep(c, t, d) == \E x : /\ d = SetPc(c, t, x) /\ PcOK(x)
                             /\ Hand(x) = Hand(c[t]) /\ Mark(x) = Mark(c[t])

\* What a step of thread t in slob_alloc or sys_get_slob_amt_free does to its
\* own state only.
LEMMA Quiet ==
    ASSUME SlobInv, NEW t \in Threads, QuietStep(pc, t, pc'),
           UNCHANGED <<sp, list, slab, buddy, objs, pages_alloc>>
    PROVE  SlobInv'
<1>1. PICK x : pc' = SetPc(pc, t, x) /\ PcOK(x) /\ Hand(x) = Hand(pc[t]) /\ Mark(x) = Mark(pc[t])
  BY DEF QuietStep
<1>2. ThreadsOK(pc') /\ \A p : HandsOf(pc', p) = HandsOf(pc, p) /\ MarksOf(pc', p) = MarksOf(pc, p)
  BY <1>1, SameHands DEF SlobInv
<1>3. OwnersOK(buddy, slab, objs, pc')
  BY <1>2, SameOwners DEF SlobInv
<1> QED
  BY <1>2, <1>3 DEF SlobInv

\* States of a thread that holds no page.
LEMMA EmptyHands ==
    ASSUME NEW x, x.at \in {"idle", "new", "walk"}
    PROVE  Hand(x) = {} /\ Mark(x) = {}
BY DEF Hand, Mark

LEMMA IdleOK == Idle.at = "idle" /\ PcOK(Idle) /\ Hand(Idle) = {} /\ Mark(Idle) = {}
<1>1. Idle.at = "idle"
  BY DEF Idle
<1> QED
  BY <1>1, EmptyHands DEF PcOK

\* A request is on its way.
LEMMA NewOK ==
    ASSUME NEW rq, RqOK(rq)
    PROVE  LET x == [at |-> "new", rq |-> rq] IN PcOK(x) /\ x.at = "new"
<1> DEFINE x == [at |-> "new", rq |-> rq]
<1>1. x.at = "new" /\ x.rq = rq
  OBVIOUS
<1> HIDE DEF x
<1>2. PcOK(x)
  BY <1>1 DEF PcOK
<1> QED
  BY <1>1, <1>2 DEF x

\* A walk of the list.
LEMMA WalkOK ==
    ASSUME NEW n, NEW m
    PROVE  LET x == [at |-> "walk", sum |-> n, next |-> m] IN PcOK(x) /\ x.at = "walk"
<1> DEFINE x == [at |-> "walk", sum |-> n, next |-> m]
<1>1. x.at = "walk" /\ x = [at |-> "walk", sum |-> x.sum, next |-> x.next]
  OBVIOUS
<1> HIDE DEF x
<1>2. PcOK(x)
  BY <1>1 DEF PcOK
<1> QED
  BY <1>1, <1>2 DEF x

\* From one state without a page to another.
LEMMA QuietFacts ==
    ASSUME NEW c, NEW t, NEW x, c[t].at \in {"idle", "new", "walk"},
           x.at \in {"idle", "new", "walk"}, PcOK(x)
    PROVE  QuietStep(c, t, SetPc(c, t, x))
<1>1. Hand(x) = Hand(c[t]) /\ Mark(x) = Mark(c[t])
  BY EmptyHands
<1> QED
  BY <1>1 DEF QuietStep

LEMMA OutOfMemoryInv ==
    ASSUME SlobInv, NEW t \in Threads, OutOfMemory(t)
    PROVE  SlobInv'
<1>1. pc' = SetPc(pc, t, Idle) /\ pc[t].at = "new"
  BY DEF OutOfMemory, SetPc
<1>2. QuietStep(pc, t, pc')
  BY <1>1, IdleOK, QuietFacts
<1>3. UNCHANGED <<sp, list, slab, buddy, objs, pages_alloc>>
  BY DEF OutOfMemory
<1> QED
  BY <1>2, <1>3, Quiet

\* One step of the walk, as an assignment of the thread's state.
WalkTo(c, t, n, m) == [c EXCEPT ![t].sum = n, ![t].next = m]

LEMMA WalkAssign ==
    ASSUME NEW c, c = [u \in Threads |-> c[u]], NEW t \in Threads, NEW i, NEW j, NEW n, NEW m,
           c[t] = [at |-> "walk", sum |-> i, next |-> j]
    PROVE  WalkTo(c, t, n, m) = SetPc(c, t, [at |-> "walk", sum |-> n, next |-> m])
<1> DEFINE d == [c EXCEPT ![t].sum = n]
           e == [d EXCEPT ![t].next = m]
           x == [at |-> "walk", sum |-> n, next |-> m]
<1>1. DOMAIN c = Threads
  OBVIOUS
<1>2. DOMAIN d = Threads /\ d[t] = [c[t] EXCEPT !.sum = n] /\ \A u \in Threads : u # t => d[u] = c[u]
  BY <1>1
<1>3. [c[t] EXCEPT !.sum = n] = [at |-> "walk", sum |-> n, next |-> j]
  OBVIOUS
<1>4. e = WalkTo(c, t, n, m)
  BY DEF WalkTo
<1>5. d = [u \in Threads |-> d[u]]
  BY <1>1
<1> HIDE DEF d
<1>6. e = [u \in Threads |-> IF u = t THEN [d[t] EXCEPT !.next = m] ELSE d[u]]
  BY <1>5
<1>7. [d[t] EXCEPT !.next = m] = x
  <2> DEFINE y == [at |-> "walk", sum |-> n, next |-> j]
  <2>1. [y EXCEPT !.next = m] = x
    OBVIOUS
  <2>2. d[t] = y
    BY <1>2, <1>3
  <2> HIDE DEF y, x
  <2> QED
    BY <2>1, <2>2
<1>8. SetPc(c, t, x) = [u \in Threads |-> IF u = t THEN x ELSE c[u]]
  BY <1>1 DEF SetPc
<1> HIDE DEF e, x
<1>9. e = SetPc(c, t, x)
  BY <1>2, <1>6, <1>7, <1>8
<1> QED
  BY <1>4, <1>9, Zenon DEF x

\* One pass of the walk.
LEMMA WalkStepTo ==
    ASSUME SlobInv, NEW t \in Threads, WalkStep(t)
    PROVE  \E x : /\ pc' = SetPc(pc, t, x) /\ x.at = "walk" /\ PcOK(x)
                  /\ x.sum = pc[t].sum + UNSLOB_UNITS(sp[pc[t].next].units)
                  /\ x.next = LinkOf(pc[t].next)
<1> DEFINE n == pc[t].sum + UNSLOB_UNITS(sp[pc[t].next].units)
           m == LinkOf(pc[t].next)
           x == [at |-> "walk", sum |-> n, next |-> m]
<1>1. pc[t].at = "walk" /\ PcOK(pc[t]) /\ pc = [u \in Threads |-> pc[u]]
  BY DEF WalkStep, SlobInv, ThreadsOK
<1>2. pc[t] = [at |-> "walk", sum |-> pc[t].sum, next |-> pc[t].next]
  BY <1>1 DEF PcOK
<1>3. pc' = SetPc(pc, t, x)
  <2>1. pc' = [pc EXCEPT ![t].sum = @ + UNSLOB_UNITS(sp[pc[t].next].units),
                         ![t].next = LinkOf(pc[t].next)]
    BY DEF WalkStep
  <2>2. pc' = WalkTo(pc, t, n, m)
    BY <2>1 DEF WalkTo
  <2> HIDE DEF n, m
  <2> QED
    BY <1>1, <1>2, <2>2, WalkAssign
<1> HIDE DEF n, m
<1>4. PcOK(x) /\ x.at = "walk" /\ x.sum = n /\ x.next = m
  BY WalkOK
<1> HIDE DEF x
<1> QED
  BY <1>3, <1>4 DEF n, m

LEMMA WalkInv ==
    ASSUME SlobInv, NEW t \in Threads, WalkStart(t) \/ WalkStep(t) \/ WalkReturn(t)
    PROVE  SlobInv'
<1>1. UNCHANGED <<sp, list, slab, buddy, objs, pages_alloc>>
  BY DEF WalkStart, WalkStep, WalkReturn
<1>2. CASE WalkStart(t)
  <2> DEFINE m == IF list = << >> THEN END ELSE list[1]
             x == [at |-> "walk", sum |-> 0, next |-> m]
  <2>1. pc' = SetPc(pc, t, x) /\ pc[t].at = "idle"
    BY <1>2, IdleOK DEF WalkStart, SetPc
  <2> HIDE DEF m
  <2>2. PcOK(x) /\ x.at = "walk"
    BY WalkOK
  <2> HIDE DEF x
  <2>3. QuietStep(pc, t, pc')
    BY <2>1, <2>2, QuietFacts
  <2> QED
    BY <1>1, <2>3, Quiet
<1>3. CASE WalkStep(t)
  <2>1. PICK x : pc' = SetPc(pc, t, x) /\ x.at = "walk" /\ PcOK(x)
    BY <1>3, WalkStepTo
  <2>2. pc[t].at = "walk"
    BY <1>3 DEF WalkStep
  <2>3. QuietStep(pc, t, pc')
    BY <2>1, <2>2, QuietFacts
  <2> QED
    BY <1>1, <2>3, Quiet
<1>4. CASE WalkReturn(t)
  <2>1. pc' = SetPc(pc, t, Idle) /\ pc[t].at = "walk"
    BY <1>4 DEF WalkReturn, SetPc
  <2>2. QuietStep(pc, t, pc')
    BY <2>1, IdleOK, QuietFacts
  <2> QED
    BY <1>1, <2>2, Quiet
<1> QED
  BY <1>2, <1>3, <1>4

-----------------------------------------------------------------------------
(* Steps that move pages *)

\* What the step of thread t from c[t] to x does to the hands on a page.
Moved(c, t, x, d) ==
    /\ \A p : (p \in Hand(x) <=> p \in Hand(c[t])) => HandsOf(d, p) = HandsOf(c, p)
    /\ \A p : (p \in Mark(x) <=> p \in Mark(c[t])) => MarksOf(d, p) = MarksOf(c, p)
    /\ \A p : p \in Hand(x) /\ HandsOf(c, p) = {} => HandsOf(d, p) = {t}
    /\ \A p : p \notin Hand(x) /\ HandsOf(c, p) = {t} => HandsOf(d, p) = {}
    /\ \A p : p \in Mark(x) => t \in MarksOf(d, p)
    /\ \A p : MarksOf(d, p) \subseteq HandsOf(d, p) /\ MarksOf(c, p) \subseteq HandsOf(c, p)
    /\ \A p : p \notin Mark(x) => t \notin MarksOf(d, p)

LEMMA HandMoves ==
    ASSUME NEW c, ThreadsOK(c), NEW t \in Threads, NEW x
    PROVE  Moved(c, t, x, SetPc(c, t, x))
<1> DEFINE d == SetPc(c, t, x)
<1>1. /\ \A p : HandsOf(d, p) = IF p \in Hand(x) THEN HandsOf(c, p) \cup {t} ELSE HandsOf(c, p) \ {t}
      /\ \A p : MarksOf(d, p) = IF p \in Mark(x) THEN MarksOf(c, p) \cup {t} ELSE MarksOf(c, p) \ {t}
  BY PcChange
<1> HIDE DEF d
<1>2. \A p : (p \in Hand(c[t]) <=> t \in HandsOf(c, p)) /\ (p \in Mark(c[t]) <=> t \in MarksOf(c, p))
  BY DEF HandsOf, MarksOf
<1>3. ASSUME NEW p, p \in Hand(x) <=> p \in Hand(c[t]) PROVE HandsOf(d, p) = HandsOf(c, p)
  <2>1. HandsOf(d, p) = IF t \in HandsOf(c, p) THEN HandsOf(c, p) \cup {t} ELSE HandsOf(c, p) \ {t}
    BY <1>1, <1>2, <1>3
  <2> QED
    BY <2>1
<1>4. ASSUME NEW p, p \in Mark(x) <=> p \in Mark(c[t]) PROVE MarksOf(d, p) = MarksOf(c, p)
  <2>1. MarksOf(d, p) = IF t \in MarksOf(c, p) THEN MarksOf(c, p) \cup {t} ELSE MarksOf(c, p) \ {t}
    BY <1>1, <1>2, <1>4
  <2> QED
    BY <2>1
<1>5. ASSUME NEW p, p \in Hand(x), HandsOf(c, p) = {} PROVE HandsOf(d, p) = {t}
  BY <1>1, <1>5
<1>6. ASSUME NEW p, p \notin Hand(x), HandsOf(c, p) = {t} PROVE HandsOf(d, p) = {}
  BY <1>1, <1>6
<1>7. ASSUME NEW p PROVE (p \in Mark(x) => t \in MarksOf(d, p)) /\ (p \notin Mark(x) => t \notin MarksOf(d, p))
  BY <1>1
<1>8. \A p, e : MarksOf(e, p) \subseteq HandsOf(e, p)
  BY DEF MarksOf, HandsOf, Mark, Hand
<1>9. Moved(c, t, x, d)
  BY <1>3, <1>4, <1>5, <1>6, <1>7, <1>8 DEF Moved
<1> QED
  BY <1>9 DEF d

\* Who has a page in his hands, a page of the heap, of a large object.
LEMMA OwnerFacts ==
    ASSUME NEW B, NEW A, NEW O, NEW c, OwnersOK(B, A, O, c), NEW p \in Pages
    PROVE  /\ p \in B => p \notin HeapOf(O) /\ LargeOf(O, p) = {} /\ HandsOf(c, p) = {}
           /\ p \in HeapOf(O) => p \notin B /\ LargeOf(O, p) = {} /\ HandsOf(c, p) = {} /\ p \in A
           /\ \A o \in LargeOf(O, p) :
                 p \notin B /\ p \notin HeapOf(O) /\ LargeOf(O, p) = {o} /\ HandsOf(c, p) = {}
           /\ \A t \in HandsOf(c, p) :
                 p \notin B /\ p \notin HeapOf(O) /\ LargeOf(O, p) = {} /\ HandsOf(c, p) = {t}
           /\ p \in A <=> p \in HeapOf(O) \/ MarksOf(c, p) # {}
           /\ OneOwner(p, B, HeapOf(O), LargeOf(O, p), HandsOf(c, p))
<1>1. /\ OneOwner(p, B, HeapOf(O), LargeOf(O, p), HandsOf(c, p))
      /\ p \in A <=> p \in HeapOf(O) \/ MarksOf(c, p) # {}
  BY DEF OwnersOK
<1>2. \A o, x : o \in {x} => {x} = {o}
  OBVIOUS
<1> QED
  BY <1>1, <1>2 DEF OneOwner

\* slob_new_pages takes the pages ps for a request.
LEMMA TakenOK ==
    ASSUME NEW rq, RqOK(rq), NEW ps \in SUBSET Pages, ps # {},
           ~rq.big => \E p \in Pages : ps = {p}, NEW n \in Int
    PROVE  LET x == [at |-> "count", rq |-> rq, pages |-> ps, old |-> n]
           IN  PcOK(x) /\ Hand(x) = ps /\ Mark(x) = {}
<1> DEFINE x == [at |-> "count", rq |-> rq, pages |-> ps, old |-> n]
<1>1. x.at = "count" /\ x.rq = rq /\ x.pages = ps /\ x.old = n
  OBVIOUS
<1> HIDE DEF x
<1>2. PcOK(x)
  BY <1>1 DEF PcOK
<1>3. Hand(x) = ps /\ Mark(x) = {}
  BY <1>1 DEF Hand, Mark
<1> QED
  BY <1>2, <1>3 DEF x

LEMMA NewPagesInv ==
    ASSUME SlobInv, NEW t \in Threads, slob_new_pages(t)
    PROVE  SlobInv'
<1> DEFINE rq == pc[t].rq
           order == IF rq.big THEN get_order(rq.size) ELSE 0
<1>1. /\ HeapOK(sp, list, objs) /\ ThreadsOK(pc) /\ OwnersOK(buddy, slab, objs, pc)
      /\ slab \in SUBSET Pages /\ buddy \in SUBSET Pages /\ pages_alloc \in 0 .. UIntMod - 1
      /\ PcOK(pc[t])
  BY ThreadFacts DEF SlobInv
<1>2. pc[t].at = "new" /\ UNCHANGED <<sp, list, slab, objs, pages_alloc>>
  BY DEF slob_new_pages
<1>3. RqOK(rq)
  BY <1>1, <1>2 DEF PcOK
<1>4. PICK ps \in SUBSET buddy :
         /\ Cardinality(ps) = Frames[order]
         /\ buddy' = buddy \ ps
         /\ pc' = SetPc(pc, t, [at |-> "count", rq |-> rq, pages |-> ps, old |-> pages_alloc])
  BY DEF slob_new_pages, SetPc
<1> DEFINE x == [at |-> "count", rq |-> rq, pages |-> ps, old |-> pages_alloc]
<1>5. ps \in SUBSET Pages /\ ps # {} /\ (~rq.big => \E p \in Pages : ps = {p})
  <2>1. ps \in SUBSET Pages
    BY <1>1
  <2>2. IsFiniteSet(ps)
    BY <2>1, SlobAssumption, FS_Subset
  <2>3. order \in Nat
    <3>1. rq.size \in Nat
      BY <1>3 DEF RqOK
    <3> QED
      BY <3>1, OrderFacts
  <2>4. ~rq.big => order = 0
    OBVIOUS
  <2> HIDE DEF order
  <2>5. Cardinality(ps) > 0
    BY <1>4, <2>3, FramesFacts
  <2>6. ps # {}
    BY <2>5, FS_EmptySet
  <2>7. ASSUME ~rq.big PROVE \E p \in Pages : ps = {p}
    <3>1. Cardinality(ps) = 1
      BY <1>4, <2>4, <2>7, FramesFacts
    <3>2. \E p : ps = {p}
      BY <2>2, <3>1, FS_Singleton
    <3> QED
      BY <2>1, <3>2
  <2> QED
    BY <2>1, <2>6, <2>7
<1>6. pages_alloc \in Int
  BY <1>1
<1>7. PcOK(x) /\ Hand(x) = ps /\ Mark(x) = {}
  <2> HIDE DEF rq
  <2> QED
    BY <1>3, <1>5, <1>6, TakenOK
<1> HIDE DEF x, rq, order
<1>8. pc' = SetPc(pc, t, x)
  BY <1>4 DEF x
<1>9. ThreadsOK(pc') /\ Moved(pc, t, x, pc')
  BY <1>1, <1>7, <1>8, PcChange, HandMoves
<1>10. Hand(pc[t]) = {} /\ Mark(pc[t]) = {}
  BY <1>2, EmptyHands
<1>11. ASSUME NEW p \in Pages
       PROVE  /\ OneOwner(p, buddy', HeapOf(objs), LargeOf(objs, p), HandsOf(pc', p))
              /\ p \in slab <=> p \in HeapOf(objs) \/ MarksOf(pc', p) # {}
  <2>1. MarksOf(pc', p) = MarksOf(pc, p) /\ (p \in slab <=> p \in HeapOf(objs) \/ MarksOf(pc, p) # {})
    BY <1>1, <1>7, <1>9, <1>10, OwnerFacts DEF Moved
  <2>2. CASE p \in ps
    <3>1. p \notin HeapOf(objs) /\ LargeOf(objs, p) = {} /\ HandsOf(pc, p) = {}
      BY <1>1, <2>2, OwnerFacts
    <3>2. HandsOf(pc', p) = {t} /\ p \notin buddy'
      BY <1>4, <1>7, <1>9, <2>2, <3>1 DEF Moved
    <3> QED
      BY <2>1, <3>1, <3>2 DEF OneOwner
  <2>3. CASE p \notin ps
    <3>1. HandsOf(pc', p) = HandsOf(pc, p) /\ (p \in buddy' <=> p \in buddy)
      BY <1>4, <1>7, <1>9, <1>10, <2>3 DEF Moved
    <3>2. OneOwner(p, buddy, HeapOf(objs), LargeOf(objs, p), HandsOf(pc, p))
      BY <1>1, OwnerFacts
    <3> QED
      BY <2>1, <3>1, <3>2 DEF OneOwner
  <2> QED
    BY <2>2, <2>3
<1>12. OwnersOK(buddy', slab, objs, pc')
  BY <1>11 DEF OwnersOK
<1> QED
  BY <1>1, <1>2, <1>4, <1>9, <1>12 DEF SlobInv

\* pages_alloc wraps.
LEMMA Wraps ==
    ASSUME NEW n \in Int
    PROVE  n % UIntMod \in 0 .. UIntMod - 1
BY SlobAssumption

\* A page for the heap is marked with set_slob_page.
LEMMA MarkedOK ==
    ASSUME NEW rq, RqOK(rq), ~rq.big, NEW p \in Pages
    PROVE  LET x == [at |-> "init", rq |-> rq, pages |-> {p}]
           IN  PcOK(x) /\ Hand(x) = {p} /\ Mark(x) = {p}
<1> DEFINE x == [at |-> "init", rq |-> rq, pages |-> {p}]
<1>1. x.at = "init" /\ x.rq = rq /\ x.pages = {p}
  OBVIOUS
<1> HIDE DEF x
<1>2. PcOK(x)
  BY <1>1 DEF PcOK
<1>3. Hand(x) = {p} /\ Mark(x) = {p}
  BY <1>1 DEF Hand, Mark
<1> QED
  BY <1>2, <1>3 DEF x

\* An object with pages of its own.
LEMMA LargeObject ==
    ASSUME NEW rq, RqOK(rq), rq.big, NEW ps \in SUBSET Pages, ps # {}
    PROVE  LET o == Object(rq, ps, 0) IN ObjOK(o) /\ o.big /\ o.pages = ps
<1> DEFINE o == Object(rq, ps, 0)
<1>1. o = [kind |-> rq.kind, cache |-> rq.cache, size |-> rq.size, align |-> rq.align,
           big |-> rq.big, pages |-> ps, at |-> 0]
  BY DEF Object
<1> HIDE DEF o
<1>2. /\ rq.kind \in Kinds /\ rq.cache \in Caches \cup {NoCache} /\ rq.size \in Nat \ {0}
      /\ rq.align \in Nat /\ rq.big \in BOOLEAN
  BY DEF RqOK
<1>3. rq = Request(o.kind, o.cache, o.size, o.align, o.big)
  BY <1>1 DEF RqOK, Request
<1>4. o \in [kind : Kinds, cache : Caches \cup {NoCache}, size : Nat \ {0}, align : Nat,
             big : BOOLEAN, pages : SUBSET Pages, at : Nat]
  BY <1>1, <1>2
<1>5. o.big /\ o.pages = ps
  BY <1>1
<1> QED
  BY <1>3, <1>4, <1>5 DEF ObjOK, o

\* Large objects come and go without the heap noticing.
LEMMA LargeHeap ==
    ASSUME NEW S, NEW L, NEW O, HeapOK(S, L, O), NEW N, \A o \in N : ObjOK(o),
           \A p \in Pages : Here(N, p) = Here(O, p)
    PROVE  HeapOK(S, L, N) /\ HeapOf(N) = HeapOf(O)
<1>1. HeapOf(N) = HeapOf(O) /\ \A p \in Pages : FreeOf(N, p) = FreeOf(O, p)
  BY DEF HeapOf, FreeOf
<1>2. Apart(N)
  BY DEF HeapOK, Apart
<1>3. HeapOf(O) \subseteq Pages
  BY DEF HeapOf
<1> QED
  BY <1>1, <1>2, <1>3 DEF HeapOK

LEMMA CountPagesInv ==
    ASSUME SlobInv, NEW t \in Threads, CountPages(t)
    PROVE  SlobInv'
<1> DEFINE rq == pc[t].rq
           ps == pc[t].pages
<1>1. /\ HeapOK(sp, list, objs) /\ ThreadsOK(pc) /\ OwnersOK(buddy, slab, objs, pc)
      /\ slab \in SUBSET Pages /\ buddy \in SUBSET Pages /\ PcOK(pc[t])
  BY ThreadFacts DEF SlobInv
<1>2. /\ pc[t].at = "count" /\ UNCHANGED <<sp, list, buddy>>
      /\ pages_alloc' = (pc[t].old + 1) % UIntMod
  BY DEF CountPages
<1>3. /\ RqOK(rq) /\ ps \in SUBSET Pages /\ ps # {} /\ pc[t].old \in Int
      /\ ~rq.big => \E p \in Pages : ps = {p}
  BY <1>1, <1>2 DEF PcOK
<1>4. pages_alloc' \in 0 .. UIntMod - 1
  BY <1>2, <1>3, Wraps
<1>5. Hand(pc[t]) = ps /\ Mark(pc[t]) = {}
  BY <1>2 DEF Hand, Mark
<1>6. ASSUME NEW p \in ps
      PROVE  p \in Pages /\ HandsOf(pc, p) = {t} /\ p \notin buddy /\ p \notin HeapOf(objs) /\ LargeOf(objs, p) = {}
  <2>1. p \in Pages /\ t \in HandsOf(pc, p)
    BY <1>3, <1>5 DEF HandsOf
  <2> QED
    BY <1>1, <2>1, OwnerFacts
<1>7. CASE rq.big
  <2> DEFINE o == Object(rq, ps, 0)
  <2>1. objs' = objs \cup {o} /\ pc' = SetPc(pc, t, Idle) /\ slab' = slab
    BY <1>7 DEF CountPages, SetPc
  <2> HIDE DEF rq, ps
  <2>2. ObjOK(o) /\ o.big /\ o.pages = ps
    BY <1>3, <1>7, LargeObject
  <2> HIDE DEF o
  <2>3. HeapOK(sp, list, objs') /\ HeapOf(objs') = HeapOf(objs)
    <3>1. \A x \in objs' : ObjOK(x)
      BY <1>1, <2>1, <2>2 DEF HeapOK
    <3>2. \A p \in Pages : Here(objs', p) = Here(objs, p)
      BY <2>1, <2>2 DEF Here
    <3> QED
      BY <1>1, <3>1, <3>2, LargeHeap
  <2>4. ThreadsOK(pc') /\ Moved(pc, t, Idle, pc')
    BY <1>1, <2>1, IdleOK, PcChange, HandMoves
  <2>5. ASSUME NEW p \in Pages
        PROVE  /\ OneOwner(p, buddy, HeapOf(objs'), LargeOf(objs', p), HandsOf(pc', p))
               /\ p \in slab <=> p \in HeapOf(objs') \/ MarksOf(pc', p) # {}
    <3>1. MarksOf(pc', p) = MarksOf(pc, p) /\ (p \in slab <=> p \in HeapOf(objs) \/ MarksOf(pc, p) # {})
      BY <1>1, <1>5, <2>4, IdleOK, OwnerFacts DEF Moved
    <3>2. CASE p \in ps
      <4>1. HandsOf(pc', p) = {}
        BY <1>6, <2>4, <3>2, IdleOK DEF Moved
      <4>2. LargeOf(objs', p) = {o}
        BY <1>6, <2>1, <2>2, <3>2 DEF LargeOf
      <4> QED
        BY <1>6, <2>3, <3>1, <3>2, <4>1, <4>2 DEF OneOwner
    <3>3. CASE p \notin ps
      <4>1. HandsOf(pc', p) = HandsOf(pc, p)
        BY <1>5, <2>4, <3>3, IdleOK DEF Moved
      <4>2. LargeOf(objs', p) = LargeOf(objs, p)
        BY <2>1, <2>2, <3>3 DEF LargeOf
      <4> QED
        BY <1>1, <2>3, <3>1, <4>1, <4>2, OwnerFacts
    <3> QED
      BY <3>2, <3>3
  <2>6. OwnersOK(buddy, slab, objs', pc')
    BY <2>5 DEF OwnersOK
  <2> QED
    BY <1>1, <1>2, <1>4, <2>1, <2>3, <2>4, <2>6 DEF SlobInv
<1>8. CASE ~rq.big
  <2>1. PICK q \in Pages : ps = {q}
    BY <1>3, <1>8
  <2> DEFINE x == [at |-> "init", rq |-> rq, pages |-> {q}]
  <2>2. objs' = objs /\ slab' = slab \cup {q} /\ pc' = SetPc(pc, t, x)
    BY <1>8, <2>1 DEF CountPages, SetPc
  <2> HIDE DEF rq, ps
  <2>3. PcOK(x) /\ Hand(x) = {q} /\ Mark(x) = {q}
    BY <1>3, <1>8, MarkedOK
  <2> HIDE DEF x
  <2>4. ThreadsOK(pc') /\ Moved(pc, t, x, pc')
    BY <1>1, <2>2, <2>3, PcChange, HandMoves
  <2>5. ASSUME NEW p \in Pages
        PROVE  /\ OneOwner(p, buddy, HeapOf(objs), LargeOf(objs, p), HandsOf(pc', p))
               /\ p \in slab' <=> p \in HeapOf(objs) \/ MarksOf(pc', p) # {}
    <3>1. HandsOf(pc', p) = HandsOf(pc, p)
      BY <1>5, <2>1, <2>3, <2>4 DEF Moved
    <3>2. /\ OneOwner(p, buddy, HeapOf(objs), LargeOf(objs, p), HandsOf(pc, p))
          /\ p \in slab <=> p \in HeapOf(objs) \/ MarksOf(pc, p) # {}
      BY <1>1, OwnerFacts
    <3>3. CASE p = q
      <4>1. t \in MarksOf(pc', p)
        BY <2>3, <2>4, <3>3 DEF Moved
      <4> QED
        BY <2>2, <3>1, <3>2, <3>3, <4>1
    <3>4. CASE p # q
      <4>1. MarksOf(pc', p) = MarksOf(pc, p)
        BY <1>5, <2>3, <2>4, <3>4 DEF Moved
      <4> QED
        BY <2>2, <3>1, <3>2, <3>4, <4>1
    <3> QED
      BY <3>3, <3>4
  <2>6. OwnersOK(buddy, slab', objs, pc')
    BY <2>5 DEF OwnersOK
  <2>7. slab' \in SUBSET Pages
    BY <1>1, <2>2
  <2> QED
    BY <1>1, <1>2, <1>4, <2>2, <2>4, <2>6, <2>7 DEF SlobInv
<1> QED
  BY <1>7, <1>8

\* The page on its way back to the page allocator.
LEMMA DroppedOK ==
    ASSUME NEW p \in Pages
    PROVE  /\ LET x == [at |-> "drop", pages |-> {p}]
              IN  PcOK(x) /\ Hand(x) = {p} /\ Mark(x) = {p}
           /\ \A n \in Int : LET x == [at |-> "uncount", pages |-> {p}, old |-> n]
                             IN  PcOK(x) /\ Hand(x) = {p} /\ Mark(x) = {}
<1>1. ASSUME NEW x, x.at = "drop", x.pages = {p} PROVE PcOK(x) /\ Hand(x) = {p} /\ Mark(x) = {p}
  BY <1>1 DEF PcOK, Hand, Mark
<1>2. ASSUME NEW x, x.at = "uncount", x.pages = {p}, x.old \in Int PROVE PcOK(x) /\ Hand(x) = {p} /\ Mark(x) = {}
  BY <1>2 DEF PcOK, Hand, Mark
<1> QED
  BY <1>1, <1>2

LEMMA DropPageInv ==
    ASSUME SlobInv, NEW t \in Threads, DropPage(t)
    PROVE  SlobInv'
<1>1. /\ HeapOK(sp, list, objs) /\ ThreadsOK(pc) /\ OwnersOK(buddy, slab, objs, pc)
      /\ slab \in SUBSET Pages /\ buddy \in SUBSET Pages /\ PcOK(pc[t])
      /\ pages_alloc \in 0 .. UIntMod - 1
  BY ThreadFacts DEF SlobInv
<1>2. pc[t].at = "drop" /\ UNCHANGED <<sp, list, buddy, objs, pages_alloc>>
  BY DEF DropPage
<1>3. PICK q \in Pages : pc[t].pages = {q}
  BY <1>1, <1>2 DEF PcOK
<1> DEFINE x == [at |-> "uncount", pages |-> {q}, old |-> pages_alloc]
<1>4. slab' = slab \ {q} /\ pc' = SetPc(pc, t, x)
  BY <1>3 DEF DropPage, SetPc
<1>5. pages_alloc \in Int
  BY <1>1
<1>6. PcOK(x) /\ Hand(x) = {q} /\ Mark(x) = {}
  BY <1>5, DroppedOK
<1> HIDE DEF x
<1>7. Hand(pc[t]) = {q} /\ Mark(pc[t]) = {q}
  BY <1>2, <1>3 DEF Hand, Mark
<1>8. ThreadsOK(pc') /\ Moved(pc, t, x, pc')
  BY <1>1, <1>4, <1>6, PcChange, HandMoves
<1>9. ASSUME NEW p \in Pages
      PROVE  /\ OneOwner(p, buddy, HeapOf(objs), LargeOf(objs, p), HandsOf(pc', p))
             /\ p \in slab' <=> p \in HeapOf(objs) \/ MarksOf(pc', p) # {}
  <2>1. HandsOf(pc', p) = HandsOf(pc, p)
    BY <1>6, <1>7, <1>8 DEF Moved
  <2>2. /\ OneOwner(p, buddy, HeapOf(objs), LargeOf(objs, p), HandsOf(pc, p))
        /\ p \in slab <=> p \in HeapOf(objs) \/ MarksOf(pc, p) # {}
    BY <1>1, OwnerFacts
  <2>3. CASE p = q
    <3>1. t \in HandsOf(pc, p)
      BY <1>7, <2>3 DEF HandsOf
    <3>2. p \notin HeapOf(objs) /\ HandsOf(pc, p) = {t}
      BY <1>1, <3>1, OwnerFacts
    <3>3. t \notin MarksOf(pc', p) /\ MarksOf(pc', p) \subseteq HandsOf(pc', p)
      BY <1>6, <1>8 DEF Moved
    <3>4. MarksOf(pc', p) = {}
      BY <2>1, <3>2, <3>3
    <3> QED
      BY <1>4, <2>1, <2>2, <2>3, <3>2, <3>4
  <2>4. CASE p # q
    <3>1. MarksOf(pc', p) = MarksOf(pc, p)
      BY <1>6, <1>7, <1>8, <2>4 DEF Moved
    <3> QED
      BY <1>4, <2>1, <2>2, <2>4, <3>1
  <2> QED
    BY <2>3, <2>4
<1>10. OwnersOK(buddy, slab', objs, pc')
  BY <1>9 DEF OwnersOK
<1>11. slab' \in SUBSET Pages
  BY <1>1, <1>4
<1> QED
  BY <1>1, <1>2, <1>8, <1>10, <1>11 DEF SlobInv

LEMMA UncountPageInv ==
    ASSUME SlobInv, NEW t \in Threads, UncountPage(t)
    PROVE  SlobInv'
<1>1. /\ HeapOK(sp, list, objs) /\ ThreadsOK(pc) /\ OwnersOK(buddy, slab, objs, pc)
      /\ slab \in SUBSET Pages /\ buddy \in SUBSET Pages /\ PcOK(pc[t])
  BY ThreadFacts DEF SlobInv
<1>2. /\ pc[t].at = "uncount" /\ UNCHANGED <<list, slab, objs>>
      /\ pages_alloc' = (pc[t].old - 1) % UIntMod /\ pc' = SetPc(pc, t, Idle)
  BY DEF UncountPage, SetPc
<1>3. pc[t].old - 1 \in Int /\ \E q \in Pages : pc[t].pages = {q}
  BY <1>1, <1>2 DEF PcOK
<1>4. PICK q \in Pages : pc[t].pages = {q}
  BY <1>3
<1>5. buddy' = buddy \cup {q} /\ sp' = [p \in Pages |-> IF p = q THEN FreshPage ELSE sp[p]]
  BY <1>4 DEF UncountPage
<1>6. pages_alloc' \in 0 .. UIntMod - 1
  <2> DEFINE n == pc[t].old - 1
  <2>1. n \in Int /\ pages_alloc' = n % UIntMod
    BY <1>2, <1>3
  <2> HIDE DEF n
  <2> QED
    BY <2>1, Wraps
<1>7. Hand(pc[t]) = {q} /\ Mark(pc[t]) = {}
  BY <1>2, <1>4 DEF Hand, Mark
<1>8. ThreadsOK(pc') /\ Moved(pc, t, Idle, pc')
  BY <1>1, <1>2, IdleOK, PcChange, HandMoves
<1>9. HandsOf(pc, q) = {t} /\ q \notin HeapOf(objs) /\ LargeOf(objs, q) = {}
  <2>1. t \in HandsOf(pc, q)
    BY <1>7 DEF HandsOf
  <2> QED
    BY <1>1, <2>1, OwnerFacts
<1>10. HeapOK(sp', list, objs)
  <2>1. FreshPage \in PageState
    <3>1. 0 \in 0 .. PageUnits /\ 0 \in -PageUnits .. PageUnits
      BY PageFacts
    <3>2. [i \in Offsets |-> 0] \in [Offsets -> -PageUnits .. PageUnits]
      BY <3>1
    <3> QED
      BY <3>1, <3>2 DEF FreshPage, PageState
  <2>2. sp \in [Pages -> PageState]
    BY <1>1 DEF HeapOK
  <2>3. sp' \in [Pages -> PageState]
    BY <1>5, <2>1, <2>2
  <2>4. HeapOf(objs) \subseteq Pages
    BY DEF HeapOf
  <2>5. \A p \in HeapOf(objs) : sp'[p] = sp[p]
    BY <1>5, <1>9, <2>4
  <2> QED
    BY <1>1, <2>3, <2>5 DEF HeapOK
<1>11. ASSUME NEW p \in Pages
       PROVE  /\ OneOwner(p, buddy', HeapOf(objs), LargeOf(objs, p), HandsOf(pc', p))
              /\ p \in slab <=> p \in HeapOf(objs) \/ MarksOf(pc', p) # {}
  <2>1. MarksOf(pc', p) = MarksOf(pc, p)
    BY <1>7, <1>8, IdleOK DEF Moved
  <2>2. /\ OneOwner(p, buddy, HeapOf(objs), LargeOf(objs, p), HandsOf(pc, p))
        /\ p \in slab <=> p \in HeapOf(objs) \/ MarksOf(pc, p) # {}
    BY <1>1, OwnerFacts
  <2>3. CASE p = q
    <3>1. HandsOf(pc', p) = {} /\ p \in buddy'
      BY <1>5, <1>8, <1>9, <2>3, IdleOK DEF Moved
    <3> QED
      BY <1>9, <2>1, <2>2, <2>3, <3>1 DEF OneOwner
  <2>4. CASE p # q
    <3>1. HandsOf(pc', p) = HandsOf(pc, p) /\ (p \in buddy' <=> p \in buddy)
      BY <1>5, <1>7, <1>8, <2>4, IdleOK DEF Moved
    <3> QED
      BY <2>1, <2>2, <3>1 DEF OneOwner
  <2> QED
    BY <2>3, <2>4
<1>12. OwnersOK(buddy', slab, objs, pc')
  BY <1>11 DEF OwnersOK
<1>13. buddy' \in SUBSET Pages
  BY <1>1, <1>5
<1> QED
  BY <1>1, <1>2, <1>6, <1>8, <1>10, <1>12, <1>13 DEF SlobInv

-----------------------------------------------------------------------------
(* slob_alloc *)

\* The second search finds the one block of a new page.
LEMMA SecondSearch ==
    ASSUME NEW p \in Pages, NEW pg, Exact(pg, Offsets), NEW rq, RqOK(rq), ~rq.big
    PROVE  LET b == slob_page_alloc(p, pg, rq)
           IN  /\ b # NoBlock /\ b.page = p /\ FreeBlock(b, pg.words, Offsets)
               /\ Fits(b, SLOB_UNITS(rq.size), rq.align \div SLOB_UNIT)
<1> DEFINE k == SLOB_UNITS(rq.size)
           a == rq.align \div SLOB_UNIT
           q == BlocksOf(p, pg)
           I == {j \in 1 .. Len(q) : Fits(q[j], k, a)}
           i == SelectInSeq(q, LAMBDA b : Fits(b, SLOB_UNITS(rq.size), rq.align \div SLOB_UNIT))
           w == pg.words
<1>1. k \in Int /\ k >= 1 /\ k <= PageUnits /\ a \in Nat \ {0}
  BY RqFacts
<1>2. slob_page_alloc(p, pg, rq) = IF i = 0 THEN NoBlock ELSE q[i]
  BY DEF slob_page_alloc
<1>3. i = IF I # {} THEN Min(I) ELSE 0
  BY DEF SelectInSeq
<1> HIDE DEF k, a
<1>4. FreeList(q, p, pg, Offsets)
  BY BlocksOfFacts
<1> HIDE DEF q, i
<1>5. /\ q \in Seq(FreeBlocks) /\ Len(q) \in Nat
      /\ \A j \in 1 .. Len(q) : q[j].page = p /\ FreeBlock(q[j], w, Offsets)
      /\ \A s \in Heads(Offsets) : \E j \in 1 .. Len(q) : q[j].cur = s
  BY <1>4 DEF FreeList
<1>6. PageUnits \in Int /\ PageUnits > 1 /\ 0 \in Offsets
  BY PageFacts, OffsetFacts
<1>7. 0 \in Heads(Offsets)
  BY <1>6, OffsetFacts DEF Heads
<1>8. slob_units(w, 0) = PageUnits
  <2>1. PICK u, n \in 1 .. PageUnits : Header(w, 0, u, n) /\ Block(Offsets, 0, u, n)
    BY <1>7 DEF Exact, Sound
  <2>2. u \in Int /\ n \in Int /\ u >= 1 /\ u <= PageUnits /\ n <= PageUnits
    BY <1>6, <2>1
  <2>3. u = PageUnits
    <3>1. /\ 0 + u <= n /\ (\A j \in 0 + u .. n - 1 : j \notin Offsets)
          /\ (n < PageUnits => 0 + u < n)
      BY <2>1 DEF Block
    <3>2. SUFFICES ASSUME u < PageUnits PROVE FALSE
      BY <1>6, <2>2
    <3>3. u \in Offsets
      BY <2>2, <3>2, OffsetFacts
    <3>4. u < n
      BY <1>6, <2>2, <3>1, <3>2
    <3>5. u \in 0 + u .. n - 1
      BY <2>2, <3>4
    <3> QED
      BY <3>1, <3>3, <3>5
  <2>4. slob_units(w, 0) = u
    BY <2>1, <2>2 DEF Header, slob_units
  <2> QED
    BY <2>3, <2>4
<1>9. PICK j \in 1 .. Len(q) : q[j].cur = 0
  BY <1>5, <1>7
<1>10. Fits(q[j], k, a)
  <2>1. q[j].avail = PageUnits
    BY <1>5, <1>8, <1>9 DEF FreeBlock
  <2>2. (-0) % a = 0
    BY <1>1
  <2>3. Delta(q[j].cur, a) = 0
    BY <1>9, <2>2 DEF Delta
  <2> QED
    BY <1>1, <1>6, <2>1, <2>3 DEF Fits
<1>11. I # {} /\ I \in SUBSET Nat
  BY <1>9, <1>10
<1>12. \E m \in I : \A y \in I : m <= y
  BY <1>11, MinNat
<1>13. i \in I
  <2> HIDE DEF I
  <2> QED
    BY <1>3, <1>11, <1>12 DEF Min
<1>14. i \in 1 .. Len(q) /\ i # 0 /\ Fits(q[i], k, a)
  BY <1>13
<1>15. q[i].page = p /\ FreeBlock(q[i], w, Offsets)
  BY <1>5, <1>14
<1>16. q[i] # NoBlock
  <2>1. q[i] \in FreeBlocks
    BY <1>5, <1>14
  <2> QED
    BY <1>1, <2>1, BlockFacts
<1> QED
  BY <1>2, <1>14, <1>15, <1>16 DEF k, a

LEMMA AllocateInv ==
    ASSUME SlobInv, NEW t \in Threads, NEW rq \in Requests, Allocate(t, rq)
    PROVE  SlobInv'
<1>1. /\ HeapOK(sp, list, objs) /\ ThreadsOK(pc) /\ OwnersOK(buddy, slab, objs, pc)
      /\ slab \in SUBSET Pages /\ buddy \in SUBSET Pages /\ pages_alloc \in 0 .. UIntMod - 1
  BY DEF SlobInv
<1>2. pc[t].at = "idle" /\ UNCHANGED <<slab, buddy, pages_alloc>>
  BY IdleOK DEF Allocate
<1>3. RqOK(rq)
  BY RequestsOK
<1> DEFINE b == find_best_fit_block(rq)
<1>4. CASE rq.big \/ b = NoBlock
  <2> DEFINE x == [at |-> "new", rq |-> rq]
  <2>1. pc' = SetPc(pc, t, x) /\ UNCHANGED <<sp, list, objs>>
    BY <1>4 DEF Allocate, SetPc
  <2>2. PcOK(x) /\ x.at = "new"
    BY <1>3, NewOK
  <2> HIDE DEF x
  <2>3. QuietStep(pc, t, pc')
    BY <1>2, <2>1, <2>2, QuietFacts
  <2> QED
    BY <1>2, <2>1, <2>3, Quiet
<1>5. CASE ~(rq.big \/ b = NoBlock)
  <2>1. Place(rq, b, sp[b.page], list) /\ pc' = pc
    BY <1>5 DEF Allocate
  <2>2. Placed(rq, b, sp[b.page], list, sp, objs, sp', list', objs')
    BY <2>1 DEF Place, Placed
  <2>3. /\ b.page \in Range(list) /\ FreeBlock(b, sp[b.page].words, FreeOf(objs, b.page))
        /\ Fits(b, SLOB_UNITS(rq.size), rq.align \div SLOB_UNIT)
    BY <1>1, <1>3, <1>5, FoundFacts
  <2> DEFINE p == b.page
             pg == sp[p]
  <2> HIDE DEF b
  <2>4. p \in Pages /\ p \in HeapOf(objs) /\ Exact(pg, FreeOf(objs, p))
    BY <1>1, <2>3, ListedFacts
  <2>5. list \in Seq(Pages) /\ Once(list) /\ Range(list) = Range(list) \cup {p}
    BY <1>1, <2>3 DEF HeapOK
  <2>6. /\ HeapOK(sp', list', objs') /\ HeapOf(objs') = HeapOf(objs) \cup {p}
        /\ \E o : ~o.big /\ objs' = objs \cup {o}
    <3>1. /\ FreeBlock(b, pg.words, FreeOf(objs, p)) /\ b.page = p
          /\ Placed(rq, b, pg, list, sp, objs, sp', list', objs') /\ ~rq.big
      BY <1>5, <2>2, <2>3
    <3> HIDE DEF p, pg
    <3> QED
      BY <1>1, <1>3, <2>3, <2>4, <2>5, <3>1, PlaceHeap
  <2>7. HeapOf(objs') = HeapOf(objs) /\ \A x \in Pages : LargeOf(objs', x) = LargeOf(objs, x)
    BY <2>4, <2>6 DEF LargeOf
  <2>8. OwnersOK(buddy, slab, objs', pc)
    BY <1>1, <2>7, SameOwners
  <2> QED
    BY <1>1, <1>2, <2>1, <2>6, <2>8 DEF SlobInv
<1> QED
  BY <1>4, <1>5

\* A new page is one free block.
LEMMA NewPageExact == Exact(OnlyBlock(FreshPage.words, 0, PageUnits), Offsets)
<1> DEFINE v == FreshPage.words
<1>1. PageUnits \in Int /\ PageUnits > 1 /\ 0 \in Offsets
  BY PageFacts, OffsetFacts
<1>2. v \in [Offsets -> Int]
  BY DEF FreshPage
<1> HIDE DEF v
<1>3. Exact(OnlyBlock(v, 0, PageUnits), 0 .. 0 + PageUnits - 1)
  BY <1>1, <1>2, OneBlock
<1>4. 0 .. 0 + PageUnits - 1 = Offsets
  BY <1>1 DEF Offsets
<1> QED
  BY <1>3, <1>4 DEF v

LEMMA AddPageInv ==
    ASSUME SlobInv, NEW t \in Threads, AddPage(t)
    PROVE  SlobInv'
<1> DEFINE rq == pc[t].rq
           pg == OnlyBlock(FreshPage.words, 0, PageUnits)
<1>1. /\ HeapOK(sp, list, objs) /\ ThreadsOK(pc) /\ OwnersOK(buddy, slab, objs, pc)
      /\ slab \in SUBSET Pages /\ buddy \in SUBSET Pages /\ pages_alloc \in 0 .. UIntMod - 1
      /\ PcOK(pc[t])
  BY ThreadFacts DEF SlobInv
<1>2. pc[t].at = "init" /\ UNCHANGED <<slab, buddy, pages_alloc>>
  BY DEF AddPage
<1>3. RqOK(rq) /\ ~rq.big /\ \E q \in Pages : pc[t].pages = {q}
  BY <1>1, <1>2 DEF PcOK
<1>4. PICK p \in Pages : pc[t].pages = {p}
  BY <1>3
<1> DEFINE b == slob_page_alloc(p, pg, rq)
<1>5. (CHOOSE q \in pc[t].pages : TRUE) = p
  BY <1>4
<1>6. /\ b # NoBlock => Place(rq, b, pg, Cons(p, list)) /\ pc' = SetPc(pc, t, Idle)
  BY <1>5 DEF AddPage, SetPc, OnlyBlock
<1>7. Hand(pc[t]) = {p} /\ Mark(pc[t]) = {p}
  BY <1>2, <1>4 DEF Hand, Mark
<1>8. HandsOf(pc, p) = {t} /\ p \notin buddy /\ p \notin HeapOf(objs) /\ LargeOf(objs, p) = {} /\ p \in slab
  <2>1. t \in HandsOf(pc, p) /\ t \in MarksOf(pc, p)
    BY <1>7 DEF HandsOf, MarksOf
  <2> QED
    BY <1>1, <2>1, OwnerFacts
<1>9. Exact(pg, Offsets) /\ FreeOf(objs, p) = Offsets
  BY <1>8, NewPageExact, EmptyPage
<1> HIDE DEF rq, pg
<1>10. /\ b # NoBlock /\ b.page = p /\ FreeBlock(b, pg.words, Offsets)
       /\ Fits(b, SLOB_UNITS(rq.size), rq.align \div SLOB_UNIT)
  BY <1>3, <1>9, SecondSearch
<1> HIDE DEF b
<1> DEFINE onlist == Cons(p, list)
<1>11. onlist \in Seq(Pages) /\ Once(onlist) /\ Range(onlist) = Range(list) \cup {p}
  <2>1. list \in Seq(Pages) /\ Once(list) /\ p \notin Range(list)
    BY <1>1, <1>8 DEF HeapOK
  <2> QED
    BY <2>1, ConsFacts
<1>12. pc' = SetPc(pc, t, Idle) /\ Placed(rq, b, pg, onlist, sp, objs, sp', list', objs')
  BY <1>6, <1>10 DEF Place, Placed
<1> HIDE DEF onlist
<1>13. /\ HeapOK(sp', list', objs') /\ HeapOf(objs') = HeapOf(objs) \cup {p}
       /\ \E o : ~o.big /\ objs' = objs \cup {o}
  <2>1. Exact(pg, FreeOf(objs, p)) /\ FreeBlock(b, pg.words, FreeOf(objs, p))
    BY <1>9, <1>10
  <2> QED
    BY <1>1, <1>3, <1>10, <1>11, <1>12, <2>1, PlaceHeap
<1>14. \A x \in Pages : LargeOf(objs', x) = LargeOf(objs, x)
  BY <1>13 DEF LargeOf
<1>15. ThreadsOK(pc') /\ Moved(pc, t, Idle, pc')
  BY <1>1, <1>12, IdleOK, PcChange, HandMoves
<1>16. ASSUME NEW x \in Pages
       PROVE  /\ OneOwner(x, buddy, HeapOf(objs'), LargeOf(objs', x), HandsOf(pc', x))
              /\ x \in slab <=> x \in HeapOf(objs') \/ MarksOf(pc', x) # {}
  <2>1. CASE x = p
    <3>1. HandsOf(pc', x) = {}
      BY <1>8, <1>15, <2>1, IdleOK DEF Moved
    <3> QED
      BY <1>8, <1>13, <1>14, <2>1, <3>1 DEF OneOwner
  <2>2. CASE x # p
    <3>1. HandsOf(pc', x) = HandsOf(pc, x) /\ MarksOf(pc', x) = MarksOf(pc, x)
      BY <1>7, <1>15, <2>2, IdleOK DEF Moved
    <3>2. /\ OneOwner(x, buddy, HeapOf(objs), LargeOf(objs, x), HandsOf(pc, x))
          /\ x \in slab <=> x \in HeapOf(objs) \/ MarksOf(pc, x) # {}
      BY <1>1, OwnerFacts
    <3>3. x \in HeapOf(objs') <=> x \in HeapOf(objs)
      BY <1>13, <2>2
    <3> QED
      BY <1>14, <3>1, <3>2, <3>3 DEF OneOwner
  <2> QED
    BY <2>1, <2>2
<1>17. OwnersOK(buddy, slab, objs', pc')
  BY <1>16 DEF OwnersOK
<1> QED
  BY <1>1, <1>2, <1>13, <1>15, <1>17 DEF SlobInv

-----------------------------------------------------------------------------
(* slob_free and its callers *)

LEMMA SlobFreeInv ==
    ASSUME SlobInv, NEW t \in Threads, pc[t].at = "idle", NEW o \in objs, ~o.big,
           slob_free(t, o), objs' = objs \ {o}, UNCHANGED <<slab, buddy, pages_alloc>>
    PROVE  SlobInv'
<1> DEFINE k == SLOB_UNITS(o.size)
<1>1. /\ HeapOK(sp, list, objs) /\ ThreadsOK(pc) /\ OwnersOK(buddy, slab, objs, pc)
      /\ slab \in SUBSET Pages /\ buddy \in SUBSET Pages /\ pages_alloc \in 0 .. UIntMod - 1
  BY DEF SlobInv
<1>2. PICK p \in Pages : o.pages = {p}
  BY <1>1, ObjFacts DEF HeapOK
<1>3. (CHOOSE q \in o.pages : TRUE) = p
  BY <1>2
<1> DEFINE x == [at |-> "drop", pages |-> {p}]
<1>4. /\ Returned(sp, list, p, o.at, k, sp', list')
      /\ pc' = IF sp[p].units + k = PageUnits THEN SetPc(pc, t, x) ELSE pc
  BY <1>3 DEF slob_free, Returned, SetPc, SetPage, OnlyBlock
<1>5. /\ HeapOK(sp', list', objs') /\ p \in HeapOf(objs)
      /\ HeapOf(objs') = IF sp[p].units + k = PageUnits THEN HeapOf(objs) \ {p} ELSE HeapOf(objs)
  <2>1. HeapAfter(sp, objs, p, k, sp', list', objs \ {o})
    BY <1>1, <1>2, <1>4, FreeHeap
  <2>2. HeapAfter(sp, objs, p, k, sp', list', objs')
    BY <2>1
  <2> QED
    BY <2>2 DEF HeapAfter
<1>6. \A y \in Pages : LargeOf(objs', y) = LargeOf(objs, y)
  BY DEF LargeOf
<1>7. CASE sp[p].units + k # PageUnits
  <2>1. OwnersOK(buddy, slab, objs', pc)
    BY <1>1, <1>5, <1>6, <1>7, SameOwners
  <2> QED
    BY <1>1, <1>4, <1>5, <1>7, <2>1 DEF SlobInv
<1>8. CASE sp[p].units + k = PageUnits
  <2>1. PcOK(x) /\ Hand(x) = {p} /\ Mark(x) = {p}
    BY DroppedOK
  <2> HIDE DEF x
  <2>2. ThreadsOK(pc') /\ Moved(pc, t, x, pc')
    BY <1>1, <1>4, <1>8, <2>1, PcChange, HandMoves
  <2>3. Hand(pc[t]) = {} /\ Mark(pc[t]) = {}
    BY EmptyHands
  <2>4. ASSUME NEW y \in Pages
        PROVE  /\ OneOwner(y, buddy, HeapOf(objs'), LargeOf(objs', y), HandsOf(pc', y))
               /\ y \in slab <=> y \in HeapOf(objs') \/ MarksOf(pc', y) # {}
    <3>1. CASE y = p
      <4>1. p \notin buddy /\ LargeOf(objs, p) = {} /\ HandsOf(pc, p) = {} /\ p \in slab
        BY <1>1, <1>5, OwnerFacts
      <4>2. HandsOf(pc', p) = {t} /\ t \in MarksOf(pc', p)
        BY <2>1, <2>2, <4>1 DEF Moved
      <4>3. p \notin HeapOf(objs')
        BY <1>5, <1>8
      <4> QED
        BY <1>6, <3>1, <4>1, <4>2, <4>3 DEF OneOwner
    <3>2. CASE y # p
      <4>1. HandsOf(pc', y) = HandsOf(pc, y) /\ MarksOf(pc', y) = MarksOf(pc, y)
        BY <2>1, <2>2, <2>3, <3>2 DEF Moved
      <4>2. /\ OneOwner(y, buddy, HeapOf(objs), LargeOf(objs, y), HandsOf(pc, y))
            /\ y \in slab <=> y \in HeapOf(objs) \/ MarksOf(pc, y) # {}
        BY <1>1, OwnerFacts
      <4>3. y \in HeapOf(objs') <=> y \in HeapOf(objs)
        BY <1>5, <1>8, <3>2
      <4> QED
        BY <1>6, <4>1, <4>2, <4>3 DEF OneOwner
    <3> QED
      BY <3>1, <3>2
  <2>5. OwnersOK(buddy, slab, objs', pc')
    BY <2>4 DEF OwnersOK
  <2> QED
    BY <1>1, <1>5, <2>2, <2>5 DEF SlobInv
<1> QED
  BY <1>7, <1>8

LEMMA FreePagesInv ==
    ASSUME SlobInv, NEW o \in objs, o.big,
           slob_free_pages(o), objs' = objs \ {o}, UNCHANGED <<slab, pages_alloc>>
    PROVE  SlobInv'
<1>1. /\ HeapOK(sp, list, objs) /\ ThreadsOK(pc) /\ OwnersOK(buddy, slab, objs, pc)
      /\ slab \in SUBSET Pages /\ buddy \in SUBSET Pages /\ pages_alloc \in 0 .. UIntMod - 1
  BY DEF SlobInv
<1>2. buddy' = buddy \cup o.pages /\ UNCHANGED <<sp, list, pc>>
  BY DEF slob_free_pages
<1>3. o.pages \in SUBSET Pages
  BY <1>1 DEF HeapOK, ObjOK
<1>4. HeapOK(sp, list, objs') /\ HeapOf(objs') = HeapOf(objs)
  <2>1. \A x \in objs' : ObjOK(x)
    BY <1>1 DEF HeapOK
  <2>2. \A p \in Pages : Here(objs', p) = Here(objs, p)
    BY DEF Here
  <2> QED
    BY <1>1, <2>1, <2>2, LargeHeap
<1>5. ASSUME NEW p \in Pages
      PROVE  /\ OneOwner(p, buddy', HeapOf(objs'), LargeOf(objs', p), HandsOf(pc, p))
             /\ p \in slab <=> p \in HeapOf(objs') \/ MarksOf(pc, p) # {}
  <2>1. /\ OneOwner(p, buddy, HeapOf(objs), LargeOf(objs, p), HandsOf(pc, p))
        /\ p \in slab <=> p \in HeapOf(objs) \/ MarksOf(pc, p) # {}
    BY <1>1, OwnerFacts
  <2>2. CASE p \in o.pages
    <3>1. o \in LargeOf(objs, p)
      BY <2>2 DEF LargeOf
    <3>2. p \notin HeapOf(objs) /\ LargeOf(objs, p) = {o} /\ HandsOf(pc, p) = {}
      BY <1>1, <3>1, OwnerFacts
    <3>3. LargeOf(objs', p) = {}
      BY <3>2 DEF LargeOf
    <3>4. p \in buddy'
      BY <1>2, <2>2
    <3> QED
      BY <1>4, <2>1, <3>2, <3>3, <3>4 DEF OneOwner
  <2>3. CASE p \notin o.pages
    <3>1. LargeOf(objs', p) = LargeOf(objs, p)
      BY <2>3 DEF LargeOf
    <3>2. p \in buddy' <=> p \in buddy
      BY <1>2, <2>3
    <3> QED
      BY <1>4, <2>1, <3>1, <3>2 DEF OneOwner
  <2> QED
    BY <2>2, <2>3
<1>6. OwnersOK(buddy', slab, objs', pc)
  BY <1>5 DEF OwnersOK
<1>7. buddy' \in SUBSET Pages
  BY <1>1, <1>2, <1>3
<1> QED
  BY <1>1, <1>2, <1>4, <1>6, <1>7 DEF SlobInv

\* An object that waits for its grace period is where it was.
LEMMA RcuObject ==
    ASSUME NEW o, ObjOK(o), o.kind = "object"
    PROVE  LET n == [o EXCEPT !.kind = "rcu"]
           IN  ObjOK(n) /\ n.big = o.big /\ n.pages = o.pages /\ UnitsOf(n) = UnitsOf(o)
<1> DEFINE n == [o EXCEPT !.kind = "rcu"]
<1>1. /\ o \in [kind : Kinds, cache : Caches \cup {NoCache}, size : Nat \ {0}, align : Nat,
                big : BOOLEAN, pages : SUBSET Pages, at : Nat]
      /\ RqOK(Request("object", o.cache, o.size, o.align, o.big))
      /\ o.pages # {}
      /\ ~o.big => /\ \E p \in Pages : o.pages = {p}
                   /\ o.at + SLOB_UNITS(o.size) <= PageUnits
                   /\ o.at % (o.align \div SLOB_UNIT) = 0
  BY DEF ObjOK
<1>2. /\ n \in [kind : Kinds, cache : Caches \cup {NoCache}, size : Nat \ {0}, align : Nat,
                big : BOOLEAN, pages : SUBSET Pages, at : Nat]
      /\ n.kind = "rcu" /\ n.cache = o.cache /\ n.size = o.size /\ n.align = o.align
      /\ n.big = o.big /\ n.pages = o.pages /\ n.at = o.at
  BY <1>1 DEF Kinds
<1> HIDE DEF n
<1>3. RqOK(Request("rcu", o.cache, o.size, o.align, o.big))
  <2> DEFINE r == Request("object", o.cache, o.size, o.align, o.big)
             s == Request("rcu", o.cache, o.size, o.align, o.big)
  <2>1. /\ r.kind = "object" /\ s.kind = "rcu" /\ s.cache = r.cache /\ s.size = r.size
        /\ s.align = r.align /\ s.big = r.big
        /\ s = [kind |-> "rcu", cache |-> r.cache, size |-> r.size, align |-> r.align, big |-> r.big]
    BY DEF Request
  <2>2. RqOK(r)
    BY <1>1
  <2> HIDE DEF r, s
  <2>3. /\ r.cache \in Caches \cup {NoCache} /\ r.size \in Nat \ {0}
        /\ r.align \in Nat /\ r.big \in BOOLEAN
    BY <2>2 DEF RqOK
  <2>4. s \in [kind : Kinds, cache : Caches \cup {NoCache}, size : Nat \ {0}, align : Nat,
               big : BOOLEAN]
    BY <2>1, <2>3 DEF Kinds
  <2>5. s.align >= SLOB_UNIT /\ (~s.big => s.size < PageBytes) /\ (s.big <=> s.size >= PageBytes)
    BY <2>1, <2>2 DEF RqOK
  <2>6. RqOK(s)
    BY <2>1, <2>4, <2>5 DEF RqOK
  <2> QED
    BY <2>6 DEF s
<1>4. UnitsOf(n) = UnitsOf(o)
  BY <1>2 DEF UnitsOf
<1>5. ObjOK(n)
  BY <1>1, <1>2, <1>3 DEF ObjOK
<1> QED
  BY <1>2, <1>4, <1>5 DEF n

LEMMA RcuInv ==
    ASSUME SlobInv, NEW o \in objs, o.kind = "object",
           objs' = (objs \ {o}) \cup {[o EXCEPT !.kind = "rcu"]},
           UNCHANGED <<sp, list, slab, buddy, pages_alloc, pc>>
    PROVE  SlobInv'
<1> DEFINE n == [o EXCEPT !.kind = "rcu"]
<1>1. /\ HeapOK(sp, list, objs) /\ ThreadsOK(pc) /\ OwnersOK(buddy, slab, objs, pc)
      /\ slab \in SUBSET Pages /\ buddy \in SUBSET Pages /\ pages_alloc \in 0 .. UIntMod - 1
  BY DEF SlobInv
<1>2. \A x \in objs : ObjOK(x)
  BY <1>1 DEF HeapOK
<1>3. ObjOK(n) /\ n.big = o.big /\ n.pages = o.pages /\ UnitsOf(n) = UnitsOf(o)
  BY <1>2, RcuObject
<1>4. objs' = (objs \ {o}) \cup {n}
  OBVIOUS
<1> HIDE DEF n
<1>5. \A p : Here(objs', p) = IF o \in Here(objs, p) THEN (Here(objs, p) \ {o}) \cup {n} ELSE Here(objs, p)
  <2> TAKE p
  <2>1. n \in Here(objs', p) <=> o \in Here(objs, p)
    BY <1>3, <1>4 DEF Here
  <2>2. ASSUME NEW x, x # n PROVE x \in Here(objs', p) <=> x \in Here(objs, p) \ {o}
    BY <1>4, <2>2 DEF Here
  <2>3. n \in Here(objs, p) => o \in Here(objs, p)
    BY <1>3 DEF Here
  <2>4. ASSUME o \in Here(objs, p), NEW x PROVE x \in Here(objs', p) <=> x \in (Here(objs, p) \ {o}) \cup {n}
    BY <2>1, <2>2, <2>4
  <2>5. ASSUME o \notin Here(objs, p), NEW x PROVE x \in Here(objs', p) <=> x \in Here(objs, p)
    BY <2>1, <2>2, <2>3, <2>5
  <2> QED
    BY <2>4, <2>5
<1>6. SameHeap(objs, objs')
  BY <1>3, <1>5 DEF SameHeap
<1>7. HeapOf(objs') = HeapOf(objs) /\ \A p \in Pages : FreeOf(objs', p) = FreeOf(objs, p)
  BY <1>6, SameHeapFacts
<1>8. Apart(objs')
  <2> SUFFICES ASSUME NEW p \in Pages, NEW y \in Here(objs', p), NEW z \in Here(objs', p), y # z
               PROVE  UnitsOf(y) \cap UnitsOf(z) = {}
    BY DEF Apart
  <2>1. \A u, v \in Here(objs, p) : u # v => UnitsOf(u) \cap UnitsOf(v) = {}
    BY <1>1 DEF HeapOK, Apart
  <2>2. CASE o \notin Here(objs, p)
    BY <1>5, <2>1, <2>2
  <2>3. CASE o \in Here(objs, p)
    <3>1. Here(objs', p) = (Here(objs, p) \ {o}) \cup {n}
      BY <1>5, <2>3
    <3>2. CASE y = n
      <4>1. z \in Here(objs, p) /\ z # o
        BY <3>1, <3>2
      <4>2. UnitsOf(o) \cap UnitsOf(z) = {}
        BY <2>1, <2>3, <4>1
      <4> QED
        BY <1>3, <3>2, <4>2
    <3>3. CASE z = n
      <4>1. y \in Here(objs, p) /\ y # o
        BY <3>1, <3>3
      <4>2. UnitsOf(y) \cap UnitsOf(o) = {}
        BY <2>1, <2>3, <4>1
      <4> QED
        BY <1>3, <3>3, <4>2
    <3>4. CASE y # n /\ z # n
      BY <2>1, <3>1, <3>4
    <3> QED
      BY <3>2, <3>3, <3>4
  <2> QED
    BY <2>2, <2>3
<1>9. HeapOK(sp, list, objs')
  <2>1. HeapOf(objs) \subseteq Pages
    BY DEF HeapOf
  <2>2. \A x \in objs' : ObjOK(x)
    BY <1>2, <1>3, <1>4
  <2> QED
    BY <1>1, <1>7, <1>8, <2>1, <2>2 DEF HeapOK
<1>10. ASSUME NEW p \in Pages
       PROVE  /\ OneOwner(p, buddy, HeapOf(objs'), LargeOf(objs', p), HandsOf(pc, p))
              /\ p \in slab <=> p \in HeapOf(objs') \/ MarksOf(pc, p) # {}
  <2>1. /\ OneOwner(p, buddy, HeapOf(objs), LargeOf(objs, p), HandsOf(pc, p))
        /\ p \in slab <=> p \in HeapOf(objs) \/ MarksOf(pc, p) # {}
    BY <1>1, OwnerFacts
  <2>2. CASE o \in LargeOf(objs, p)
    <3>1. p \notin buddy /\ p \notin HeapOf(objs) /\ LargeOf(objs, p) = {o} /\ HandsOf(pc, p) = {}
      BY <1>1, <2>2, OwnerFacts
    <3>2. LargeOf(objs', p) = {n}
      <4>1. n \in LargeOf(objs', p)
        BY <1>3, <1>4, <2>2 DEF LargeOf
      <4>2. \A x \in LargeOf(objs', p) : x = n
        <5> TAKE x \in LargeOf(objs', p)
        <5>1. CASE x # n
          <6>1. x \in objs \ {o} /\ x \in LargeOf(objs, p)
            BY <1>4, <5>1 DEF LargeOf
          <6> QED
            BY <3>1, <6>1
        <5> QED
          BY <5>1
      <4> QED
        BY <4>1, <4>2
    <3> QED
      BY <1>7, <2>1, <3>1, <3>2 DEF OneOwner
  <2>3. CASE o \notin LargeOf(objs, p)
    <3>1. LargeOf(objs', p) = LargeOf(objs, p)
      <4>1. n \notin LargeOf(objs', p) /\ n \notin LargeOf(objs, p)
        BY <1>3, <2>3 DEF LargeOf
      <4>2. ASSUME NEW x, x # n PROVE x \in LargeOf(objs', p) <=> x \in LargeOf(objs, p)
        BY <1>4, <2>3, <4>2 DEF LargeOf
      <4> QED
        BY <4>1, <4>2
    <3> QED
      BY <1>7, <2>1, <3>1
  <2> QED
    BY <2>2, <2>3
<1>11. OwnersOK(buddy, slab, objs', pc)
  BY <1>10 DEF OwnersOK
<1> QED
  BY <1>1, <1>9, <1>11 DEF SlobInv

\* PageSlab tells kfree what an object is, and its size __kmem_cache_free.
LEMMA WayBack ==
    ASSUME SlobInv, NEW o \in objs
    PROVE  /\ o.big => o.pages \cap slab = {}
           /\ ~o.big => o.pages \subseteq slab /\ o.pages \cap slab # {}
           /\ o.kind \in {"object", "rcu"} => (o.size < PageBytes <=> ~o.big)
           /\ o.kind = "struct" => ~o.big
<1>1. /\ HeapOK(sp, list, objs) /\ OwnersOK(buddy, slab, objs, pc) /\ ThreadsOK(pc)
      /\ ObjOK(o) /\ slab \in SUBSET Pages
  BY DEF SlobInv, HeapOK
<1>2. o.pages \in SUBSET Pages /\ RqOK(Request(o.kind, o.cache, o.size, o.align, o.big)) /\ o.size \in Nat
  BY <1>1 DEF ObjOK
<1>3. ASSUME o.big, NEW p \in o.pages PROVE p \notin slab
  <2>1. p \in Pages /\ o \in LargeOf(objs, p)
    BY <1>2, <1>3 DEF LargeOf
  <2>2. p \notin HeapOf(objs) /\ HandsOf(pc, p) = {} /\ (p \in slab <=> p \in HeapOf(objs) \/ MarksOf(pc, p) # {})
    BY <1>1, <2>1, OwnerFacts
  <2>3. MarksOf(pc, p) \subseteq HandsOf(pc, p)
    BY DEF MarksOf, HandsOf, Mark, Hand
  <2> QED
    BY <2>2, <2>3
<1>4. ASSUME ~o.big PROVE o.pages \subseteq slab /\ o.pages \cap slab # {}
  <2>1. PICK p \in Pages : o.pages = {p}
    BY <1>1, <1>4, ObjFacts
  <2>2. p \in HeapOf(objs)
    BY <1>4, <2>1 DEF HeapOf, Here
  <2>3. p \in slab
    BY <1>1, <2>2, OwnerFacts
  <2> QED
    BY <2>1, <2>3
<1>5. /\ o.kind \in {"object", "rcu"} => (o.big <=> o.size >= PageBytes)
      /\ o.kind = "struct" => ~o.big
  <2> DEFINE r == Request(o.kind, o.cache, o.size, o.align, o.big)
  <2>1. r.kind = o.kind /\ r.big = o.big /\ r.size = o.size
    BY DEF Request
  <2>2. RqOK(r) /\ o.big \in BOOLEAN
    BY <1>1, <1>2 DEF ObjOK
  <2> HIDE DEF r
  <2> QED
    BY <2>1, <2>2 DEF RqOK
<1>6. PageBytes \in Int /\ o.big \in BOOLEAN
  BY <1>1, PageFacts DEF ObjOK
<1>7. o.kind \in {"object", "rcu"} => (o.size < PageBytes <=> ~o.big)
  BY <1>2, <1>5, <1>6
<1> QED
  BY <1>3, <1>4, <1>5, <1>7

LEMMA FreeInv ==
    ASSUME SlobInv, NEW t \in Threads, NEW o \in objs, Free(t, o)
    PROVE  SlobInv'
<1>1. pc[t].at = "idle"
  BY IdleOK DEF Free, kfree, kmem_cache_free, kmem_rcu_free, kmem_cache_destroy
<1>2. CASE kfree(t, o)
  <2>1. objs' = objs \ {o} /\ UNCHANGED <<slab, pages_alloc>>
    BY <1>2 DEF kfree
  <2>2. CASE o.big
    <3>1. slob_free_pages(o)
      BY <1>2, <2>2, WayBack DEF kfree
    <3> QED
      BY <2>1, <2>2, <3>1, FreePagesInv
  <2>3. CASE ~o.big
    <3>1. slob_free(t, o) /\ buddy' = buddy
      BY <1>2, <2>3, WayBack DEF kfree
    <3> QED
      BY <1>1, <2>1, <2>3, <3>1, SlobFreeInv
  <2> QED
    BY <2>2, <2>3
<1>3. ASSUME o.kind \in {"object", "rcu"}, objs' = objs \ {o}, __kmem_cache_free(t, o),
             UNCHANGED <<slab, pages_alloc>>
      PROVE  SlobInv'
  <2>1. CASE o.big
    <3>1. slob_free_pages(o)
      BY <1>3, <2>1, WayBack DEF __kmem_cache_free
    <3> QED
      BY <1>3, <2>1, <3>1, FreePagesInv
  <2>2. CASE ~o.big
    <3>1. slob_free(t, o) /\ buddy' = buddy
      BY <1>3, <2>2, WayBack DEF __kmem_cache_free
    <3> QED
      BY <1>1, <1>3, <2>2, <3>1, SlobFreeInv
  <2> QED
    BY <2>1, <2>2
<1>4. CASE kmem_cache_free(t, o)
  <2>1. o.kind = "object" /\ UNCHANGED <<slab, pages_alloc>>
    BY <1>4 DEF kmem_cache_free
  <2>2. CASE CacheSpec[o.cache].rcu
    <3>1. /\ objs' = (objs \ {o}) \cup {[o EXCEPT !.kind = "rcu"]}
          /\ UNCHANGED <<sp, list, buddy, pc>>
      BY <1>4, <2>2 DEF kmem_cache_free
    <3> QED
      BY <2>1, <3>1, RcuInv
  <2>3. CASE ~CacheSpec[o.cache].rcu
    <3>1. objs' = objs \ {o} /\ __kmem_cache_free(t, o)
      BY <1>4, <2>3 DEF kmem_cache_free
    <3> QED
      BY <1>3, <2>1, <3>1
  <2> QED
    BY <2>2, <2>3
<1>5. CASE kmem_rcu_free(t, o)
  BY <1>3, <1>5 DEF kmem_rcu_free
<1>6. CASE kmem_cache_destroy(t, o)
  <2>1. o.kind = "struct" /\ objs' = objs \ {o} /\ slob_free(t, o) /\ UNCHANGED <<slab, buddy, pages_alloc>>
    BY <1>6 DEF kmem_cache_destroy
  <2>2. ~o.big
    BY <2>1, WayBack
  <2> QED
    BY <1>1, <2>1, <2>2, SlobFreeInv
<1> QED
  BY <1>2, <1>4, <1>5, <1>6 DEF Free

-----------------------------------------------------------------------------
(* The theorems *)

\* Every step of every thread keeps the invariant.
LEMMA InvNext == SlobInv /\ [Next]_vars => SlobInv'
<1> SUFFICES ASSUME SlobInv, [Next]_vars PROVE SlobInv'
  OBVIOUS
<1>1. CASE UNCHANGED vars
  BY <1>1 DEF vars, SlobInv
<1>2. ASSUME NEW t \in Threads, NEW rq \in Requests, Allocate(t, rq) PROVE SlobInv'
  BY <1>2, AllocateInv
<1>3. ASSUME NEW t \in Threads, OutOfMemory(t) PROVE SlobInv'
  BY <1>3, OutOfMemoryInv
<1>4. ASSUME NEW t \in Threads, slob_new_pages(t) PROVE SlobInv'
  BY <1>4, NewPagesInv
<1>5. ASSUME NEW t \in Threads, CountPages(t) PROVE SlobInv'
  BY <1>5, CountPagesInv
<1>6. ASSUME NEW t \in Threads, AddPage(t) PROVE SlobInv'
  BY <1>6, AddPageInv
<1>7. ASSUME NEW t \in Threads, NEW o \in objs, Free(t, o) PROVE SlobInv'
  BY <1>7, FreeInv
<1>8. ASSUME NEW t \in Threads, DropPage(t) PROVE SlobInv'
  BY <1>8, DropPageInv
<1>9. ASSUME NEW t \in Threads, UncountPage(t) PROVE SlobInv'
  BY <1>9, UncountPageInv
<1>10. ASSUME NEW t \in Threads, WalkStart(t) \/ WalkStep(t) \/ WalkReturn(t) PROVE SlobInv'
  BY <1>10, WalkInv
<1> QED
  BY <1>1, <1>2, <1>3, <1>4, <1>5, <1>6, <1>7, <1>8, <1>9, <1>10 DEF Next

LEMMA InvHolds == Spec => []SlobInv
BY InvInit, InvNext, PTL DEF Spec

\* Every free unit lies in a block of the chain.
LEMMA BlockOfUnit ==
    ASSUME NEW F \in SUBSET Offsets, NEW w \in [Offsets -> Int], Sound(w, F), NEW i \in F
    PROVE  \E s \in Heads(F) : i \in s .. s + slob_units(w, s) - 1
<1> DEFINE J == {j \in Nat : j <= i /\ \A m \in j .. i : m \in F}
<1>1. i \in Int /\ 0 <= i /\ i < PageUnits /\ PageUnits \in Int
  BY PageFacts, OffsetFacts
<1>2. i \in J
  BY <1>1
<1>3. PICK j \in J : \A y \in J : j <= y
  <2>1. J # {} /\ J \in SUBSET Nat
    BY <1>2
  <2> HIDE DEF J
  <2> QED
    BY <2>1, MinNat
<1>4. j \in Nat /\ j <= i /\ \A m \in j .. i : m \in F
  OBVIOUS
<1>5. j \in F
  BY <1>1, <1>4
<1>6. j - 1 \notin F
  <2>1. SUFFICES ASSUME j - 1 \in F PROVE FALSE
    OBVIOUS
  <2>2. j - 1 \in Int /\ 0 <= j - 1
    BY <2>1, OffsetFacts
  <2>3. \A m \in j - 1 .. i : m \in F
    <3> TAKE m \in j - 1 .. i
    <3>1. m = j - 1 \/ m \in j .. i
      BY <1>1, <1>4
    <3> QED
      BY <1>4, <2>1, <3>1
  <2>4. j - 1 \in J
    BY <1>1, <1>4, <2>2, <2>3
  <2>5. j <= j - 1
    BY <1>3, <2>4
  <2> QED
    BY <1>4, <2>5
<1>7. j \in Heads(F)
  BY <1>5, <1>6 DEF Heads
<1> DEFINE u == slob_units(w, j)
           n == slob_next(w, j)
<1>8. u \in Int /\ n \in Int /\ Block(F, j, u, n)
  BY <1>7, HeadFacts
<1> HIDE DEF u, n, J
<1>9. i < j + u
  <2>1. SUFFICES ASSUME j + u <= i PROVE FALSE
    BY <1>1, <1>4, <1>8
  <2>2. u >= 1 /\ j + u <= n /\ n <= PageUnits /\ (n < PageUnits => j + u < n)
        /\ \A m \in j + u .. n - 1 : m \notin F
    BY <1>8 DEF Block
  <2>3. j + u \in j .. i
    BY <1>1, <1>4, <1>8, <2>1, <2>2
  <2>4. j + u < n
    BY <1>1, <1>4, <1>8, <2>1, <2>2
  <2>5. j + u \in j + u .. n - 1
    BY <1>4, <1>8, <2>4
  <2> QED
    BY <1>4, <2>2, <2>3, <2>5
<1>10. i \in j .. j + u - 1
  BY <1>1, <1>4, <1>8, <1>9
<1> QED
  BY <1>7, <1>10 DEF u

\* The chain of an exact page as PageSound describes it.
LEMMA ChainExact ==
    ASSUME NEW F \in SUBSET Offsets, NEW pg, Exact(pg, F)
    PROVE  /\ \A i \in DOMAIN Chain(pg) :
                 IF i = Len(Chain(pg)) THEN slob_next(pg.words, Chain(pg)[i]) = PageUnits
                 ELSE Chain(pg)[i] + slob_units(pg.words, Chain(pg)[i]) < Chain(pg)[i + 1]
           /\ UNION {s .. s + slob_units(pg.words, s) - 1 : s \in ToSet(Chain(pg))} = F
           /\ pg.units = Cardinality(F)
<1> DEFINE c == Chain(pg)
           w == pg.words
<1>1. w \in [Offsets -> Int] /\ Sound(w, F) /\ pg.units = Cardinality(F)
  BY DEF Exact, PageRecord
<1>2. (F = {} => c = << >>) /\ (F # {} => Visits(w, F, pg.free, c)) /\ ToSet(c) = Heads(F)
  BY ChainFacts
<1> HIDE DEF c, w
<1>3. ASSUME NEW s \in Heads(F)
      PROVE  /\ s \in Int /\ slob_units(w, s) \in Int /\ slob_next(w, s) \in Int
             /\ Block(F, s, slob_units(w, s), slob_next(w, s))
  BY <1>1, HeadFacts, OffsetFacts
<1>4. ASSUME NEW i \in DOMAIN c
      PROVE  IF i = Len(c) THEN slob_next(w, c[i]) = PageUnits
             ELSE c[i] + slob_units(w, c[i]) < c[i + 1]
  <2>1. Visits(w, F, pg.free, c) /\ c \in Seq(Int) /\ Len(c) \in Nat /\ i \in 1 .. Len(c)
    <3>1. F # {}
      <4>1. SUFFICES ASSUME F = {} PROVE FALSE
        OBVIOUS
      <4>2. c = << >>
        BY <1>2, <4>1
      <4> QED
        BY <1>4, <4>2
    <3>2. Visits(w, F, pg.free, c)
      BY <1>2, <3>1
    <3>3. c \in Seq(Int)
      BY <3>2 DEF Visits
    <3> QED
      BY <3>2, <3>3
  <2>2. CASE i = Len(c)
    BY <2>1, <2>2 DEF Visits
  <2>3. CASE i # Len(c)
    <3>1. i \in 1 .. Len(c) - 1 /\ i + 1 \in 1 .. Len(c)
      BY <2>1, <2>3
    <3>2. slob_next(w, c[i]) = c[i + 1] /\ c[i] \in Heads(F) /\ c[i + 1] \in Heads(F)
      BY <2>1, <3>1 DEF Visits
    <3>3. c[i + 1] < PageUnits /\ c[i + 1] \in Int
      BY <3>2, OffsetFacts DEF Heads
    <3> DEFINE s == c[i]
               m == c[i + 1]
               u == slob_units(w, s)
    <3>4. Block(F, s, u, m)
      BY <1>3, <3>2
    <3> HIDE DEF s, m, u
    <3>5. m < PageUnits
      BY <3>3 DEF m
    <3>6. s + u < m
      BY <3>4, <3>5 DEF Block
    <3> QED
      BY <2>3, <3>6 DEF s, m, u
  <2> QED
    BY <2>2, <2>3
<1>5. UNION {s .. s + slob_units(w, s) - 1 : s \in ToSet(c)} = F
  <2>1. ASSUME NEW i \in F PROVE \E s \in Heads(F) : i \in s .. s + slob_units(w, s) - 1
    BY <1>1, BlockOfUnit
  <2>2. ASSUME NEW s \in Heads(F), NEW i \in s .. s + slob_units(w, s) - 1 PROVE i \in F
    <3> DEFINE u == slob_units(w, s)
               n == slob_next(w, s)
    <3>1. Block(F, s, u, n) /\ i \in s .. s + u - 1
      BY <1>3
    <3> HIDE DEF u, n
    <3> QED
      BY <3>1 DEF Block
  <2> QED
    BY <1>2, <2>1, <2>2
<1> QED
  BY <1>1, <1>4, <1>5 DEF c, w

\* HeapPages are the pages of the heap.
LEMMA HeapPagesFacts ==
    ASSUME SlobInv
    PROVE  HeapPages = HeapOf(objs) /\ HeapPages \subseteq Pages
<1>1. \A o \in objs : o.pages \in SUBSET Pages
  BY DEF SlobInv, HeapOK, ObjOK
<1> QED
  BY <1>1 DEF HeapPages, SmallObjects, HeapOf, Here

LEMMA InvTypeOK == SlobInv => TypeOK
<1> SUFFICES ASSUME SlobInv PROVE TypeOK
  OBVIOUS
<1>1. /\ sp \in [Pages -> PageState] /\ list \in Seq(Pages) /\ slab \subseteq Pages
      /\ buddy \subseteq Pages /\ pages_alloc \in 0 .. UIntMod - 1
      /\ \A o \in objs : o.pages \subseteq Pages /\ o.pages # {}
  BY DEF SlobInv, HeapOK, ObjOK
<1>2. \A t \in Threads : pc[t].at \in {"idle", "new", "count", "init", "drop", "uncount", "walk", "BUG"}
  BY DEF SlobInv, ThreadsOK, PcOK
<1> QED
  BY <1>1, <1>2 DEF TypeOK, PageState

LEMMA InvPageSound == SlobInv => PageSound
<1> SUFFICES ASSUME SlobInv PROVE PageSound
  OBVIOUS
<1>1. HeapOK(sp, list, objs) /\ \A o \in objs : ObjOK(o)
  BY DEF SlobInv, HeapOK
<1>2. ASSUME NEW p \in HeapPages
      PROVE  LET chain == Chain(sp[p])
                 w     == sp[p].words
                 here  == {o \in SmallObjects : p \in o.pages}
                 freeUnits == UNION {s .. s + slob_units(w, s) - 1 : s \in ToSet(chain)}
             IN  /\ \A i \in DOMAIN chain :
                       IF i = Len(chain) THEN slob_next(w, chain[i]) = PageUnits
                       ELSE chain[i] + slob_units(w, chain[i]) < chain[i + 1]
                 /\ \A o \in here : o.at % (o.align \div SLOB_UNIT) = 0
                 /\ \A o, x \in here : o # x => UnitsOf(o) \cap UnitsOf(x) = {}
                 /\ freeUnits = Offsets \ UNION {UnitsOf(o) : o \in here}
                 /\ UNION {UnitsOf(o) : o \in here} \subseteq Offsets
                 /\ sp[p].units = Cardinality(freeUnits)
  <2> DEFINE F == FreeOf(objs, p)
             here == {o \in SmallObjects : p \in o.pages}
  <2>1. p \in HeapOf(objs) /\ p \in Pages
    BY <1>2, HeapPagesFacts
  <2>2. Exact(sp[p], F) /\ F \in SUBSET Offsets
    BY <1>1, <2>1 DEF HeapOK, FreeOf
  <2>3. here = Here(objs, p)
    BY DEF Here, SmallObjects
  <2>4. F = Offsets \ UNION {UnitsOf(o) : o \in here}
    BY <2>3 DEF FreeOf
  <2> HIDE DEF F
  <2>5. /\ \A i \in DOMAIN Chain(sp[p]) :
              IF i = Len(Chain(sp[p])) THEN slob_next(sp[p].words, Chain(sp[p])[i]) = PageUnits
              ELSE Chain(sp[p])[i] + slob_units(sp[p].words, Chain(sp[p])[i]) < Chain(sp[p])[i + 1]
        /\ UNION {s .. s + slob_units(sp[p].words, s) - 1 : s \in ToSet(Chain(sp[p]))} = F
        /\ sp[p].units = Cardinality(F)
    <3> DEFINE pg == sp[p]
    <3>1. Exact(pg, F)
      BY <2>2
    <3> HIDE DEF pg
    <3>2. /\ \A i \in DOMAIN Chain(pg) :
                IF i = Len(Chain(pg)) THEN slob_next(pg.words, Chain(pg)[i]) = PageUnits
                ELSE Chain(pg)[i] + slob_units(pg.words, Chain(pg)[i]) < Chain(pg)[i + 1]
          /\ UNION {s .. s + slob_units(pg.words, s) - 1 : s \in ToSet(Chain(pg))} = F
          /\ pg.units = Cardinality(F)
      BY <2>2, <3>1, ChainExact
    <3> QED
      BY <3>2 DEF pg
  <2>6. \A o \in here : o \in objs /\ ~o.big
    BY DEF SmallObjects
  <2>7. \A o \in here : o.at % (o.align \div SLOB_UNIT) = 0
    BY <1>1, <2>6 DEF ObjOK
  <2>8. \A o, x \in here : o # x => UnitsOf(o) \cap UnitsOf(x) = {}
    BY <1>1, <2>1, <2>3 DEF HeapOK, Apart
  <2>9. UNION {UnitsOf(o) : o \in here} \subseteq Offsets
    <3>1. \A o \in here : UnitsOf(o) \subseteq Offsets
      BY <1>1, <2>6, ObjFacts
    <3> HIDE DEF here
    <3> QED
      BY <3>1
  <2> DEFINE chain == Chain(sp[p])
             w == sp[p].words
             freeUnits == UNION {s .. s + slob_units(w, s) - 1 : s \in ToSet(chain)}
  <2>10. \A i \in DOMAIN chain :
            IF i = Len(chain) THEN slob_next(w, chain[i]) = PageUnits
            ELSE chain[i] + slob_units(w, chain[i]) < chain[i + 1]
    BY <2>5
  <2>11. freeUnits = F
    BY <2>5
  <2> HIDE DEF freeUnits, here, chain, w
  <2>12. freeUnits = Offsets \ UNION {UnitsOf(o) : o \in here} /\ sp[p].units = Cardinality(freeUnits)
    BY <2>4, <2>5, <2>11
  <2> QED
    BY <2>7, <2>8, <2>9, <2>10, <2>12, Zenon DEF freeUnits, here, chain, w
<1>3. TypeOK
  BY InvTypeOK
<1> QED
  BY <1>2, <1>3 DEF PageSound

LEMMA InvListSound == SlobInv => ListSound
<1> SUFFICES ASSUME SlobInv PROVE ListSound
  OBVIOUS
<1>1. /\ list \in Seq(Pages) /\ Once(list)
      /\ Range(list) = {p \in HeapOf(objs) : sp[p].units > 0}
  BY DEF SlobInv, HeapOK
<1>2. IsInjective(list)
  BY <1>1, OnceInjective
<1>3. ToSet(list) = Range(list)
  BY DEF ToSet, Range
<1> QED
  BY <1>1, <1>2, <1>3, HeapPagesFacts DEF ListSound

LEMMA InvPagesConserved == SlobInv => PagesConserved
<1> SUFFICES ASSUME SlobInv PROVE PagesConserved
  OBVIOUS
<1>1. RightWayBack
  BY WayBack DEF RightWayBack
<1>2. ASSUME NEW p \in Pages
      PROVE  Cardinality({p} \cap buddy) + Cardinality({p} \cap HeapPages)
             + Cardinality({o \in objs : o.big /\ p \in o.pages})
             + Cardinality({t \in Threads : p \in HandPages(t)}) = 1
  <2>1. OneOwner(p, buddy, HeapOf(objs), LargeOf(objs, p), HandsOf(pc, p))
    BY OwnerFacts DEF SlobInv
  <2>2. {o \in objs : o.big /\ p \in o.pages} = LargeOf(objs, p)
    BY DEF LargeOf
  <2>3. {t \in Threads : p \in HandPages(t)} = HandsOf(pc, p)
    BY DEF HandPages, HandsOf, Hand
  <2>4. HeapPages = HeapOf(objs)
    BY HeapPagesFacts
  <2>5. Cardinality({}) = 0 /\ \A x : Cardinality({x}) = 1
    BY FS_EmptySet, FS_Singleton
  <2>6. /\ p \in buddy => {p} \cap buddy = {p}
        /\ p \notin buddy => {p} \cap buddy = {}
        /\ p \in HeapOf(objs) => {p} \cap HeapOf(objs) = {p}
        /\ p \notin HeapOf(objs) => {p} \cap HeapOf(objs) = {}
    OBVIOUS
  <2> DEFINE n1 == Cardinality({p} \cap buddy)
             n2 == Cardinality({p} \cap HeapOf(objs))
             n3 == Cardinality(LargeOf(objs, p))
             n4 == Cardinality(HandsOf(pc, p))
  <2>7. \/ n1 = 1 /\ n2 = 0 /\ n3 = 0 /\ n4 = 0
        \/ n1 = 0 /\ n2 = 1 /\ n3 = 0 /\ n4 = 0
        \/ n1 = 0 /\ n2 = 0 /\ n3 = 1 /\ n4 = 0
        \/ n1 = 0 /\ n2 = 0 /\ n3 = 0 /\ n4 = 1
    BY <2>1, <2>5, <2>6 DEF OneOwner
  <2> HIDE DEF n1, n2, n3, n4
  <2>8. n1 + n2 + n3 + n4 = 1
    BY <2>7
  <2> QED
    BY <2>2, <2>3, <2>4, <2>8 DEF n1, n2, n3, n4
<1> QED
  BY <1>1, <1>2 DEF PagesConserved

\* In every page of the heap the chain of free blocks ascends, ends at the end
\* of the page and is fully coalesced, objects and free blocks divide the page
\* without overlap or gap, and sp->units counts the free units: slob_alloc and
\* slob_free keep pages exact for every page size, object size and alignment.
THEOREM PagesStaySound == Spec => []PageSound
BY InvHolds, InvPageSound, PTL

\* Any number of threads leave the heap sound: its pages, and the list, which
\* holds exactly once each page of the heap with a free unit.
THEOREM HeapStaysSound == Spec => []HeapSound
<1>1. SlobInv => HeapSound
  BY InvPageSound, InvListSound DEF HeapSound
<1> QED
  BY <1>1, InvHolds, PTL

\* No page is leaked or has two owners, and PageSlab tells kfree which way an
\* object came, whatever threads do between taking a page and listing it, or
\* between unlisting and returning it.
THEOREM PagesStayConserved == Spec => []PagesConserved
BY InvHolds, InvPagesConserved, PTL

\* slob_alloc never runs into BUG_ON(!b): the second search, on a new page,
\* finds a block for every object that kmalloc and the caches call small.
THEOREM NeverBug == Spec => []NoBug
<1>1. SlobInv => NoBug
  BY DEF SlobInv, ThreadsOK, PcOK, NoBug
<1> QED
  BY <1>1, InvHolds, PTL

\* A thread that was idle only comes to wait for a page in Allocate.
LEMMA OnlyAllocate ==
    ASSUME SlobInv, [Next]_vars, NEW t \in Threads, pc[t] = Idle, pc'[t].at = "new"
    PROVE  \E rq \in Requests : Allocate(t, rq) /\ pc' = SetPc(pc, t, [at |-> "new", rq |-> rq])
<1>1. pc[t].at = "idle" /\ ThreadsOK(pc)
  BY IdleOK DEF SlobInv
<1>2. ASSUME NEW u \in Threads, NEW x, pc' = SetPc(pc, u, x) PROVE pc'[t] = (IF u = t THEN x ELSE pc[t])
  <2>1. DOMAIN pc = Threads
    BY <1>1 DEF ThreadsOK
  <2> QED
    BY <1>2, <2>1 DEF SetPc
<1>3. pc' # pc
  BY <1>1
<1>4. PICK u \in Threads :
         \/ \E rq \in Requests : Allocate(u, rq)
         \/ OutOfMemory(u) \/ slob_new_pages(u) \/ CountPages(u) \/ AddPage(u)
         \/ \E o \in objs : Free(u, o)
         \/ DropPage(u) \/ UncountPage(u) \/ WalkStart(u) \/ WalkStep(u) \/ WalkReturn(u)
  BY <1>3 DEF Next, vars
<1>5. ASSUME NEW x, pc' = SetPc(pc, u, x), x.at # "new" PROVE FALSE
  BY <1>1, <1>2, <1>5
<1>6. ASSUME u # t, NEW x, pc' = SetPc(pc, u, x) PROVE FALSE
  BY <1>1, <1>2, <1>6
<1>7. CASE \E rq \in Requests : Allocate(u, rq)
  <2>1. PICK rq \in Requests : Allocate(u, rq)
    BY <1>7
  <2>2. pc' = SetPc(pc, u, [at |-> "new", rq |-> rq])
    BY <1>3, <2>1 DEF Allocate, SetPc
  <2>3. u = t
    BY <1>6, <2>2
  <2> QED
    BY <2>1, <2>2, <2>3
<1>8. CASE u # t
  <2>1. CASE \E o \in objs : Free(u, o)
    <3>1. PICK o \in objs : Free(u, o)
      BY <2>1
    <3>2. \E x : pc' = SetPc(pc, u, x)
      BY <1>3, <3>1 DEF Free, kfree, kmem_cache_free, kmem_rcu_free, kmem_cache_destroy,
                        __kmem_cache_free, slob_free, slob_free_pages, SetPc
    <3> QED
      BY <1>6, <1>8, <3>2
  <2>2. CASE OutOfMemory(u) \/ slob_new_pages(u) \/ CountPages(u) \/ AddPage(u)
             \/ DropPage(u) \/ UncountPage(u) \/ WalkStart(u) \/ WalkReturn(u)
    <3>1. \E x : pc' = SetPc(pc, u, x)
      BY <2>2 DEF OutOfMemory, slob_new_pages, CountPages, AddPage, DropPage, UncountPage,
                  WalkStart, WalkReturn, SetPc
    <3> QED
      BY <1>6, <1>8, <3>1
  <2>3. CASE WalkStep(u)
    <3>2. \E x : pc' = SetPc(pc, u, x)
      BY <2>3, WalkStepTo
    <3> QED
      BY <1>6, <1>8, <3>2
  <2> QED
    BY <1>4, <1>7, <2>1, <2>2, <2>3
<1>9. CASE u = t /\ ~(\E rq \in Requests : Allocate(u, rq))
  <2>1. CASE \E o \in objs : Free(u, o)
    <3>1. PICK o \in objs : Free(u, o)
      BY <2>1
    <3>2. \E ps : pc' = SetPc(pc, u, [at |-> "drop", pages |-> ps])
      BY <1>3, <3>1 DEF Free, kfree, kmem_cache_free, kmem_rcu_free, kmem_cache_destroy,
                        __kmem_cache_free, slob_free, slob_free_pages, SetPc
    <3> QED
      BY <1>5, <3>2
  <2>2. CASE WalkStart(u)
    <3>1. \E n : pc' = SetPc(pc, u, [at |-> "walk", sum |-> 0, next |-> n])
      BY <2>2 DEF WalkStart, SetPc
    <3> QED
      BY <1>5, <3>1
  <2>3. CASE OutOfMemory(u) \/ slob_new_pages(u) \/ CountPages(u) \/ AddPage(u)
             \/ DropPage(u) \/ UncountPage(u) \/ WalkStep(u) \/ WalkReturn(u)
    BY <1>1, <1>9, <2>3 DEF OutOfMemory, slob_new_pages, CountPages, AddPage, DropPage,
                            UncountPage, WalkStep, WalkReturn
  <2> QED
    BY <1>4, <1>9, <2>1, <2>2, <2>3
<1> QED
  BY <1>7, <1>8, <1>9

\* slob_alloc takes a page only when no free block of a page on the list has
\* room, on pages of up to 16K: the team's search, which skips pages with too
\* few units and keeps one block, overlooks none.  (On larger pages it does:
\* WideSearchMisses.)
THEOREM NoPageNeedlessly ==
    ASSUME BlockSizeFits
    PROVE  Spec => NoNeedlessPage
<1>1. SlobInv /\ [Next]_vars => [\A t \in Threads :
        (pc[t] = Idle /\ pc'[t].at = "new" /\ ~pc'[t].rq.big) =>
           \A p \in ToSet(list) : \A s \in ToSet(Chain(sp[p])) :
              ~Fits([cur |-> s, avail |-> slob_units(sp[p].words, s)],
                    SLOB_UNITS(pc'[t].rq.size), pc'[t].rq.align \div SLOB_UNIT)]_vars
  <2> SUFFICES ASSUME SlobInv, [Next]_vars, NEW t \in Threads,
                      pc[t] = Idle, pc'[t].at = "new", ~pc'[t].rq.big,
                      NEW p \in ToSet(list), NEW s \in ToSet(Chain(sp[p]))
               PROVE  ~Fits([cur |-> s, avail |-> slob_units(sp[p].words, s)],
                            SLOB_UNITS(pc'[t].rq.size), pc'[t].rq.align \div SLOB_UNIT)
    OBVIOUS
  <2>1. PICK rq \in Requests :
           Allocate(t, rq) /\ pc' = SetPc(pc, t, [at |-> "new", rq |-> rq])
    BY OnlyAllocate
  <2>2. HeapOK(sp, list, objs) /\ ThreadsOK(pc) /\ RqOK(rq)
    BY RequestsOK DEF SlobInv
  <2>3. pc'[t] = [at |-> "new", rq |-> rq]
    BY <2>1, <2>2, PcChange
  <2>4. pc'[t].rq = rq
    BY <2>3
  <2>5. find_best_fit_block(rq) = NoBlock
    <3>1. pc' # pc /\ ~rq.big
      <4>1. pc[t].at = "idle"
        BY IdleOK
      <4> QED
        BY <2>4, <4>1
    <3> QED
      BY <2>1, <3>1 DEF Allocate
  <2>6. p \in Range(list)
    BY DEF ToSet, Range
  <2>7. s \in Heads(FreeOf(objs, p))
    <3>1. FreeOf(objs, p) \in SUBSET Offsets /\ Exact(sp[p], FreeOf(objs, p))
      BY <2>2, <2>6, ListedFacts
    <3>2. ToSet(Chain(sp[p])) = Heads(FreeOf(objs, p))
      BY <3>1, ChainFacts
    <3> QED
      BY <3>2
  <2>8. ~Fits([cur |-> s, avail |-> slob_units(sp[p].words, s)],
              SLOB_UNITS(rq.size), rq.align \div SLOB_UNIT)
    BY <2>2, <2>5, <2>6, <2>7, FoundFacts
  <2> QED
    BY <2>4, <2>8
<1> QED
  BY <1>1, InvHolds, PTL DEF Spec, NoNeedlessPage

-----------------------------------------------------------------------------
(* Best fit *)

\* No request is for more than two units of alignment.
AlignsSmall ==
    /\ MinAlign \div SLOB_UNIT <= 2
    /\ \A c \in Caches : CacheAlign(c) \div SLOB_UNIT <= 2

LEMMA RequestsAligned ==
    ASSUME AlignsSmall, NEW rq \in Requests
    PROVE  rq.align \div SLOB_UNIT <= 2
<1>1. \/ \E n \in KmallocSizes : rq = __kmalloc_node(n)
      \/ \E c \in Caches : rq = kmem_cache_alloc_node(c)
      \/ \E c \in Caches : rq = kmem_cache_create(c)
  BY DEF Requests
<1>2. \/ rq.align = MinAlign
      \/ \E c \in Caches : rq.align = CacheAlign(c)
  BY <1>1 DEF __kmalloc_node, kmem_cache_alloc_node, kmem_cache_create, Request
<1> QED
  BY <1>2 DEF AlignsSmall

\* An object that appears in a page that was on the list comes from the block
\* that find_best_fit_block found.
LEMMA FromTheList ==
    ASSUME SlobInv, [Next]_vars, NEW o \in objs' \ objs, o.kind # "rcu", o.pages \subseteq Range(list)
    PROVE  \E rq \in Requests :
              LET b == find_best_fit_block(rq)
              IN  /\ ~rq.big /\ b # NoBlock
                  /\ o = Object(rq, {b.page}, b.cur + Delta(b.cur, rq.align \div SLOB_UNIT))
<1>1. /\ HeapOK(sp, list, objs) /\ ThreadsOK(pc) /\ OwnersOK(buddy, slab, objs, pc)
  BY DEF SlobInv
<1>2. objs' # objs
  OBVIOUS
<1>3. PICK t \in Threads :
         \/ \E rq \in Requests : Allocate(t, rq)
         \/ OutOfMemory(t) \/ slob_new_pages(t) \/ CountPages(t) \/ AddPage(t)
         \/ \E x \in objs : Free(t, x)
         \/ DropPage(t) \/ UncountPage(t) \/ WalkStart(t) \/ WalkStep(t) \/ WalkReturn(t)
  BY <1>2 DEF Next, vars
<1>4. CASE \E rq \in Requests : Allocate(t, rq)
  <2>1. PICK rq \in Requests : Allocate(t, rq)
    BY <1>4
  <2>2. ~(rq.big \/ find_best_fit_block(rq) = NoBlock)
    BY <1>2, <2>1 DEF Allocate
  <2>3. Place(rq, find_best_fit_block(rq), sp[find_best_fit_block(rq).page], list)
    BY <2>1, <2>2 DEF Allocate
  <2> QED
    BY <2>2, <2>3 DEF Place
<1>5. ASSUME NEW p \in Pages, p \in Hand(pc[t]), p \in o.pages PROVE FALSE
  <2>1. t \in HandsOf(pc, p)
    BY <1>5 DEF HandsOf
  <2>2. p \notin HeapOf(objs)
    BY <1>1, <2>1, OwnerFacts
  <2>3. p \in HeapOf(objs)
    BY <1>1, <1>5 DEF HeapOK
  <2> QED
    BY <2>2, <2>3
<1>6. CASE CountPages(t)
  <2>1. pc[t].at = "count" /\ PcOK(pc[t])
    BY <1>1, <1>6, ThreadFacts DEF CountPages
  <2>2. pc[t].pages \in SUBSET Pages /\ pc[t].pages # {} /\ Hand(pc[t]) = pc[t].pages
    BY <2>1 DEF PcOK, Hand
  <2>3. objs' = objs \cup {Object(pc[t].rq, pc[t].pages, 0)}
    BY <1>2, <1>6 DEF CountPages
  <2>4. o.pages = pc[t].pages
    BY <2>3 DEF Object
  <2> QED
    BY <1>5, <2>2, <2>4
<1>7. CASE AddPage(t)
  <2>1. pc[t].at = "init" /\ PcOK(pc[t])
    BY <1>1, <1>7, ThreadFacts DEF AddPage
  <2>2. PICK p \in Pages : pc[t].pages = {p}
    BY <2>1 DEF PcOK
  <2>3. Hand(pc[t]) = {p}
    BY <2>1, <2>2 DEF Hand
  <2>4. (CHOOSE q \in pc[t].pages : TRUE) = p
    BY <2>2
  <2> DEFINE pg == OnlyBlock(FreshPage.words, 0, PageUnits)
             b == slob_page_alloc(p, pg, pc[t].rq)
  <2>5. b # NoBlock /\ Place(pc[t].rq, b, pg, Cons(p, list))
    BY <1>2, <1>7, <2>4 DEF AddPage, OnlyBlock
  <2>6. b.page = p
    <3>1. RqOK(pc[t].rq) /\ ~pc[t].rq.big
      BY <2>1 DEF PcOK
    <3>2. Exact(pg, Offsets)
      BY NewPageExact
    <3> HIDE DEF pg
    <3> QED
      BY <3>1, <3>2, SecondSearch
  <2> HIDE DEF b, pg
  <2>7. o.pages = {p}
    BY <2>5, <2>6 DEF Place, Object
  <2> QED
    BY <1>5, <2>3, <2>7
<1>8. CASE \E x \in objs : Free(t, x)
  <2>1. PICK x \in objs : Free(t, x)
    BY <1>8
  <2>2. \/ objs' = objs \ {x}
        \/ x.kind = "object" /\ objs' = (objs \ {x}) \cup {[x EXCEPT !.kind = "rcu"]}
    BY <2>1 DEF Free, kfree, kmem_cache_free, kmem_rcu_free, kmem_cache_destroy
  <2>3. x.kind = "object" /\ o = [x EXCEPT !.kind = "rcu"]
    BY <2>2
  <2>4. o.kind = "rcu"
    BY <1>1, <2>3 DEF HeapOK, ObjOK
  <2> QED
    BY <2>4
<1>9. CASE OutOfMemory(t) \/ slob_new_pages(t) \/ DropPage(t) \/ UncountPage(t)
           \/ WalkStart(t) \/ WalkStep(t) \/ WalkReturn(t)
  BY <1>2, <1>9 DEF OutOfMemory, slob_new_pages, DropPage, UncountPage, WalkStart, WalkStep, WalkReturn
<1> QED
  BY <1>3, <1>4, <1>6, <1>7, <1>8, <1>9

\* Only one free block of a page can hold the object at an offset.
LEMMA BlockOfObject ==
    ASSUME NEW F \in SUBSET Offsets, NEW w \in [Offsets -> Int], Sound(w, F),
           NEW x, FreeBlock(x, w, F), NEW y, FreeBlock(y, w, F),
           NEW k \in Int, k >= 1, NEW a \in Nat \ {0}, Fits(x, k, a), Fits(y, k, a),
           x.cur + Delta(x.cur, a) = y.cur + Delta(y.cur, a)
    PROVE  x.cur = y.cur /\ x.avail = y.avail
<1> DEFINE s == x.cur
           t == y.cur
           u == slob_units(w, s)
           v == slob_units(w, t)
<1>1. s \in Heads(F) /\ t \in Heads(F) /\ x.avail = u /\ y.avail = v
  BY DEF FreeBlock
<1>2. s \in Int /\ t \in Int /\ u \in Int /\ v \in Int
  BY <1>1, HeadFacts, OffsetFacts
<1>3. /\ slob_next(w, s) \in Int /\ Block(F, s, u, slob_next(w, s))
      /\ slob_next(w, t) \in Int /\ Block(F, t, v, slob_next(w, t))
  BY <1>1, HeadFacts
<1>4. /\ Delta(s, a) \in Int /\ 0 <= Delta(s, a) /\ Delta(t, a) \in Int /\ 0 <= Delta(t, a)
      /\ u >= k + Delta(s, a) /\ v >= k + Delta(t, a)
      /\ s + Delta(s, a) = t + Delta(t, a)
  <2>1. \A z \in Int : Delta(z, a) \in Int /\ 0 <= Delta(z, a)
    <3> TAKE z \in Int
    <3> DEFINE m == -z
    <3>1. m \in Int
      OBVIOUS
    <3> HIDE DEF m
    <3>2. m % a \in 0 .. a - 1
      BY <3>1
    <3>3. Delta(z, a) = m % a
      BY DEF Delta, m
    <3> QED
      BY <3>2, <3>3
  <2>2. x.avail >= k + Delta(s, a) /\ y.avail >= k + Delta(t, a)
    BY DEF Fits
  <2> QED
    BY <1>1, <1>2, <2>1, <2>2
<1> HIDE DEF s, t, u, v
<1>5. ~(s < t)
  <2>1. SUFFICES ASSUME s < t PROVE FALSE
    OBVIOUS
  <2>2. s + u < t
    BY <1>1, <1>2, <1>3, <2>1, BlocksApart
  <2> QED
    BY <1>2, <1>4, <2>2
<1>6. ~(t < s)
  <2>1. SUFFICES ASSUME t < s PROVE FALSE
    OBVIOUS
  <2>2. t + v < s
    BY <1>1, <1>2, <1>3, <2>1, BlocksApart
  <2> QED
    BY <1>2, <1>4, <2>2
<1>7. s = t
  BY <1>2, <1>5, <1>6
<1> QED
  BY <1>1, <1>7 DEF s, t, u, v

\* The block that was taken leaves least behind the object.
LEMMA TakenIsBest ==
    ASSUME SlobInv, NEW rq, RqOK(rq), rq.align \div SLOB_UNIT <= 2, find_best_fit_block(rq) # NoBlock,
           NEW x \in Range(Candidates(0)), Fits(x, SLOB_UNITS(rq.size), rq.align \div SLOB_UNIT)
    PROVE  Rest(find_best_fit_block(rq), SLOB_UNITS(rq.size), rq.align \div SLOB_UNIT)
              <= Rest(x, SLOB_UNITS(rq.size), rq.align \div SLOB_UNIT)
<1> DEFINE k == SLOB_UNITS(rq.size)
           a == rq.align \div SLOB_UNIT
           C == Candidates(k)
           p == x.page
<1>1. HeapOK(sp, list, objs)
  BY DEF SlobInv
<1>2. k \in Int /\ k >= 1 /\ k \in Nat \ {0} /\ a \in Nat \ {0}
  BY RqFacts
<1>3. a \in 1 .. 2
  BY <1>2
<1>4. find_best_fit_block(rq) = Search(C, k, a).blk
  BY DEF find_best_fit_block
<1> HIDE DEF k, a
<1>5. p \in Range(list) /\ FreeBlock(x, sp[p].words, FreeOf(objs, p))
  BY <1>1, CandidatesFacts
<1>6. C \in Seq(FreeBlocks) /\ \A q \in Range(list) : \A s \in Heads(FreeOf(objs, q)) :
         slob_units(sp[q].words, s) >= k =>
            \E y \in Range(C) : y.cur = s /\ y.avail = slob_units(sp[q].words, s)
  BY <1>1, <1>2, CandidatesFacts
<1> HIDE DEF C, p
<1>7. x.cur \in Heads(FreeOf(objs, p)) /\ x.avail = slob_units(sp[p].words, x.cur)
  BY <1>5 DEF FreeBlock
<1>8. x \in FreeBlocks
  <2>1. Candidates(0) \in Seq(FreeBlocks)
    BY <1>1, CandidatesFacts
  <2> QED
    BY <2>1, ListFacts
<1>9. x.avail >= k
  <2>1. /\ x.avail \in Int /\ Delta(x.cur, a) \in Int /\ 0 <= Delta(x.cur, a)
    BY <1>2, <1>8, BlockFacts
  <2>2. x.avail >= k + Delta(x.cur, a)
    BY DEF Fits, k, a
  <2> QED
    BY <1>2, <2>1, <2>2
<1>10. PICK y \in Range(C) : y.cur = x.cur /\ y.avail = x.avail
  BY <1>5, <1>6, <1>7, <1>9
<1>11. Fits(y, k, a) /\ Rest(y, k, a) = Rest(x, k, a)
  BY <1>10 DEF Fits, Rest, k, a
<1>12. y \in ToSet(C)
  BY DEF ToSet, Range
<1>13. Rest(Search(C, k, a).blk, k, a) <= Rest(y, k, a)
  <2>1. Search(C, k, a).blk # NoBlock
    BY <1>4
  <2> QED
    BY <1>2, <1>3, <1>6, <1>11, <1>12, <2>1, SearchIsBestFit
<1>14. Rest(find_best_fit_block(rq), k, a) <= Rest(x, k, a)
  BY <1>4, <1>11, <1>13
<1> QED
  BY <1>14 DEF k, a

\* While no request is for more than two units of alignment, the search of
\* slob_alloc is best fit in every state of the heap: no block that was passed
\* over is smaller and leaves less behind the object.  (With coarser alignment
\* it is not, as a run shows.)
THEOREM AllocatesBestFit ==
    ASSUME AlignsSmall
    PROVE  Spec => BestFit
<1>1. SlobInv /\ [Next]_vars => [\A o \in objs' \ objs :
        (o.kind # "rcu" /\ o.pages \subseteq ToSet(list)) =>
           LET units  == SLOB_UNITS(o.size)
               align  == o.align \div SLOB_UNIT
               blocks == {b \in ToSet(Candidates(0)) : Fits(b, units, align)}
               taken  == CHOOSE b \in blocks :
                            {b.page} = o.pages /\ o.at = b.cur + Delta(b.cur, align)
           IN  \A b \in blocks :
                  ~(b.avail < taken.avail /\ Rest(b, units, align) < Rest(taken, units, align))
        ]_vars
  <2> SUFFICES ASSUME SlobInv, [Next]_vars, NEW o \in objs' \ objs,
                      o.kind # "rcu", o.pages \subseteq ToSet(list)
               PROVE  LET units  == SLOB_UNITS(o.size)
                          align  == o.align \div SLOB_UNIT
                          blocks == {b \in ToSet(Candidates(0)) : Fits(b, units, align)}
                          taken  == CHOOSE b \in blocks :
                                       {b.page} = o.pages /\ o.at = b.cur + Delta(b.cur, align)
                      IN  \A b \in blocks :
                             ~(b.avail < taken.avail /\ Rest(b, units, align) < Rest(taken, units, align))
    OBVIOUS
  <2> DEFINE units == SLOB_UNITS(o.size)
             align == o.align \div SLOB_UNIT
             C == Candidates(0)
             blocks == {b \in ToSet(C) : Fits(b, units, align)}
             Is(b) == {b.page} = o.pages /\ o.at = b.cur + Delta(b.cur, align)
             taken == CHOOSE b \in blocks : Is(b)
  <2>1. ToSet(list) = Range(list) /\ ToSet(C) = Range(C)
    BY DEF ToSet, Range
  <2>2. PICK rq \in Requests :
           LET b == find_best_fit_block(rq)
           IN  /\ ~rq.big /\ b # NoBlock
               /\ o = Object(rq, {b.page}, b.cur + Delta(b.cur, rq.align \div SLOB_UNIT))
    BY <2>1, FromTheList
  <2> DEFINE b == find_best_fit_block(rq)
             p == b.page
             F == FreeOf(objs, p)
             w == sp[p].words
  <2>3. /\ units = SLOB_UNITS(rq.size) /\ align = rq.align \div SLOB_UNIT
        /\ o.pages = {p} /\ o.at = b.cur + Delta(b.cur, align)
    BY <2>2 DEF Object
  <2>4. HeapOK(sp, list, objs) /\ RqOK(rq) /\ rq.align \div SLOB_UNIT <= 2
    BY RequestsOK, RequestsAligned DEF SlobInv
  <2>5. units \in Int /\ units >= 1 /\ align \in Nat \ {0}
    BY <2>3, <2>4, RqFacts
  <2>6. p \in Range(list) /\ FreeBlock(b, w, F) /\ Fits(b, units, align)
    BY <2>2, <2>3, <2>4, FoundFacts
  <2>7. \A x \in Range(C) : Fits(x, units, align) => Rest(b, units, align) <= Rest(x, units, align)
    BY <2>2, <2>3, <2>4, TakenIsBest
  <2>8. /\ C \in Seq(FreeBlocks)
        /\ \A x \in Range(C) :
              x.page \in Range(list) /\ FreeBlock(x, sp[x.page].words, FreeOf(objs, x.page))
        /\ \A q \in Range(list) : \A s \in Heads(FreeOf(objs, q)) :
              slob_units(sp[q].words, s) >= 0 =>
                 \E x \in Range(C) : x.page = q /\ x.cur = s /\ x.avail = slob_units(sp[q].words, s)
    BY <2>4, CandidatesFacts
  <2>9. /\ F \in SUBSET Offsets /\ w \in [Offsets -> Int] /\ Sound(w, F)
    BY <2>4, <2>6, ListedFacts DEF Exact, PageRecord
  <2> HIDE DEF C, units, align, b, p, F, w
  <2>10. \E x \in blocks : Is(x)
    <3>1. b.cur \in Heads(F) /\ b.avail = slob_units(w, b.cur)
      BY <2>6 DEF FreeBlock
    <3>2. slob_units(w, b.cur) \in Int /\ slob_units(w, b.cur) >= 0
      <4>1. slob_units(w, b.cur) \in Int /\ Block(F, b.cur, slob_units(w, b.cur), slob_next(w, b.cur))
        BY <2>9, <3>1, HeadFacts
      <4> QED
        BY <4>1 DEF Block
    <3>3. PICK x \in Range(C) : x.page = p /\ x.cur = b.cur /\ x.avail = b.avail
      BY <2>6, <2>8, <3>1, <3>2 DEF F, w
    <3>4. Fits(x, units, align)
      BY <2>6, <3>3 DEF Fits
    <3>5. Is(x)
      BY <2>3, <3>3
    <3> QED
      BY <2>1, <3>3, <3>4, <3>5
  <2>11. taken \in blocks /\ Is(taken)
    <3> HIDE DEF blocks, Is
    <3> QED
      BY <2>10
  <2>12. taken.cur = b.cur /\ taken.avail = b.avail
    <3> HIDE DEF taken
    <3>1. taken \in Range(C) /\ Fits(taken, units, align)
      BY <2>1, <2>11
    <3>2. taken.page = p /\ b.cur + Delta(b.cur, align) = taken.cur + Delta(taken.cur, align)
      BY <2>3, <2>11
    <3>3. FreeBlock(taken, w, F)
      BY <2>8, <3>1, <3>2 DEF F, w
    <3> QED
      BY <2>5, <2>6, <2>9, <3>1, <3>2, <3>3, BlockOfObject
  <2>13. Rest(taken, units, align) = Rest(b, units, align)
    BY <2>12 DEF Rest
  <2> HIDE DEF taken
  <2>14. ASSUME NEW x \in blocks PROVE ~(Rest(x, units, align) < Rest(taken, units, align))
    <3>1. x \in Range(C) /\ Fits(x, units, align)
      BY <2>1
    <3>2. Rest(taken, units, align) <= Rest(x, units, align)
      BY <2>7, <2>13, <3>1
    <3>3. x \in FreeBlocks /\ taken \in FreeBlocks
      BY <2>1, <2>8, <2>11, <3>1, ListFacts
    <3>4. Rest(x, units, align) \in Int /\ Rest(taken, units, align) \in Int
      BY <2>5, <3>3, BlockFacts
    <3> QED
      BY <3>2, <3>4
  <2>15. \A x \in blocks : ~(x.avail < taken.avail /\ Rest(x, units, align) < Rest(taken, units, align))
    BY <2>14
  <2> QED
    BY <2>15, Zenon DEF taken, C, units, align
<1> QED
  BY <1>1, InvHolds, PTL DEF Spec, BestFit

-----------------------------------------------------------------------------
(* The amount free *)

\* The sums over the list that FreeUnits speaks of.
LEMMA FreeUnitsFacts ==
    ASSUME SlobInv
    PROVE  /\ FreeUnits(0) = 0
           /\ \A i \in 0 .. Len(list) : FreeUnits(i) \in Nat
           /\ \A i \in 1 .. Len(list) : FreeUnits(i) = FreeUnits(i - 1) + sp[list[i]].units
<1> DEFINE L == Len(list)
           v(i) == sp[list[i]].units
           step(f, i) == IF i = 0 THEN 0 ELSE f[i - 1] + v(i)
           P(f) == f = [i \in 0 .. L |-> step(f, i)]
           g == [i \in Nat |-> [x \in Nat |-> IF i + 1 \in 1 .. L THEN x + v(i + 1) ELSE x]]
<1>1. L \in Nat /\ \A i \in 1 .. L : v(i) \in Nat
  <2>1. list \in Seq(Pages) /\ sp \in [Pages -> PageState]
    BY DEF SlobInv, HeapOK
  <2>2. L \in Nat /\ \A i \in 1 .. L : list[i] \in Pages
    BY <2>1
  <2>3. \A s \in PageState : s.units \in Nat
    BY PageFacts DEF PageState
  <2> QED
    BY <2>1, <2>2, <2>3
<1> HIDE DEF L, v
<1>2. g \in [Nat -> [Nat -> Nat]]
  BY <1>1
<1>3. PICK h : Solves(h, Nat, 0, g)
  <2>1. 0 \in Nat
    OBVIOUS
  <2> HIDE DEF g
  <2> QED
    BY <1>2, <2>1, RecursionExists
<1>4. /\ h \in [Nat -> Nat] /\ h[0] = 0
      /\ \A i \in Nat : i + 1 \in 1 .. L => h[i + 1] = h[i] + v(i + 1)
  BY <1>3 DEF Solves
<1> DEFINE f == [i \in 0 .. L |-> h[i]]
<1>5. \A i \in 0 .. L : f[i] = step(f, i)
  <2> SUFFICES ASSUME NEW i \in 0 .. L PROVE f[i] = step(f, i)
    OBVIOUS
  <2>1. CASE i = 0
    BY <1>4, <2>1
  <2>2. CASE i # 0
    <3>1. i - 1 \in Nat /\ (i - 1) + 1 = i /\ i - 1 \in 0 .. L /\ i \in 1 .. L
      BY <1>1, <2>2
    <3>2. h[i] = h[i - 1] + v(i)
      BY <1>4, <3>1
    <3> QED
      BY <2>2, <3>1, <3>2
  <2> QED
    BY <2>1, <2>2
<1> DEFINE c == CHOOSE z : P(z)
<1>6. P(c)
  <2>1. P(f)
    BY <1>5
  <2> HIDE DEF P, f
  <2> QED
    BY <2>1
<1>7. \A n : FreeUnits(n) = c[n]
  BY DEF FreeUnits, L, v
<1>8. \A i \in 0 .. L : c[i] = step(c, i)
  <2> HIDE DEF c, step
  <2> QED
    BY <1>6
<1> HIDE DEF c
<1>9. c[0] = 0 /\ \A i \in 1 .. L : c[i] = c[i - 1] + v(i)
  <2>1. 0 \in 0 .. L /\ \A i \in 1 .. L : i \in 0 .. L /\ i # 0
    BY <1>1
  <2> QED
    BY <1>8, <2>1
<1> DEFINE Wrong == {i \in 0 .. L : c[i] \notin Nat}
<1>10. Wrong = {}
  <2> SUFFICES ASSUME Wrong # {} PROVE FALSE
    OBVIOUS
  <2>1. Wrong \in SUBSET Nat
    OBVIOUS
  <2>2. PICK i \in Wrong : \A l \in Wrong : i <= l
    <3> HIDE DEF Wrong
    <3> QED  BY <2>1, MinNat
  <2>3. i \in 0 .. L /\ c[i] \notin Nat
    BY <2>2
  <2>4. i # 0
    BY <1>9, <2>3
  <2>5. i - 1 \in 0 .. L /\ ~(i <= i - 1) /\ i \in 1 .. L
    BY <1>1, <2>3, <2>4
  <2>6. c[i - 1] \in Nat
    BY <2>2, <2>5
  <2> QED
    BY <1>1, <1>9, <2>3, <2>5, <2>6
<1> QED
  BY <1>7, <1>9, <1>10 DEF L, v

\* The walk, in state c, has visited the first i pages of the list.
Visited(c, i) ==
    /\ c.next = IF i = Len(list) THEN END ELSE list[i + 1]
    /\ c.sum = SLOB_UNIT * (FreeUnits(i) - i)

WalkSum == \A t \in calm :
    t \in Threads /\ pc[t].at = "walk" /\ \E i \in 0 .. Len(list) : Visited(pc[t], i)

\* The link behind the page at i leads to the page at i + 1.
LEMMA LinkFacts ==
    ASSUME SlobInv, NEW i \in 1 .. Len(list)
    PROVE  LinkOf(list[i]) = IF i = Len(list) THEN END ELSE list[i + 1]
<1> DEFINE p == list[i]
           I == {j \in 1 .. Len(list) : list[j] = p}
           k == SelectInSeq(list, LAMBDA q : q = p)
<1>1. list \in Seq(Pages) /\ Once(list)
  BY DEF SlobInv, HeapOK
<1>2. \A j \in 1 .. Len(list) : list[j] = p => j = i
  <2>1. IsInjective(list) /\ DOMAIN list = 1 .. Len(list)
    BY <1>1, OnceInjective, ListFacts
  <2> QED
    BY <2>1 DEF IsInjective
<1>3. I = {i}
  BY <1>2
<1>4. k = Min(I)
  BY <1>3 DEF SelectInSeq
<1>5. Min({i}) = i
  BY DEF Min
<1>6. k = i
  BY <1>3, <1>4, <1>5
<1>7. p \in ToSet(list)
  BY <1>1 DEF ToSet
<1>8. LinkOf(p) = IF k = Len(list) THEN END ELSE list[k + 1]
  BY <1>7 DEF LinkOf
<1> HIDE DEF k
<1> QED
  BY <1>6, <1>8

\* One pass of the walk.
LEMMA SumStep ==
    ASSUME SlobInv, WalkSum, NEW t \in calm, WalkStep(t)
    PROVE  \E i \in 0 .. Len(list) : Visited(pc'[t], i)
<1>1. /\ pc[t].at = "walk" /\ pc[t].next \in Pages /\ ThreadsOK(pc) /\ t \in Threads
      /\ list \in Seq(Pages) /\ Len(list) \in Nat /\ sp \in [Pages -> PageState]
  BY DEF WalkStep, SlobInv, HeapOK, WalkSum
<1>2. PICK i \in 0 .. Len(list) : Visited(pc[t], i)
  BY <1>1 DEF WalkSum
<1>3. i # Len(list) /\ pc[t].next = list[i + 1]
  BY <1>1, <1>2, LinkAssumption DEF Visited
<1>4. /\ i + 1 \in 1 .. Len(list) /\ i + 1 \in 0 .. Len(list) /\ (i + 1) - 1 = i
      /\ i \in Nat /\ i \in 0 .. Len(list)
  BY <1>1, <1>3
<1> DEFINE u == sp[list[i + 1]].units
<1>5. u \in Int
  <2>1. sp[list[i + 1]] \in PageState
    BY <1>1, <1>3
  <2> QED
    BY <2>1, PageFacts DEF PageState
<1>6. FreeUnits(i + 1) = FreeUnits(i) + u /\ FreeUnits(i) \in Nat
  BY <1>4, FreeUnitsFacts
<1>7. PICK x : /\ pc' = SetPc(pc, t, x)
               /\ x.sum = pc[t].sum + UNSLOB_UNITS(sp[pc[t].next].units)
               /\ x.next = LinkOf(pc[t].next)
  BY <1>1, WalkStepTo
<1>8. pc'[t] = x
  BY <1>1, <1>7, PcChange
<1>9. x.next = IF i + 1 = Len(list) THEN END ELSE list[(i + 1) + 1]
  BY <1>3, <1>4, <1>7, LinkFacts
<1>10. x.sum = SLOB_UNIT * (FreeUnits(i + 1) - (i + 1))
  <2> HIDE DEF u
  <2>1. UNSLOB_UNITS(u) = 2 * (u - 1)
    BY <1>5 DEF UNSLOB_UNITS, SLOB_UNIT
  <2>2. pc[t].sum = 2 * (FreeUnits(i) - i)
    BY <1>2 DEF Visited, SLOB_UNIT
  <2>3. x.sum = pc[t].sum + UNSLOB_UNITS(u)
    BY <1>3, <1>7 DEF u
  <2> DEFINE F == FreeUnits(i)
             G == FreeUnits(i + 1)
  <2>4. F \in Nat /\ G = F + u /\ x.sum = 2 * (F - i) + 2 * (u - 1)
    BY <1>6, <2>1, <2>2, <2>3
  <2> HIDE DEF F, G
  <2>5. x.sum = 2 * (G - (i + 1))
    BY <1>4, <1>5, <2>4
  <2> QED
    BY <2>5 DEF G, SLOB_UNIT
<1>11. Visited(x, i + 1)
  BY <1>9, <1>10 DEF Visited
<1> QED
  BY <1>4, <1>8, <1>11

\* Nothing but the walk itself puts a thread into the walk.
LEMMA OnlyWalk ==
    ASSUME SlobInv, Next, NEW t \in Threads, pc'[t].at = "walk"
    PROVE  WalkStart(t) \/ WalkStep(t) \/ pc'[t] = pc[t]
<1>1. PICK u \in Threads :
         \/ \E rq \in Requests : Allocate(u, rq)
         \/ OutOfMemory(u) \/ slob_new_pages(u) \/ CountPages(u) \/ AddPage(u)
         \/ \E o \in objs : Free(u, o)
         \/ DropPage(u) \/ UncountPage(u) \/ WalkStart(u) \/ WalkStep(u) \/ WalkReturn(u)
  BY Zenon DEF Next
<1>2. ThreadsOK(pc)
  BY DEF SlobInv
<1>3. ASSUME NEW x, pc' = SetPc(pc, u, x), x.at # "walk" PROVE pc'[t] = pc[t]
  <2>1. pc'[u] = x
    BY <1>2, <1>3, PcChange
  <2>2. t # u => pc'[t] = pc[t]
    BY <1>2, <1>3 DEF SetPc, ThreadsOK
  <2> QED
    BY <1>3, <2>1, <2>2
<1>4. ASSUME NEW rq \in Requests, Allocate(u, rq) PROVE pc'[t] = pc[t]
  <2>1. pc' = pc \/ pc' = SetPc(pc, u, [at |-> "new", rq |-> rq])
    BY <1>4 DEF Allocate, SetPc
  <2> QED
    BY <1>3, <2>1
<1>5. ASSUME NEW o \in objs, Free(u, o) PROVE pc'[t] = pc[t]
  <2>1. pc' = pc \/ \E ps : pc' = SetPc(pc, u, [at |-> "drop", pages |-> ps])
    BY <1>5 DEF Free, kfree, kmem_cache_free, kmem_rcu_free, kmem_cache_destroy,
                __kmem_cache_free, slob_free, slob_free_pages, SetPc
  <2>2. ASSUME NEW ps, pc' = SetPc(pc, u, [at |-> "drop", pages |-> ps]) PROVE pc'[t] = pc[t]
    BY <1>3, <2>2
  <2> QED
    BY <2>1, <2>2
<1>6. CASE OutOfMemory(u) \/ UncountPage(u) \/ WalkReturn(u)
  <2>1. pc' = SetPc(pc, u, Idle)
    BY <1>6 DEF OutOfMemory, UncountPage, WalkReturn, SetPc
  <2> QED
    BY <1>3, <2>1, IdleOK
<1>7. CASE slob_new_pages(u)
  <2>1. \E ps, n, rq : pc' = SetPc(pc, u, [at |-> "count", rq |-> rq, pages |-> ps, old |-> n])
    BY <1>7 DEF slob_new_pages, SetPc
  <2> QED
    BY <1>3, <2>1
<1>8. CASE CountPages(u)
  <2>1. \/ pc' = SetPc(pc, u, Idle)
        \/ pc' = SetPc(pc, u, [at |-> "init", rq |-> pc[u].rq, pages |-> pc[u].pages])
    BY <1>8 DEF CountPages, SetPc
  <2> QED
    BY <1>3, <2>1, IdleOK
<1>9. CASE AddPage(u)
  <2>1. pc' = SetPc(pc, u, Idle) \/ pc' = SetPc(pc, u, [at |-> "BUG"])
    BY <1>9 DEF AddPage, SetPc
  <2> QED
    BY <1>3, <2>1, IdleOK
<1>10. CASE DropPage(u)
  <2>1. pc' = SetPc(pc, u, [at |-> "uncount", pages |-> pc[u].pages, old |-> pages_alloc])
    BY <1>10 DEF DropPage, SetPc
  <2> QED
    BY <1>3, <2>1
<1>11. CASE WalkStart(u) \/ WalkStep(u)
  <2>1. \E x : pc' = SetPc(pc, u, x)
    BY <1>11, WalkStepTo DEF WalkStart, SetPc
  <2>2. t # u => pc'[t] = pc[t]
    BY <1>2, <2>1 DEF SetPc, ThreadsOK
  <2> QED
    BY <1>11, <2>2
<1> QED
  BY <1>1, <1>4, <1>5, <1>6, <1>7, <1>8, <1>9, <1>10, <1>11

\* A walk that meets no change of the heap has added up what it has visited,
\* whatever the other threads do.
LEMMA SumNext ==
    ASSUME SlobInv, WalkSum, [WalkNext]_walkVars
    PROVE  WalkSum'
<1>1. CASE UNCHANGED walkVars
  <2>1. UNCHANGED <<list, sp, pc, calm>>
    BY <1>1 DEF walkVars, vars
  <2> QED
    BY <2>1 DEF WalkSum, Visited, FreeUnits
<1>2. CASE WalkNext
  <2> SUFFICES ASSUME NEW t \in calm'
               PROVE  t \in Threads /\ pc'[t].at = "walk" /\ (\E i \in 0 .. Len(list) : Visited(pc[t], i))'
    BY DEF WalkSum
  <2>1. /\ Next /\ t \in Threads /\ pc'[t].at = "walk" /\ UNCHANGED <<sp, list>>
        /\ pc[t].at = "walk" => t \in calm
    BY <1>2 DEF WalkNext
  <2>2. ASSUME \E i \in 0 .. Len(list) : Visited(pc'[t], i)
        PROVE  (\E i \in 0 .. Len(list) : Visited(pc[t], i))'
    BY <2>1, <2>2 DEF Visited, FreeUnits
  <2>3. CASE WalkStart(t)
    <3> DEFINE x == [at |-> "walk", sum |-> 0, next |-> IF list = << >> THEN END ELSE list[1]]
    <3>1. pc' = SetPc(pc, t, x)
      BY <2>3 DEF WalkStart, SetPc
    <3>2. x.sum = 0 /\ x.next = IF list = << >> THEN END ELSE list[1]
      OBVIOUS
    <3> HIDE DEF x
    <3>3. pc'[t] = x
      BY <2>1, <3>1, PcChange DEF SlobInv
    <3>4. Len(list) \in Nat /\ (list = << >> <=> Len(list) = 0)
      BY DEF SlobInv, HeapOK
    <3>5. Visited(x, 0)
      <4>1. x.next = IF 0 = Len(list) THEN END ELSE list[0 + 1]
        BY <3>2, <3>4
      <4>2. x.sum = SLOB_UNIT * (FreeUnits(0) - 0)
        BY <3>2, FreeUnitsFacts DEF SLOB_UNIT
      <4> QED
        BY <4>1, <4>2 DEF Visited
    <3>6. 0 \in 0 .. Len(list)
      BY <3>4
    <3> QED
      BY <2>1, <2>2, <3>3, <3>5, <3>6
  <2>4. CASE WalkStep(t)
    <3>1. t \in calm
      BY <2>1, <2>4 DEF WalkStep
    <3> QED
      BY <2>1, <2>2, <2>4, <3>1, SumStep
  <2>5. CASE pc'[t] = pc[t]
    <3>1. t \in calm
      BY <2>1, <2>5
    <3>2. \E i \in 0 .. Len(list) : Visited(pc'[t], i)
      BY <2>5, <3>1 DEF WalkSum
    <3> QED
      BY <2>1, <2>2, <3>2
  <2> QED
    BY <2>1, <2>3, <2>4, <2>5, OnlyWalk
<1> QED
  BY <1>1, <1>2

\* However many threads allocate and free, a walk of sys_get_slob_amt_free
\* during which the heap stays as it is returns the free memory of the pages on
\* the list less exactly one unit for each of them: it visits each once, and
\* UNSLOB_UNITS counts one unit too few.
THEOREM FreeMemoryReported == WalkSpec => []FreeReported
<1>1. WalkInit => SlobInv /\ WalkSum
  <2>1. WalkInit => SlobInv
    BY InvInit DEF WalkInit
  <2>2. WalkInit => WalkSum
    BY DEF WalkInit, WalkSum
  <2> QED
    BY <2>1, <2>2
<1>2. SlobInv /\ [WalkNext]_walkVars => SlobInv'
  <2>1. [WalkNext]_walkVars => [Next]_vars
    BY DEF WalkNext, walkVars
  <2> QED
    BY <2>1, InvNext
<1>3. SlobInv /\ WalkSum /\ [WalkNext]_walkVars => WalkSum'
  BY SumNext
<1>4. SlobInv /\ WalkSum => FreeReported
  <2> SUFFICES ASSUME SlobInv, WalkSum, NEW u \in calm, pc[u].next = END
               PROVE  pc[u].sum = SLOB_UNIT * (FreeUnits(Len(list)) - Len(list))
    BY DEF FreeReported
  <2>1. PICK i \in 0 .. Len(list) : Visited(pc[u], i)
    BY DEF WalkSum
  <2>2. list \in Seq(Pages) /\ Len(list) \in Nat
    BY DEF SlobInv, HeapOK
  <2>3. i = Len(list)
    <3> SUFFICES ASSUME i # Len(list) PROVE FALSE
      OBVIOUS
    <3>1. i + 1 \in 1 .. Len(list)
      BY <2>2
    <3>2. list[i + 1] \in Pages
      BY <2>2, <3>1
    <3>3. list[i + 1] = END
      BY <2>1 DEF Visited
    <3> QED
      BY <3>2, <3>3, LinkAssumption
  <2> QED
    BY <2>1, <2>3 DEF Visited
<1> QED
  BY <1>1, <1>2, <1>3, <1>4, PTL DEF WalkSpec
=============================================================================
