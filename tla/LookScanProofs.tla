--------------------------- MODULE LookScanProofs ---------------------------
(***************************************************************************)
(* The loop of look_dispatch finds, for every list and head position, the  *)
(* request LookPick!IsNext describes.  The argument is the loop invariant  *)
(* ScanInv, read on the part of the list already visited (Seen).           *)
(***************************************************************************)
EXTENDS LookScan, SequenceTheorems, TLAPS

LEMMA ScanTypes ==
    ASSUME TypeOK
    PROVE  /\ queue \in Seq([pos : Nat])
           /\ Len(queue) \in Nat /\ Len(queue) > 0
           /\ DOMAIN queue = 1 .. Len(queue)
           /\ \A i \in 1 .. Len(queue) : queue[i].pos \in Nat
           /\ cur_pos \in Nat
<1>1. queue \in Seq([pos : Nat]) /\ Len(queue) > 0 /\ cur_pos \in Nat
  BY ScanAssumption DEF TypeOK
<1>2. DOMAIN queue = 1 .. Len(queue) /\ Len(queue) \in Nat
  BY <1>1, LenProperties
<1>3. \A i \in 1 .. Len(queue) : queue[i] \in [pos : Nat]
  BY <1>1, <1>2, ElementOfSeq
<1> QED
  BY <1>1, <1>2, <1>3

LEMMA SeenFacts ==
    ASSUME TypeOK
    PROVE  /\ DOMAIN Seen = 1 .. pos - 1
           /\ \A i \in 1 .. pos - 1 : Seen[i] = queue[i]
<1>1. queue \in Seq([pos : Nat]) /\ Len(queue) \in Nat /\ pos \in 1 .. Len(queue) + 1
  BY ScanTypes DEF TypeOK
<1>2. CASE pos = 1
  <2>1. SubSeq(queue, 1, 0) = << >>
    BY <1>1, SubSeqProperties
  <2> QED
    BY <1>2, <2>1 DEF Seen
<1>3. CASE pos # 1
  BY <1>1, <1>3, SubSeqProperties DEF Seen
<1> QED
  BY <1>2, <1>3

\* The candidates of the visited part, said of the list itself.
LEMMA SeenSides ==
    ASSUME TypeOK
    PROVE  /\ AtOrAbove(Seen, cur_pos) = {i \in 1 .. pos - 1 : queue[i].pos >= cur_pos}
           /\ AtOrBelow(Seen, cur_pos) = {i \in 1 .. pos - 1 : queue[i].pos <= cur_pos}
  BY SeenFacts DEF AtOrAbove, AtOrBelow

\* The loop invariant without SubSeq: what each pointer says of the first n
\* entries of the list.
HigherOf(h, n) ==
    /\ h = NULLRQ => \A i \in 1 .. n : ~(queue[i].pos >= cur_pos)
    /\ h # NULLRQ => /\ h \in 1 .. n /\ queue[h].pos >= cur_pos
                     /\ \A j \in 1 .. n : queue[j].pos >= cur_pos =>
                           \/ queue[h].pos < queue[j].pos
                           \/ queue[h].pos = queue[j].pos /\ h <= j

LowerOf(l, n) ==
    /\ l = NULLRQ => \A i \in 1 .. n : ~(queue[i].pos <= cur_pos)
    /\ l # NULLRQ => /\ l \in 1 .. n /\ queue[l].pos <= cur_pos
                     /\ \A j \in 1 .. n : queue[j].pos <= cur_pos =>
                           \/ queue[l].pos > queue[j].pos
                           \/ queue[l].pos = queue[j].pos /\ l <= j

LEMMA SoFarMeans ==
    ASSUME TypeOK
    PROVE  /\ HigherSoFar <=> HigherOf(higher, pos - 1)
           /\ LowerSoFar <=> LowerOf(lower, pos - 1)
<1>1. pos - 1 \in Nat
  BY ScanTypes DEF TypeOK
<1>2. \A i \in 1 .. pos - 1 : Seen[i] = queue[i]
  BY SeenFacts
<1>3. HigherSoFar <=> HigherOf(higher, pos - 1)
  BY <1>1, <1>2, SeenSides DEF HigherSoFar, HigherOf, IsHigher, NULLRQ
<1>4. LowerSoFar <=> LowerOf(lower, pos - 1)
  BY <1>1, <1>2, SeenSides DEF LowerSoFar, LowerOf, IsLower, NULLRQ
<1> QED
  BY <1>3, <1>4

LEMMA VisitTypes ==
    ASSUME TypeOK, Visit
    PROVE  TypeOK'
<1>1. pos \in 1 .. Len(queue) /\ Len(queue) \in Nat
  BY ScanTypes DEF TypeOK, Visit
<1> QED
  BY <1>1 DEF TypeOK, Visit

\* One pass of the loop extends the answer to one more entry.
LEMMA VisitExtends ==
    ASSUME ScanInv, Visit
    PROVE  ScanInv'
<1>1. TypeOK /\ TypeOK'
  BY VisitTypes DEF ScanInv
<1>2. /\ pos \in 1 .. Len(queue) /\ Len(queue) \in Nat /\ cur_pos \in Nat
      /\ \A i \in 1 .. Len(queue) : queue[i].pos \in Nat
      /\ higher \in 0 .. Len(queue) /\ lower \in 0 .. Len(queue)
  BY <1>1, ScanTypes DEF TypeOK, Visit
<1>3. HigherOf(higher, pos - 1) /\ LowerOf(lower, pos - 1)
  BY <1>1, SoFarMeans DEF ScanInv
<1>4. HigherOf(higher', pos)
  <2> DEFINE new == queue[pos].pos
  <2>1. \A j \in 1 .. pos : j = pos \/ j \in 1 .. pos - 1
    BY <1>2
  <2>2. CASE BetterHigher(pos)
    <3>1. higher' = pos /\ pos # NULLRQ /\ new >= cur_pos
      BY <1>2, <2>2 DEF Visit, BetterHigher, NULLRQ
    <3>2. ASSUME NEW j \in 1 .. pos - 1, queue[j].pos >= cur_pos
          PROVE  new < queue[j].pos
      <4>1. higher # NULLRQ
        BY <1>3, <3>2 DEF HigherOf
      <4>2. /\ higher \in 1 .. pos - 1
            /\ queue[higher].pos < queue[j].pos \/ queue[higher].pos = queue[j].pos
        BY <1>3, <3>2, <4>1 DEF HigherOf
      <4>3. new < queue[higher].pos
        BY <2>2, <4>1 DEF BetterHigher
      <4>4. new \in Nat /\ queue[higher].pos \in Nat /\ queue[j].pos \in Nat
        BY <1>2, <4>2
      <4> HIDE DEF new
      <4> QED
        BY <4>2, <4>3, <4>4
    <3>3. HigherOf(pos, pos)
      BY <1>2, <2>1, <3>1, <3>2 DEF HigherOf
    <3> QED
      BY <3>1, <3>3
  <2>3. CASE ~BetterHigher(pos)
    <3>1. higher' = higher
      BY <2>3 DEF Visit
    <3>2. HigherOf(higher, pos)
      BY <1>2, <1>3, <2>1, <2>3 DEF HigherOf, BetterHigher, NULLRQ
    <3> QED
      BY <3>1, <3>2
  <2> QED
    BY <2>2, <2>3
<1>5. LowerOf(lower', pos)
  <2> DEFINE new == queue[pos].pos
  <2>1. \A j \in 1 .. pos : j = pos \/ j \in 1 .. pos - 1
    BY <1>2
  <2>2. CASE BetterLower(pos)
    <3>1. lower' = pos /\ pos # NULLRQ /\ new <= cur_pos
      BY <1>2, <2>2 DEF Visit, BetterLower, NULLRQ
    <3>2. ASSUME NEW j \in 1 .. pos - 1, queue[j].pos <= cur_pos
          PROVE  new > queue[j].pos
      <4>1. lower # NULLRQ
        BY <1>3, <3>2 DEF LowerOf
      <4>2. /\ lower \in 1 .. pos - 1
            /\ queue[lower].pos > queue[j].pos \/ queue[lower].pos = queue[j].pos
        BY <1>3, <3>2, <4>1 DEF LowerOf
      <4>3. new > queue[lower].pos
        BY <2>2, <4>1 DEF BetterLower
      <4>4. new \in Nat /\ queue[lower].pos \in Nat /\ queue[j].pos \in Nat
        BY <1>2, <4>2
      <4> HIDE DEF new
      <4> QED
        BY <4>2, <4>3, <4>4
    <3>3. LowerOf(pos, pos)
      BY <1>2, <2>1, <3>1, <3>2 DEF LowerOf
    <3> QED
      BY <3>1, <3>3
  <2>3. CASE ~BetterLower(pos)
    <3>1. lower' = lower
      BY <2>3 DEF Visit
    <3>2. LowerOf(lower, pos)
      BY <1>2, <1>3, <2>1, <2>3 DEF LowerOf, BetterLower, NULLRQ
    <3> QED
      BY <3>1, <3>2
  <2> QED
    BY <2>2, <2>3
<1>6. HigherOf(higher, pos - 1)' /\ LowerOf(lower, pos - 1)'
  <2>1. queue' = queue /\ cur_pos' = cur_pos /\ pos' - 1 = pos
    BY <1>2 DEF Visit
  <2>2. HigherOf(higher, pos - 1)'
    BY <1>4, <2>1 DEF HigherOf
  <2>3. LowerOf(lower, pos - 1)'
    BY <1>5, <2>1 DEF LowerOf
  <2> QED
    BY <2>2, <2>3
<1>7. (HigherSoFar <=> HigherOf(higher, pos - 1))' /\ (LowerSoFar <=> LowerOf(lower, pos - 1))'
  BY <1>1, SoFarMeans, PTL
<1> QED
  BY <1>1, <1>6, <1>7 DEF ScanInv

\* At the end of the loop the visited part is the whole list.
LEMMA WholeListSeen ==
    ASSUME ScanInv, pos = Len(queue) + 1
    PROVE  /\ higher = NULLRQ <=> AtOrAbove(queue, cur_pos) = {}
           /\ lower = NULLRQ <=> AtOrBelow(queue, cur_pos) = {}
           /\ higher # NULLRQ => IsHigher(queue, cur_pos, higher)
           /\ lower # NULLRQ => IsLower(queue, cur_pos, lower)
<1>1. /\ Len(queue) \in Nat /\ DOMAIN queue = 1 .. Len(queue)
      /\ HigherOf(higher, Len(queue)) /\ LowerOf(lower, Len(queue))
  BY ScanTypes, SoFarMeans DEF ScanInv
<1>2. /\ AtOrAbove(queue, cur_pos) = {i \in 1 .. Len(queue) : queue[i].pos >= cur_pos}
      /\ AtOrBelow(queue, cur_pos) = {i \in 1 .. Len(queue) : queue[i].pos <= cur_pos}
  BY <1>1 DEF AtOrAbove, AtOrBelow
<1>3. /\ higher = NULLRQ <=> AtOrAbove(queue, cur_pos) = {}
      /\ higher # NULLRQ => IsHigher(queue, cur_pos, higher)
  BY <1>1, <1>2 DEF HigherOf, IsHigher
<1>4. /\ lower = NULLRQ <=> AtOrBelow(queue, cur_pos) = {}
      /\ lower # NULLRQ => IsLower(queue, cur_pos, lower)
  BY <1>1, <1>2 DEF LowerOf, IsLower
<1> QED
  BY <1>3, <1>4

\* A non-empty list has a candidate on one side: its first request starts at
\* or above the head, or at or below it.
LEMMA SomeSide ==
    ASSUME TypeOK
    PROVE  AtOrAbove(queue, cur_pos) # {} \/ AtOrBelow(queue, cur_pos) # {}
<1>1. 1 \in DOMAIN queue /\ queue[1].pos \in Nat /\ cur_pos \in Nat
  BY ScanTypes
<1>2. queue[1].pos >= cur_pos \/ queue[1].pos <= cur_pos
  BY <1>1
<1> QED
  BY <1>1, <1>2 DEF AtOrAbove, AtOrBelow

LEMMA ChooseIsNext ==
    ASSUME ScanInv, Choose
    PROVE  /\ dir' = NextDir(queue, cur_pos, dir)
           /\ IsNext(queue, cur_pos, dir, chosen')
           /\ dir' \in {Up, Down}
<1>1. /\ higher = NULLRQ <=> AtOrAbove(queue, cur_pos) = {}
      /\ lower = NULLRQ <=> AtOrBelow(queue, cur_pos) = {}
      /\ higher # NULLRQ => IsHigher(queue, cur_pos, higher)
      /\ lower # NULLRQ => IsLower(queue, cur_pos, lower)
  BY WholeListSeen DEF Choose
<1>2. higher # NULLRQ \/ lower # NULLRQ
  BY <1>1, SomeSide DEF ScanInv
<1>3. dir \in {Up, Down}
  BY DEF ScanInv, TypeOK
<1>4. dir' = NextDir(queue, cur_pos, dir)
  BY <1>1 DEF Choose, NextDir, SwitchDir
<1>5. dir' \in {Up, Down}
  BY <1>3 DEF Choose, SwitchDir, Up, Down
<1>6. (dir' = Up => higher # NULLRQ) /\ (dir' = Down => lower # NULLRQ)
  BY <1>2, <1>3 DEF Choose, SwitchDir, Up, Down
<1>7. chosen' = IF dir' = Up THEN higher ELSE lower
  BY DEF Choose
<1>8. IsNext(queue, cur_pos, dir, chosen')
  BY <1>1, <1>4, <1>5, <1>6, <1>7 DEF IsNext
<1> QED
  BY <1>4, <1>5, <1>8

LEMMA ChooseKeeps ==
    ASSUME ScanInv, Choose
    PROVE  ScanInv'
<1>1. dir' \in {Up, Down}
  BY ChooseIsNext
<1>2. TypeOK'
  BY <1>1 DEF ScanInv, TypeOK, Choose
<1>3. (HigherSoFar /\ LowerSoFar)'
  BY DEF ScanInv, Choose, HigherSoFar, LowerSoFar, Seen, IsHigher, IsLower,
         AtOrAbove, AtOrBelow
<1> QED
  BY <1>2, <1>3 DEF ScanInv

LEMMA InitScanInv ==
    ASSUME Init
    PROVE  ScanInv
<1>1. TypeOK
  <2>1. Len(queue) \in Nat
    BY ScanAssumption, LenProperties DEF Init
  <2>2. /\ pos \in 1 .. Len(queue) + 1 /\ higher \in 0 .. Len(queue)
        /\ lower \in 0 .. Len(queue) /\ chosen \in 0 .. Len(queue)
    BY <2>1 DEF Init, NULLRQ
  <2>3. done \in BOOLEAN
    BY DEF Init
  <2> QED
    BY <2>2, <2>3 DEF Init, TypeOK
<1>2. HigherOf(higher, pos - 1) /\ LowerOf(lower, pos - 1)
  BY DEF Init, HigherOf, LowerOf
<1> QED
  BY <1>1, <1>2, SoFarMeans DEF ScanInv

LEMMA ScanStep ==
    ASSUME ScanInv, [Next]_vars
    PROVE  ScanInv'
<1>1. CASE Visit
  BY <1>1, VisitExtends
<1>2. CASE Choose
  BY <1>2, ChooseKeeps
<1>3. CASE UNCHANGED vars
  BY <1>3 DEF vars, ScanInv, TypeOK, HigherSoFar, LowerSoFar, Seen, IsHigher,
              IsLower, AtOrAbove, AtOrBelow
<1> QED
  BY <1>1, <1>2, <1>3 DEF Next

\* The loop invariant of list_for_each in look_dispatch: each pointer is the
\* nearest candidate among the requests visited so far.
THEOREM ScanInvariant == Spec => []ScanInv
<1>1. Init => ScanInv
  BY InitScanInv
<1>2. ScanInv /\ [Next]_vars => ScanInv'
  BY ScanStep
<1> QED
  BY <1>1, <1>2, PTL DEF Spec

\* For every list, head position and direction look_dispatch dereferences a
\* request, and it is the one LookPick!IsNext describes.
THEOREM ScanCorrect == Spec => ScanChoosesNext
<1>1. ScanInv /\ [Next]_vars
        => [done' # done => /\ dir' = NextDir(queue, cur_pos, dir)
                            /\ IsNext(queue, cur_pos, dir, chosen')]_vars
  <2> SUFFICES ASSUME ScanInv, Next, done' # done
               PROVE  /\ dir' = NextDir(queue, cur_pos, dir)
                      /\ IsNext(queue, cur_pos, dir, chosen')
    BY DEF vars
  <2>1. Choose
    BY DEF Next, Visit
  <2> QED
    BY <2>1, ChooseIsNext
<1> QED
  BY <1>1, ScanInvariant, PTL DEF Spec, ScanChoosesNext
=============================================================================
