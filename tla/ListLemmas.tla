----------------------------- MODULE ListLemmas -----------------------------
(***************************************************************************)
(* Facts about sequences, the kernel's lists, and about least and greatest *)
(* numbers, that the proofs about several components need.                 *)
(***************************************************************************)
EXTENDS Integers, SequencesExt, SequenceTheorems, FiniteSetTheorems, WellFoundedInduction, TLAPS

\* A set of naturals that is not empty has a least element, which Min
\* chooses: the intervals below its elements are well founded under
\* inclusion.
LEMMA MinNat ==
    ASSUME NEW S \in SUBSET Nat, S # {}
    PROVE  Min(S) \in S /\ \A y \in S : Min(S) <= y
<1>1. PICK n \in S : TRUE
  OBVIOUS
<1> DEFINE U == 0 .. n
           T == {0 .. x - 1 : x \in S \cap U}
           R == StrictSubsetOrdering(U)
<1>2. IsFiniteSet(U)
  BY FS_Interval
<1>3. IsWellFoundedOn(R, FiniteSubsetsOf(U))
  BY <1>2, FS_FiniteSubsetsOfFinite, FS_StrictSubsetOrderingWellFounded
<1>4. T \subseteq FiniteSubsetsOf(U) /\ T # {}
  BY <1>2, FS_Subset DEF FiniteSubsetsOf
<1> HIDE DEF U, T, R
<1>5. PICK A \in T : \A B \in T : <<B, A>> \notin R
  BY <1>3, <1>4, WFMin
<1>6. PICK x \in S \cap U : A = 0 .. x - 1
  BY <1>5 DEF T
<1>7. ASSUME NEW y \in S PROVE x <= y
  <2>1. SUFFICES ASSUME y < x PROVE FALSE
    BY <1>6 DEF U
  <2>2. y \in U
    BY <2>1, <1>6 DEF U
  <2>3. 0 .. y - 1 \in T
    BY <2>2 DEF T
  <2>4. 0 .. y - 1 \subseteq A /\ 0 .. y - 1 # A /\ A \subseteq U
    <3>1. y \in A /\ y \notin 0 .. y - 1
      BY <1>6, <2>1 DEF U
    <3> QED
      BY <1>6, <2>1, <3>1 DEF U
  <2>5. <<0 .. y - 1, A>> \in R
    BY <2>4 DEF R, StrictSubsetOrdering
  <2> QED
    BY <1>5, <2>3, <2>5
<1> QED
  BY <1>6, <1>7 DEF Min

\* list_del(): what RemoveAt does to a sequence.
LEMMA RemoveAtProperties ==
    ASSUME NEW S, NEW s \in Seq(S), NEW i \in 1 .. Len(s)
    PROVE  /\ RemoveAt(s, i) \in Seq(S)
           /\ Len(RemoveAt(s, i)) = Len(s) - 1
           /\ \A k \in 1 .. Len(s) - 1 :
                 RemoveAt(s, i)[k] = IF k < i THEN s[k] ELSE s[k + 1]
<1> DEFINE a == SubSeq(s, 1, i - 1)
           b == SubSeq(s, i + 1, Len(s))
<1>1. Len(s) \in Nat /\ \A k \in 1 .. Len(s) : s[k] \in S
  BY LenProperties, ElementOfSeq
<1>2. /\ a \in Seq(S) /\ Len(a) = i - 1
      /\ \A k \in 1 .. i - 1 : a[k] = s[k]
  <2>1. \A k \in 1 .. i - 1 : s[k] \in S
    BY <1>1
  <2>2. 1 \in Int /\ i - 1 \in Int
    BY <1>1
  <2>3. /\ SubSeq(s, 1, i - 1) \in Seq(S)
        /\ Len(SubSeq(s, 1, i - 1)) = IF 1 <= i - 1 THEN (i - 1) - 1 + 1 ELSE 0
        /\ \A k \in 1 .. (i - 1) - 1 + 1 : SubSeq(s, 1, i - 1)[k] = s[1 + k - 1]
    BY <2>1, <2>2, SubSeqProperties
  <2> QED
    BY <1>1, <2>3
<1>3. /\ b \in Seq(S) /\ Len(b) = Len(s) - i
      /\ \A k \in 1 .. Len(s) - i : b[k] = s[i + k]
  <2>1. \A k \in i + 1 .. Len(s) : s[k] \in S
    BY <1>1
  <2>2. i + 1 \in Int /\ Len(s) \in Int
    BY <1>1
  <2>3. /\ SubSeq(s, i + 1, Len(s)) \in Seq(S)
        /\ Len(SubSeq(s, i + 1, Len(s))) = IF i + 1 <= Len(s) THEN Len(s) - (i + 1) + 1 ELSE 0
        /\ \A k \in 1 .. Len(s) - (i + 1) + 1 : SubSeq(s, i + 1, Len(s))[k] = s[(i + 1) + k - 1]
    BY <2>1, <2>2, SubSeqProperties
  <2> QED
    BY <1>1, <2>3
<1>4. RemoveAt(s, i) = a \o b
  BY DEF RemoveAt
<1> HIDE DEF a, b
<1>5. /\ a \o b \in Seq(S) /\ Len(a \o b) = Len(a) + Len(b)
      /\ \A k \in 1 .. Len(a) + Len(b) : (a \o b)[k] = IF k <= Len(a) THEN a[k] ELSE b[k - Len(a)]
  BY <1>2, <1>3, ConcatProperties
<1>6. ASSUME NEW k \in 1 .. Len(s) - 1
      PROVE  (a \o b)[k] = IF k < i THEN s[k] ELSE s[k + 1]
  <2>1. CASE k < i
    BY <1>1, <1>2, <1>3, <1>5, <2>1
  <2>2. CASE ~(k < i)
    <3>1. k - Len(a) \in 1 .. Len(s) - i /\ i + (k - Len(a)) = k + 1
      BY <1>1, <1>2, <2>2
    <3>2. (a \o b)[k] = b[k - Len(a)]
      BY <1>1, <1>2, <1>3, <1>5, <2>2
    <3> QED
      BY <1>3, <2>2, <3>1, <3>2
  <2> QED
    BY <2>1, <2>2
<1> QED
  BY <1>1, <1>2, <1>3, <1>4, <1>5, <1>6

-----------------------------------------------------------------------------
(* A list as the set of its entries and the order among them *)

\* x stands before y in the list s.
Prec(s, x, y) == \E i, j \in DOMAIN s : i < j /\ s[i] = x /\ s[j] = y

\* No entry is twice in the list s.
Once(s) == \A x : ~Prec(s, x, x)

\* Entries of a list, and how two of them are ordered.
LEMMA ListFacts ==
    ASSUME NEW S, NEW s \in Seq(S)
    PROVE  /\ Len(s) \in Nat /\ DOMAIN s = 1 .. Len(s)
           /\ Range(s) \subseteq S
           /\ \A i \in 1 .. Len(s) : s[i] \in Range(s)
           /\ \A x \in Range(s) : \E i \in 1 .. Len(s) : s[i] = x
           /\ \A x, y : Prec(s, x, y) => x \in Range(s) /\ y \in Range(s)
           /\ \A x, y \in Range(s) : x # y => Prec(s, x, y) \/ Prec(s, y, x)
<1>1. Len(s) \in Nat /\ DOMAIN s = 1 .. Len(s) /\ \A i \in 1 .. Len(s) : s[i] \in S
  BY LenProperties, ElementOfSeq
<1>2. /\ Range(s) \subseteq S
      /\ \A i \in 1 .. Len(s) : s[i] \in Range(s)
      /\ \A x \in Range(s) : \E i \in 1 .. Len(s) : s[i] = x
  BY <1>1 DEF Range
<1>3. \A x, y : Prec(s, x, y) => x \in Range(s) /\ y \in Range(s)
  BY <1>1, <1>2 DEF Prec
<1>4. ASSUME NEW x \in Range(s), NEW y \in Range(s), x # y
      PROVE  Prec(s, x, y) \/ Prec(s, y, x)
  <2>1. PICK i \in 1 .. Len(s) : s[i] = x
    BY <1>2
  <2>2. PICK j \in 1 .. Len(s) : s[j] = y
    BY <1>2
  <2>3. i < j \/ j < i
    BY <1>1, <1>4, <2>1, <2>2
  <2> QED
    BY <1>1, <2>1, <2>2, <2>3 DEF Prec
<1> QED
  BY <1>1, <1>2, <1>3, <1>4

\* A list of positions is injective when no entry is before itself.
LEMMA OnceInjective ==
    ASSUME NEW S, NEW s \in Seq(S), Once(s)
    PROVE  IsInjective(s)
<1> SUFFICES ASSUME NEW a \in DOMAIN s, NEW b \in DOMAIN s, s[a] = s[b] PROVE a = b
  BY DEF IsInjective
<1>1. Len(s) \in Nat /\ DOMAIN s = 1 .. Len(s)
  BY ListFacts
<1>2. ~(a < b) /\ ~(b < a)
  BY DEF Once, Prec
<1> QED
  BY <1>1, <1>2

\* The list with nothing in it, and with one entry.
LEMMA ShortLists ==
    ASSUME NEW S
    PROVE  /\ << >> \in Seq(S) /\ Range(<< >>) = {} /\ \A x, y : ~Prec(<< >>, x, y)
           /\ \A e \in S : <<e>> \in Seq(S) /\ Range(<<e>>) = {e} /\ \A x, y : ~Prec(<<e>>, x, y)
<1>1. << >> \in Seq(S) /\ Range(<< >>) = {} /\ \A x, y : ~Prec(<< >>, x, y)
  BY DEF Range, Prec
<1>2. ASSUME NEW e \in S
      PROVE  <<e>> \in Seq(S) /\ Range(<<e>>) = {e} /\ \A x, y : ~Prec(<<e>>, x, y)
  <2>1. <<e>> \in Seq(S) /\ Len(<<e>>) = 1 /\ <<e>>[1] = e
    OBVIOUS
  <2> DEFINE s == <<e>>
  <2>2. DOMAIN s = {1} /\ s[1] = e
    <3>1. DOMAIN s = 1 .. 1
      BY <2>1, LenProperties
    <3> QED
      BY <2>1, <3>1
  <2>3. Range(s) = {e} /\ \A x, y : ~Prec(s, x, y)
    <3> HIDE DEF s
    <3> QED
      BY <2>2 DEF Range, Prec
  <2> QED
    BY <2>1, <2>3
<1> QED
  BY <1>1, <1>2

\* Two lists put together.
LEMMA ConcatOrder ==
    ASSUME NEW S, NEW s \in Seq(S), NEW t \in Seq(S)
    PROVE  /\ s \o t \in Seq(S)
           /\ Range(s \o t) = Range(s) \cup Range(t)
           /\ \A x, y : Prec(s \o t, x, y) <=>
                 Prec(s, x, y) \/ Prec(t, x, y) \/ (x \in Range(s) /\ y \in Range(t))
<1> DEFINE u == s \o t
<1>1. /\ Len(s) \in Nat /\ DOMAIN s = 1 .. Len(s)
      /\ Len(t) \in Nat /\ DOMAIN t = 1 .. Len(t)
  BY ListFacts
<1>2. /\ u \in Seq(S) /\ Len(u) = Len(s) + Len(t)
      /\ \A k \in 1 .. Len(s) + Len(t) : u[k] = IF k <= Len(s) THEN s[k] ELSE t[k - Len(s)]
  BY ConcatProperties
<1>3. DOMAIN u = 1 .. Len(s) + Len(t)
  BY <1>2, LenProperties
<1> HIDE DEF u
<1>4. ASSUME NEW k \in DOMAIN u
      PROVE  \/ k \in DOMAIN s /\ u[k] = s[k]
             \/ k > Len(s) /\ k - Len(s) \in DOMAIN t /\ u[k] = t[k - Len(s)]
  BY <1>1, <1>2, <1>3
<1>5. \A k \in DOMAIN s : k \in DOMAIN u /\ u[k] = s[k]
  BY <1>1, <1>2, <1>3
<1>6. ASSUME NEW k \in DOMAIN t PROVE k + Len(s) \in DOMAIN u /\ u[k + Len(s)] = t[k]
  <2>1. k + Len(s) \in 1 .. Len(s) + Len(t) /\ ~(k + Len(s) <= Len(s)) /\ (k + Len(s)) - Len(s) = k
    BY <1>1
  <2> QED
    BY <1>2, <1>3, <2>1
<1>7. Range(u) = Range(s) \cup Range(t)
  <2>1. Range(u) \subseteq Range(s) \cup Range(t)
    BY <1>4 DEF Range
  <2>2. Range(s) \subseteq Range(u)
    BY <1>5 DEF Range
  <2>3. Range(t) \subseteq Range(u)
    BY <1>6 DEF Range
  <2> QED
    BY <2>1, <2>2, <2>3
<1>8. ASSUME NEW x, NEW y, Prec(u, x, y)
      PROVE  Prec(s, x, y) \/ Prec(t, x, y) \/ (x \in Range(s) /\ y \in Range(t))
  <2>1. PICK i \in DOMAIN u, j \in DOMAIN u : i < j /\ u[i] = x /\ u[j] = y
    BY <1>8 DEF Prec
  <2>2. CASE j \in DOMAIN s /\ u[j] = s[j]
    <3>1. i \in DOMAIN s /\ u[i] = s[i]
      BY <1>1, <1>2, <1>3, <2>1, <2>2
    <3> QED
      BY <2>1, <2>2, <3>1 DEF Prec
  <2>3. CASE j > Len(s) /\ j - Len(s) \in DOMAIN t /\ u[j] = t[j - Len(s)]
    <3>1. CASE i \in DOMAIN s /\ u[i] = s[i]
      BY <2>1, <2>3, <3>1 DEF Range
    <3>2. CASE i > Len(s) /\ i - Len(s) \in DOMAIN t /\ u[i] = t[i - Len(s)]
      <4>1. i - Len(s) < j - Len(s)
        BY <1>1, <1>3, <2>1
      <4> QED
        BY <2>1, <2>3, <3>2, <4>1 DEF Prec
    <3> QED
      BY <1>4, <3>1, <3>2
  <2> QED
    BY <1>4, <2>2, <2>3
<1>9. ASSUME NEW x, NEW y, Prec(s, x, y) PROVE Prec(u, x, y)
  BY <1>5, <1>9 DEF Prec
<1>10. ASSUME NEW x, NEW y, Prec(t, x, y) PROVE Prec(u, x, y)
  <2>1. PICK i \in DOMAIN t, j \in DOMAIN t : i < j /\ t[i] = x /\ t[j] = y
    BY <1>10 DEF Prec
  <2>2. i + Len(s) < j + Len(s)
    BY <1>1, <2>1
  <2> QED
    BY <1>6, <2>1, <2>2 DEF Prec
<1>11. ASSUME NEW x \in Range(s), NEW y \in Range(t) PROVE Prec(u, x, y)
  <2>1. PICK i \in DOMAIN s : s[i] = x
    BY DEF Range
  <2>2. PICK j \in DOMAIN t : t[j] = y
    BY DEF Range
  <2>3. i < j + Len(s)
    BY <1>1
  <2> QED
    BY <1>5, <1>6, <2>1, <2>2, <2>3 DEF Prec
<1> QED
  BY <1>2, <1>7, <1>8, <1>9, <1>10, <1>11 DEF u

\* An entry is added at the end.
LEMMA AppendOrder ==
    ASSUME NEW S, NEW s \in Seq(S), NEW e \in S
    PROVE  /\ Append(s, e) \in Seq(S)
           /\ Range(Append(s, e)) = Range(s) \cup {e}
           /\ \A x, y : Prec(Append(s, e), x, y) <=> Prec(s, x, y) \/ (x \in Range(s) /\ y = e)
<1> DEFINE t == <<e>>
<1>1. Append(s, e) = s \o t
  BY AppendIsConcat
<1>2. t \in Seq(S) /\ Range(t) = {e} /\ \A x, y : ~Prec(t, x, y)
  BY ShortLists
<1> HIDE DEF t
<1>3. /\ s \o t \in Seq(S) /\ Range(s \o t) = Range(s) \cup Range(t)
      /\ \A x, y : Prec(s \o t, x, y) <=>
            Prec(s, x, y) \/ Prec(t, x, y) \/ (x \in Range(s) /\ y \in Range(t))
  BY <1>2, ConcatOrder
<1> QED
  BY <1>1, <1>2, <1>3

\* An entry is added in front.
LEMMA FrontOrder ==
    ASSUME NEW S, NEW s \in Seq(S), NEW e \in S
    PROVE  /\ <<e>> \o s \in Seq(S)
           /\ Range(<<e>> \o s) = Range(s) \cup {e}
           /\ \A x, y : Prec(<<e>> \o s, x, y) <=> Prec(s, x, y) \/ (x = e /\ y \in Range(s))
<1> DEFINE t == <<e>>
           u == t \o s
<1>1. t \in Seq(S) /\ Range(t) = {e} /\ \A x, y : ~Prec(t, x, y)
  BY ShortLists
<1>2. /\ u \in Seq(S) /\ Range(u) = Range(t) \cup Range(s)
      /\ \A x, y : Prec(u, x, y) <=>
            Prec(t, x, y) \/ Prec(s, x, y) \/ (x \in Range(t) /\ y \in Range(s))
  <2> HIDE DEF t
  <2> QED
    BY <1>1, ConcatOrder
<1>3. u = <<e>> \o s
  OBVIOUS
<1> HIDE DEF t, u
<1>4. u \in Seq(S) /\ Range(u) = Range(s) \cup {e}
      /\ \A x, y : Prec(u, x, y) <=> Prec(s, x, y) \/ (x = e /\ y \in Range(s))
  BY <1>1, <1>2
<1> QED
  BY <1>3, <1>4

\* The first entry leaves.
LEMMA TailOrder ==
    ASSUME NEW S, NEW s \in Seq(S), s # << >>
    PROVE  /\ Head(s) \in S /\ Tail(s) \in Seq(S)
           /\ Range(s) = Range(Tail(s)) \cup {Head(s)}
           /\ \A x, y : Prec(s, x, y) <=> Prec(Tail(s), x, y) \/ (x = Head(s) /\ y \in Range(Tail(s)))
<1>1. Head(s) \in S /\ Tail(s) \in Seq(S) /\ s = <<Head(s)>> \o Tail(s)
  OBVIOUS
<1> DEFINE hd == Head(s)
           tl == Tail(s)
<1>2. hd \in S /\ tl \in Seq(S)
  BY <1>1
<1> DEFINE u == <<hd>> \o tl
<1>3. u = s
  BY <1>1
<1> HIDE DEF hd, tl
<1>4. Range(u) = Range(tl) \cup {hd}
      /\ \A x, y : Prec(u, x, y) <=> Prec(tl, x, y) \/ (x = hd /\ y \in Range(tl))
  BY <1>2, FrontOrder
<1> HIDE DEF u
<1>5. Range(s) = Range(tl) \cup {hd}
      /\ \A x, y : Prec(s, x, y) <=> Prec(tl, x, y) \/ (x = hd /\ y \in Range(tl))
  BY <1>3, <1>4
<1> QED
  BY <1>1, <1>5 DEF hd, tl

\* The last entry is behind all the others.
LEMMA LastOrder ==
    ASSUME NEW S, NEW s \in Seq(S), NEW y \in Range(s), y # Last(s)
    PROVE  Prec(s, y, Last(s))
<1>1. /\ Len(s) \in Nat /\ DOMAIN s = 1 .. Len(s)
  BY ListFacts
<1>2. PICK i \in 1 .. Len(s) : s[i] = y
  BY ListFacts
<1>3. i < Len(s) /\ Len(s) \in 1 .. Len(s) /\ Last(s) = s[Len(s)]
  BY <1>1, <1>2 DEF Last
<1> QED
  BY <1>1, <1>2, <1>3 DEF Prec

\* list_del(): the order of the others does not change.
LEMMA RemoveOrder ==
    ASSUME NEW S, NEW s \in Seq(S), NEW i \in 1 .. Len(s)
    PROVE  /\ RemoveAt(s, i) \in Seq(S)
           /\ \A x, y : Prec(RemoveAt(s, i), x, y) => Prec(s, x, y)
           /\ Once(s) => Range(RemoveAt(s, i)) = Range(s) \ {s[i]}
<1> DEFINE t == RemoveAt(s, i)
           up(k) == IF k < i THEN k ELSE k + 1
<1>1. Len(s) \in Nat /\ DOMAIN s = 1 .. Len(s)
  BY ListFacts
<1>2. /\ t \in Seq(S) /\ Len(t) = Len(s) - 1
      /\ \A k \in 1 .. Len(s) - 1 : t[k] = IF k < i THEN s[k] ELSE s[k + 1]
  BY RemoveAtProperties
<1>3. DOMAIN t = 1 .. Len(s) - 1
  BY <1>2, LenProperties
<1> HIDE DEF t
<1>4. \A k \in DOMAIN t : up(k) \in DOMAIN s /\ up(k) # i /\ t[k] = s[up(k)]
  BY <1>1, <1>2, <1>3
<1>5. \A k, m \in DOMAIN t : k < m => up(k) < up(m)
  BY <1>1, <1>3
<1>6. ASSUME NEW m \in DOMAIN s, m # i PROVE \E k \in DOMAIN t : t[k] = s[m]
  <2>1. CASE m < i
    BY <1>1, <1>2, <1>3, <2>1
  <2>2. CASE m > i
    <3>1. m - 1 \in DOMAIN t /\ t[m - 1] = s[m]
      BY <1>1, <1>2, <1>3, <2>2
    <3> QED
      BY <3>1
  <2> QED
    BY <1>1, <1>6, <2>1, <2>2
<1> HIDE DEF up
<1>7. \A x, y : Prec(t, x, y) => Prec(s, x, y)
  BY <1>4, <1>5 DEF Prec
<1>8. ASSUME Once(s) PROVE Range(t) = Range(s) \ {s[i]}
  <2>1. IsInjective(s)
    BY <1>8, OnceInjective
  <2>2. \A m \in DOMAIN s : m # i => s[m] # s[i]
    BY <1>1, <2>1 DEF IsInjective
  <2>3. Range(t) \subseteq Range(s) \ {s[i]}
    BY <1>4, <2>2 DEF Range
  <2>4. Range(s) \ {s[i]} \subseteq Range(t)
    BY <1>6 DEF Range
  <2> QED
    BY <2>3, <2>4
<1> QED
  BY <1>2, <1>7, <1>8 DEF t

\* list_add_tail() at a place in the middle: the entry comes after those
\* before position i and before the others.
LEMMA InsertOrder ==
    ASSUME NEW S, NEW s \in Seq(S), NEW i \in 1 .. Len(s) + 1, NEW e \in S
    PROVE  /\ InsertAt(s, i, e) \in Seq(S)
           /\ Range(InsertAt(s, i, e)) = Range(s) \cup {e}
           /\ \A x, y : Prec(InsertAt(s, i, e), x, y) =>
                 \/ Prec(s, x, y)
                 \/ y = e /\ \E k \in 1 .. Len(s) : k < i /\ s[k] = x
                 \/ x = e /\ \E k \in 1 .. Len(s) : i <= k /\ s[k] = y
<1> DEFINE a == SubSeq(s, 1, i - 1)
           b == SubSeq(s, i, Len(s))
<1>1. /\ Len(s) \in Nat /\ DOMAIN s = 1 .. Len(s) /\ \A k \in 1 .. Len(s) : s[k] \in S
  BY LenProperties, ElementOfSeq
<1>2. /\ a \in Seq(S) /\ Len(a) = i - 1
      /\ \A k \in 1 .. i - 1 : a[k] = s[k]
  <2>1. \A k \in 1 .. i - 1 : s[k] \in S
    BY <1>1
  <2>2. 1 \in Int /\ i - 1 \in Int
    BY <1>1
  <2>3. /\ SubSeq(s, 1, i - 1) \in Seq(S)
        /\ Len(SubSeq(s, 1, i - 1)) = IF 1 <= i - 1 THEN (i - 1) - 1 + 1 ELSE 0
        /\ \A k \in 1 .. (i - 1) - 1 + 1 : SubSeq(s, 1, i - 1)[k] = s[1 + k - 1]
    BY <2>1, <2>2, SubSeqProperties
  <2> QED
    BY <1>1, <2>3
<1>3. /\ b \in Seq(S) /\ Len(b) = Len(s) - i + 1
      /\ \A k \in 1 .. Len(s) - i + 1 : b[k] = s[i + k - 1]
  <2>1. \A k \in i .. Len(s) : s[k] \in S
    BY <1>1
  <2>2. i \in Int /\ Len(s) \in Int
    BY <1>1
  <2>3. /\ SubSeq(s, i, Len(s)) \in Seq(S)
        /\ Len(SubSeq(s, i, Len(s))) = IF i <= Len(s) THEN Len(s) - i + 1 ELSE 0
        /\ \A k \in 1 .. Len(s) - i + 1 : SubSeq(s, i, Len(s))[k] = s[i + k - 1]
    BY <2>1, <2>2, SubSeqProperties
  <2> QED
    BY <1>1, <2>3
<1>4. /\ DOMAIN a = 1 .. i - 1 /\ DOMAIN b = 1 .. Len(s) - i + 1
  BY <1>2, <1>3, LenProperties
<1> DEFINE o == <<e>>
           p == a \o o
           t == p \o b
<1>5. InsertAt(s, i, e) = t
  BY DEF InsertAt
<1>6. /\ t \in Seq(S)
      /\ Range(t) = Range(a) \cup {e} \cup Range(b)
      /\ \A x, y : Prec(t, x, y) =>
            \/ Prec(a, x, y) \/ Prec(b, x, y) \/ (x \in Range(a) /\ y \in Range(b))
            \/ (x \in Range(a) /\ y = e) \/ (x = e /\ y \in Range(b))
  <2>1. o \in Seq(S) /\ Range(o) = {e} /\ \A x, y : ~Prec(o, x, y)
    BY ShortLists
  <2> HIDE DEF a, b, o
  <2>2. /\ p \in Seq(S) /\ Range(p) = Range(a) \cup Range(o)
        /\ \A x, y : Prec(p, x, y) <=>
              Prec(a, x, y) \/ Prec(o, x, y) \/ (x \in Range(a) /\ y \in Range(o))
    BY <1>2, <2>1, ConcatOrder
  <2> HIDE DEF p
  <2>3. /\ t \in Seq(S) /\ Range(t) = Range(p) \cup Range(b)
        /\ \A x, y : Prec(t, x, y) <=>
              Prec(p, x, y) \/ Prec(b, x, y) \/ (x \in Range(p) /\ y \in Range(b))
    BY <1>3, <2>2, ConcatOrder
  <2> HIDE DEF t
  <2> QED
    BY <2>1, <2>2, <2>3
<1> HIDE DEF a, b, o, p, t
<1>7. \A k \in DOMAIN a : k \in 1 .. Len(s) /\ k < i /\ a[k] = s[k]
  BY <1>1, <1>2, <1>4
<1>8. \A k \in DOMAIN b : i + k - 1 \in 1 .. Len(s) /\ i <= i + k - 1 /\ b[k] = s[i + k - 1]
  BY <1>1, <1>3, <1>4
<1>9. \A x \in Range(a) : \E k \in 1 .. Len(s) : k < i /\ s[k] = x
  BY <1>7 DEF Range
<1>10. \A y \in Range(b) : \E k \in 1 .. Len(s) : i <= k /\ s[k] = y
  BY <1>8 DEF Range
<1>11. ASSUME NEW k \in 1 .. Len(s) PROVE s[k] \in Range(a) \cup Range(b)
  <2>1. CASE k < i
    BY <1>1, <1>2, <1>4, <2>1 DEF Range
  <2>2. CASE i <= k
    <3>1. k - i + 1 \in DOMAIN b /\ i + (k - i + 1) - 1 = k
      BY <1>1, <1>4, <2>2
    <3>2. b[k - i + 1] = s[k]
      BY <1>8, <3>1
    <3> QED
      BY <3>1, <3>2 DEF Range
  <2> QED
    BY <1>1, <2>1, <2>2
<1>12. Range(s) = Range(a) \cup Range(b)
  <2>1. Range(s) \subseteq Range(a) \cup Range(b)
    BY <1>1, <1>11 DEF Range
  <2>2. Range(a) \cup Range(b) \subseteq Range(s)
    BY <1>1, <1>9, <1>10 DEF Range
  <2> QED
    BY <2>1, <2>2
<1>13. \A x, y : Prec(a, x, y) => Prec(s, x, y)
  BY <1>1, <1>7 DEF Prec
<1>14. ASSUME NEW x, NEW y, Prec(b, x, y) PROVE Prec(s, x, y)
  <2>1. PICK k \in DOMAIN b, m \in DOMAIN b : k < m /\ b[k] = x /\ b[m] = y
    BY <1>14 DEF Prec
  <2>2. i + k - 1 < i + m - 1
    BY <1>1, <1>4, <2>1
  <2> QED
    BY <1>1, <1>8, <2>1, <2>2 DEF Prec
<1>15. ASSUME NEW x \in Range(a), NEW y \in Range(b) PROVE Prec(s, x, y)
  <2>1. PICK k \in 1 .. Len(s) : k < i /\ s[k] = x
    BY <1>9
  <2>2. PICK m \in 1 .. Len(s) : i <= m /\ s[m] = y
    BY <1>10
  <2>3. k < m
    BY <1>1, <2>1, <2>2
  <2> QED
    BY <1>1, <2>1, <2>2, <2>3 DEF Prec
<1> QED
  BY <1>5, <1>6, <1>9, <1>10, <1>12, <1>13, <1>14, <1>15

\* A finite set in any order.
LEMMA SetToSeqsOrder ==
    ASSUME NEW S, IsFiniteSet(S), NEW s \in SetToSeqs(S)
    PROVE  s \in Seq(S) /\ Range(s) = S /\ Once(s)
<1> DEFINE n == Cardinality(S)
<1>1. n \in Nat
  BY FS_CardinalityType
<1>2. s \in [1 .. n -> S] /\ \A i, j \in 1 .. n : i # j => s[i] # s[j]
  BY DEF SetToSeqs
<1> HIDE DEF n
<1>3. s \in Seq(S)
  BY <1>1, <1>2
<1>4. Once(s)
  BY <1>1, <1>2 DEF Once, Prec
<1>5. s \in Injection(1 .. n, S)
  BY <1>2 DEF Injection, IsInjective
<1>6. Cardinality(1 .. n) = n
  BY <1>1, FS_Interval
<1>7. s \in Surjection(1 .. n, S)
  BY <1>5, <1>6, FS_Injection DEF n
<1>8. Range(s) = S
  BY <1>2, <1>7 DEF Surjection, Range
<1> QED
  BY <1>3, <1>4, <1>8
=============================================================================
