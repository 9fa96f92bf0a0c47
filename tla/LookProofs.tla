----------------------------- MODULE LookProofs -----------------------------
(***************************************************************************)
(* Look for every set of requests, every device and every merge limit: the *)
(* type invariant, LinkedOnce, the two properties of a sweep, and that     *)
(* LOOK implements the contract IoSched.                                   *)
(***************************************************************************)
EXTENDS Look, ListLemmas

-----------------------------------------------------------------------------
(* Facts about one request. *)

LEMMA EntryFields ==
    ASSUME NEW e \in Entry
    PROVE  /\ e.rq \in Requests /\ e.pos \in Nat /\ e.first \in Nat /\ e.len \in Nat
           /\ 1 <= e.first /\ e.first <= e.len /\ e.pos + e.len <= Capacity
           /\ e = [rq |-> e.rq, pos |-> e.pos, first |-> e.first, len |-> e.len]
  BY LookAssumption DEF Entry

LEMMA EntryIntro ==
    ASSUME NEW r \in Requests, NEW p \in Nat, NEW f \in Nat, NEW n \in Nat,
           1 <= f, f <= n, p + n <= Capacity
    PROVE  [rq |-> r, pos |-> p, first |-> f, len |-> n] \in Entry
  BY LookAssumption DEF Entry

LEMMA GrowBackEntry ==
    ASSUME NEW e \in Entry, NEW n \in BioSizes, End(e) + n <= Capacity
    PROVE  GrowBack(e, n) = [rq |-> e.rq, pos |-> e.pos, first |-> e.first, len |-> e.len + n]
           /\ GrowBack(e, n) \in Entry
<1>1. n \in Nat
  BY LookAssumption
<1>2. GrowBack(e, n) = [rq |-> e.rq, pos |-> e.pos, first |-> e.first, len |-> e.len + n]
  BY EntryFields DEF GrowBack
<1>3. e.pos + (e.len + n) <= Capacity /\ e.first <= e.len + n /\ e.len + n \in Nat
  BY <1>1, EntryFields, LookAssumption DEF End
<1> QED
  BY <1>2, <1>3, EntryFields, EntryIntro

LEMMA GrowFrontEntry ==
    ASSUME NEW e \in Entry, NEW n \in BioSizes, n <= e.pos
    PROVE  GrowFront(e, n) = [rq |-> e.rq, pos |-> e.pos - n, first |-> n, len |-> e.len + n]
           /\ GrowFront(e, n) \in Entry
<1>1. n \in Nat /\ 1 <= n
  BY LookAssumption
<1>2. GrowFront(e, n) = [rq |-> e.rq, pos |-> e.pos - n, first |-> n, len |-> e.len + n]
  BY EntryFields DEF GrowFront
<1>3. e.pos - n \in Nat /\ (e.pos - n) + (e.len + n) <= Capacity /\ n <= e.len + n
      /\ e.len + n \in Nat
  BY <1>1, EntryFields, LookAssumption
<1> QED
  BY <1>1, <1>2, <1>3, EntryFields, EntryIntro

LEMMA JoinEntry ==
    ASSUME NEW e \in Entry, NEW f \in Entry, End(e) = f.pos
    PROVE  Join(e, f) = [rq |-> e.rq, pos |-> e.pos, first |-> e.first, len |-> e.len + f.len]
           /\ Join(e, f) \in Entry
<1>1. Join(e, f) = [rq |-> e.rq, pos |-> e.pos, first |-> e.first, len |-> e.len + f.len]
  BY EntryFields DEF Join
<1>2. e.pos + (e.len + f.len) <= Capacity /\ e.first <= e.len + f.len /\ e.len + f.len \in Nat
  BY EntryFields, LookAssumption DEF End
<1> QED
  BY <1>1, <1>2, EntryFields, EntryIntro
-----------------------------------------------------------------------------
(* Facts about a list. *)

Unique(q) == \A i, j \in DOMAIN q : q[i].rq = q[j].rq => i = j
Ids(q) == {q[i].rq : i \in DOMAIN q}
Ext(e) == [rq |-> e.rq, pos |-> e.pos, len |-> e.len]
Held(q) == {Ext(q[i]) : i \in DOMAIN q}

LEMMA QueueFacts ==
    ASSUME NEW q \in Seq(Entry)
    PROVE  /\ Len(q) \in Nat /\ DOMAIN q = 1 .. Len(q)
           /\ \A i \in 1 .. Len(q) : q[i] \in Entry
  BY LenProperties, ElementOfSeq

LEMMA RemoveKeeps ==
    ASSUME NEW q \in Seq(Entry), Unique(q), NEW i \in 1 .. Len(q)
    PROVE  /\ RemoveAt(q, i) \in Seq(Entry)
           /\ Unique(RemoveAt(q, i))
           /\ Ids(RemoveAt(q, i)) = Ids(q) \ {q[i].rq}
           /\ Held(RemoveAt(q, i)) = Held(q) \ {Ext(q[i])}
<1> DEFINE t == RemoveAt(q, i)
<1>1. /\ Len(q) \in Nat /\ DOMAIN q = 1 .. Len(q)
      /\ \A k \in 1 .. Len(q) : q[k] \in Entry
  BY QueueFacts
<1>2. /\ t \in Seq(Entry) /\ Len(t) = Len(q) - 1
      /\ \A k \in 1 .. Len(q) - 1 : t[k] = IF k < i THEN q[k] ELSE q[k + 1]
  BY RemoveAtProperties
<1> HIDE DEF t
<1>3. DOMAIN t = 1 .. Len(q) - 1
  BY <1>2, QueueFacts
\* where each entry of the shorter list was, and where it went
<1>4. ASSUME NEW k \in DOMAIN t
      PROVE  \E m \in DOMAIN q : m # i /\ t[k] = q[m] /\ ((m = k /\ k < i) \/ (m = k + 1 /\ k >= i))
  <2>1. CASE k < i
    <3>1. k \in DOMAIN q /\ k # i /\ t[k] = q[k]
      BY <1>1, <1>2, <1>3, <2>1
    <3> QED
      BY <2>1, <3>1
  <2>2. CASE k >= i
    <3>1. k + 1 \in DOMAIN q /\ k + 1 # i /\ t[k] = q[k + 1]
      BY <1>1, <1>2, <1>3, <2>2
    <3> QED
      BY <2>2, <3>1
  <2> QED
    BY <1>1, <1>3, <2>1, <2>2
<1>5. ASSUME NEW m \in DOMAIN q, m # i
      PROVE  \E k \in DOMAIN t : t[k] = q[m]
  <2>1. CASE m < i
    BY <1>1, <1>2, <1>3, <2>1
  <2>2. CASE m > i
    <3>1. m - 1 \in DOMAIN t /\ ~(m - 1 < i) /\ (m - 1) + 1 = m
      BY <1>1, <1>3, <2>2
    <3>2. t[m - 1] = q[(m - 1) + 1]
      BY <1>2, <1>3, <3>1
    <3> QED
      BY <3>1, <3>2
  <2> QED
    BY <1>1, <1>5, <2>1, <2>2
<1>6. Unique(t)
  <2> SUFFICES ASSUME NEW j \in DOMAIN t, NEW k \in DOMAIN t, t[j].rq = t[k].rq
               PROVE  j = k
    BY DEF Unique
  <2>1. PICK a \in DOMAIN q : t[j] = q[a] /\ ((a = j /\ j < i) \/ (a = j + 1 /\ j >= i))
    BY <1>4
  <2>2. PICK b \in DOMAIN q : t[k] = q[b] /\ ((b = k /\ k < i) \/ (b = k + 1 /\ k >= i))
    BY <1>4
  <2>3. a = b
    BY <2>1, <2>2 DEF Unique
  <2> QED
    BY <1>1, <1>3, <2>1, <2>2, <2>3
<1>7. Ids(t) = Ids(q) \ {q[i].rq}
  BY <1>1, <1>4, <1>5 DEF Ids, Unique
<1>8. \A m \in DOMAIN q : m # i => Ext(q[m]) # Ext(q[i])
  BY <1>1 DEF Unique, Ext
<1>9. Held(t) = Held(q) \ {Ext(q[i])}
  BY <1>1, <1>4, <1>5, <1>8 DEF Held
<1> QED
  BY <1>2, <1>6, <1>7, <1>9 DEF t

LEMMA ReplaceKeeps ==
    ASSUME NEW q \in Seq(Entry), Unique(q), NEW i \in 1 .. Len(q), NEW t \in Seq(Entry),
           Len(t) = Len(q), t[i].rq = q[i].rq, \A k \in 1 .. Len(q) : k # i => t[k] = q[k]
    PROVE  /\ Unique(t)
           /\ Ids(t) = Ids(q)
           /\ Held(t) = (Held(q) \ {Ext(q[i])}) \cup {Ext(t[i])}
<1>1. /\ Len(q) \in Nat /\ DOMAIN q = 1 .. Len(q) /\ DOMAIN t = 1 .. Len(q)
      /\ \A k \in 1 .. Len(q) : q[k] \in Entry
  BY QueueFacts
<1>3. Unique(t)
  BY <1>1 DEF Unique
<1>4. Ids(t) = Ids(q)
  BY <1>1 DEF Ids
<1>5. \A m \in DOMAIN q : m # i => Ext(q[m]) # Ext(q[i])
  BY <1>1 DEF Unique, Ext
<1>6. Held(t) = (Held(q) \ {Ext(q[i])}) \cup {Ext(t[i])}
  BY <1>1, <1>5 DEF Held
<1> QED
  BY <1>3, <1>4, <1>6

\* An assignment to one entry, as a sequence.
LEMMA Assign ==
    ASSUME NEW q \in Seq(Entry), NEW i \in 1 .. Len(q), NEW e \in Entry
    PROVE  /\ [q EXCEPT ![i] = e] \in Seq(Entry)
           /\ Len([q EXCEPT ![i] = e]) = Len(q)
           /\ \A k \in 1 .. Len(q) : [q EXCEPT ![i] = e][k] = IF k = i THEN e ELSE q[k]
  BY ExceptSeq, QueueFacts

LEMMA AppendKeeps ==
    ASSUME NEW q \in Seq(Entry), Unique(q), NEW e \in Entry, e.rq \notin Ids(q)
    PROVE  /\ Append(q, e) \in Seq(Entry)
           /\ Unique(Append(q, e))
           /\ Ids(Append(q, e)) = Ids(q) \cup {e.rq}
           /\ Held(Append(q, e)) = Held(q) \cup {Ext(e)}
<1> DEFINE t == Append(q, e)
<1>1. Len(q) \in Nat /\ DOMAIN q = 1 .. Len(q)
  BY QueueFacts
<1>2. /\ t \in Seq(Entry) /\ Len(t) = Len(q) + 1
      /\ \A k \in 1 .. Len(q) : t[k] = q[k]
      /\ t[Len(q) + 1] = e
  BY AppendProperties
<1> HIDE DEF t
<1>3. DOMAIN t = 1 .. Len(q) + 1
  BY <1>2, QueueFacts
<1>4. \A k \in DOMAIN t : k \in DOMAIN q \/ k = Len(q) + 1
  BY <1>1, <1>3
<1>5. Len(q) + 1 \in DOMAIN t /\ DOMAIN q \subseteq DOMAIN t
  BY <1>1, <1>3
<1>6. Unique(t)
  BY <1>1, <1>2, <1>4 DEF Unique, Ids
<1>7. Ids(t) = Ids(q) \cup {e.rq}
  BY <1>1, <1>2, <1>4, <1>5 DEF Ids
<1>8. Held(t) = Held(q) \cup {Ext(e)}
  BY <1>1, <1>2, <1>4, <1>5 DEF Held
<1> QED
  BY <1>2, <1>6, <1>7, <1>8 DEF t

\* attempt_merge() either leaves the list alone or joins two neighbours that
\* are adjacent on the disk.
LEMMA AttemptMerge ==
    ASSUME NEW q \in Seq(Entry), Unique(q), NEW i, NEW nx, NEW alike,
           i = NULLRQ \/ i \in 1 .. Len(q),
           nx = NULLRQ \/ nx \in 1 .. Len(q),
           i # nx \/ i = NULLRQ
    PROVE  LET t == attempt_merge(q, i, nx, alike)
           IN  /\ t \in Seq(Entry) /\ Unique(t) /\ Ids(t) \subseteq Ids(q)
               /\ MergePuts(q, i, nx, alike) \subseteq Ids(q)
               /\ Ids(t) = Ids(q) \ MergePuts(q, i, nx, alike)
               /\ \/ t = q
                  \/ /\ i \in 1 .. Len(q) /\ nx \in 1 .. Len(q) /\ i # nx
                     /\ End(q[i]) = q[nx].pos
                     /\ Join(q[i], q[nx]) \in Entry
                     /\ Held(t) = (Held(q) \ {Ext(q[i]), Ext(q[nx])})
                                      \cup {Ext(Join(q[i], q[nx]))}
<1> DEFINE t == attempt_merge(q, i, nx, alike)
           joins == Joins(q, i, nx, alike)
<1>1. CASE ~joins
  BY <1>1 DEF attempt_merge, MergePuts
<1>2. CASE joins
  <2>0. PICK j, m : j = Join(q[i], q[nx]) /\ m = [q EXCEPT ![i] = j]
    OBVIOUS
  <2>1. i \in 1 .. Len(q) /\ nx \in 1 .. Len(q) /\ i # nx /\ End(q[i]) = q[nx].pos
    BY <1>2 DEF NULLRQ, Joins
  <2>2. q[i] \in Entry /\ q[nx] \in Entry /\ Len(q) \in Nat /\ DOMAIN q = 1 .. Len(q)
    BY <2>1, QueueFacts
  <2>3. j \in Entry /\ j.rq = q[i].rq
    BY <2>0, <2>1, <2>2, JoinEntry
  <2>4. t = RemoveAt(m, nx)
    BY <1>2, <2>0 DEF attempt_merge, look_merged_requests
  <2> HIDE DEF t
  <2>5. /\ m \in Seq(Entry) /\ Len(m) = Len(q) /\ Unique(m) /\ Ids(m) = Ids(q)
        /\ m[nx] = q[nx]
        /\ Held(m) = (Held(q) \ {Ext(q[i])}) \cup {Ext(j)}
    <3>1. /\ m \in Seq(Entry) /\ Len(m) = Len(q)
          /\ \A k \in 1 .. Len(q) : m[k] = IF k = i THEN j ELSE q[k]
      BY <2>0, <2>1, <2>3, Assign
    <3>2. m[i] = j /\ m[nx] = q[nx] /\ \A k \in 1 .. Len(q) : k # i => m[k] = q[k]
      BY <2>1, <3>1
    <3>3. Unique(m) /\ Ids(m) = Ids(q) /\ Held(m) = (Held(q) \ {Ext(q[i])}) \cup {Ext(m[i])}
      BY <2>1, <2>3, <3>1, <3>2, ReplaceKeeps
    <3> QED
      BY <3>1, <3>2, <3>3
  <2>6. /\ t \in Seq(Entry) /\ Unique(t) /\ Ids(t) = Ids(m) \ {m[nx].rq}
        /\ Held(t) = Held(m) \ {Ext(m[nx])}
    BY <2>1, <2>4, <2>5, RemoveKeeps
  <2>7. Ext(j) # Ext(q[nx])
    BY <2>1, <2>2, <2>3 DEF Unique, Ext
  <2>8. Held(t) = (Held(q) \ {Ext(q[i]), Ext(q[nx])}) \cup {Ext(j)}
    BY <2>5, <2>6, <2>7
  <2>9. MergePuts(q, i, nx, alike) = {q[nx].rq} /\ q[nx].rq \in Ids(q)
    BY <1>2, <2>1, <2>2 DEF MergePuts, Ids
  <2> QED
    BY <2>0, <2>1, <2>3, <2>5, <2>6, <2>8, <2>9 DEF t
<1> QED
  BY <1>1, <1>2

\* One request covers another.
Covers(f, e) == f.pos <= e.pos /\ End(e) <= End(f)

LEMMA CoversTrans ==
    ASSUME NEW e \in Entry, NEW f \in Entry, NEW g \in Entry, Covers(f, g), Covers(g, e)
    PROVE  Covers(f, e)
<1>1. /\ e.pos \in Nat /\ f.pos \in Nat /\ g.pos \in Nat
      /\ e.len \in Nat /\ f.len \in Nat /\ g.len \in Nat
  BY EntryFields
<1> QED
  BY <1>1 DEF Covers, End

LEMMA JoinCovers ==
    ASSUME NEW e \in Entry, NEW f \in Entry, End(e) = f.pos
    PROVE  Join(e, f).rq = e.rq /\ Covers(Join(e, f), e) /\ Covers(Join(e, f), f)
<1>1. e.pos \in Nat /\ f.pos \in Nat /\ e.len \in Nat /\ f.len \in Nat
  BY EntryFields
<1>2. Join(e, f) = [rq |-> e.rq, pos |-> e.pos, first |-> e.first, len |-> e.len + f.len]
  BY JoinEntry
<1>3. Join(e, f).rq = e.rq /\ Join(e, f).pos = e.pos /\ Join(e, f).len = e.len + f.len
  BY <1>2
<1> QED
  BY <1>1, <1>3 DEF Covers, End

LEMMA CoverFacts ==
    ASSUME NEW e \in Entry, NEW f \in Entry, Covers(f, e)
    PROVE  Ext(f).pos <= Ext(e).pos /\ Ext(e).pos + Ext(e).len <= Ext(f).pos + Ext(f).len
  BY EntryFields DEF Covers, End, Ext

LEMMA ExtFields ==
    ASSUME NEW e \in Entry
    PROVE  /\ Ext(e).rq = e.rq /\ Ext(e).pos = e.pos /\ Ext(e).len = e.len
           /\ Ext(e).pos + Ext(e).len <= Capacity
           /\ Ext(e) \in [rq : Requests, pos : 0 .. Capacity, len : 1 .. Capacity]
  BY EntryFields, LookAssumption DEF Ext

\* List t is list q after a merge: in terms of extents, a set old of requests
\* has become one request that covers them all, and no structure has appeared
\* that was not on the list.
MergedTo(q, t) ==
    /\ t \in Seq(Entry) /\ Unique(t) /\ Ids(t) \subseteq Ids(q)
    /\ \E f \in Entry, old \in SUBSET Held(q) :
          /\ old # {} /\ f.rq \in {e.rq : e \in old}
          /\ \A e \in old : f.pos <= e.pos /\ e.pos + e.len <= f.pos + f.len
          /\ Held(t) = (Held(q) \ old) \cup {Ext(f)}

\* Entry i has grown (list u) and may then be joined with a neighbour.
LEMMA GrowAndMerge ==
    ASSUME NEW q \in Seq(Entry), Unique(q), NEW i \in 1 .. Len(q), NEW u \in Seq(Entry),
           Len(u) = Len(q), \A k \in 1 .. Len(q) : k # i => u[k] = q[k],
           u[i].rq = q[i].rq, Covers(u[i], q[i]), NEW a, NEW b, NEW alike,
           a = NULLRQ \/ a \in 1 .. Len(q), b = NULLRQ \/ b \in 1 .. Len(q),
           a # b, a = i \/ b = i
    PROVE  /\ MergedTo(q, attempt_merge(u, a, b, alike))
           /\ Ids(attempt_merge(u, a, b, alike)) = Ids(q) \ MergePuts(u, a, b, alike)
           /\ MergePuts(u, a, b, alike) \subseteq Ids(q)
<1> DEFINE t == attempt_merge(u, a, b, alike)
           Result(f, old) ==
              /\ old # {} /\ f.rq \in {e.rq : e \in old}
              /\ \A e \in old : f.pos <= e.pos /\ e.pos + e.len <= f.pos + f.len
              /\ Held(t) = (Held(q) \ old) \cup {Ext(f)}
<1>1. /\ Len(q) \in Nat /\ DOMAIN q = 1 .. Len(q) /\ \A k \in 1 .. Len(q) : q[k] \in Entry
  BY QueueFacts
<1>2. /\ u \in Seq(Entry) /\ Len(u) = Len(q) /\ \A k \in 1 .. Len(q) : u[k] \in Entry
  BY QueueFacts
<1>3. PICK g \in Entry : /\ u[i] = g /\ g.rq = q[i].rq /\ Covers(g, q[i])
                         /\ \A k \in 1 .. Len(q) : k # i => u[k] = q[k]
  BY <1>2
<1>4. Unique(u) /\ Ids(u) = Ids(q) /\ Held(u) = (Held(q) \ {Ext(q[i])}) \cup {Ext(g)}
  BY <1>2, <1>3, ReplaceKeeps
<1>5. /\ t \in Seq(Entry) /\ Unique(t) /\ Ids(t) \subseteq Ids(u)
      /\ MergePuts(u, a, b, alike) \subseteq Ids(u) /\ Ids(t) = Ids(u) \ MergePuts(u, a, b, alike)
      /\ \/ t = u
         \/ /\ a \in 1 .. Len(u) /\ b \in 1 .. Len(u) /\ a # b
            /\ End(u[a]) = u[b].pos
            /\ Join(u[a], u[b]) \in Entry
            /\ Held(t) = (Held(u) \ {Ext(u[a]), Ext(u[b])}) \cup {Ext(Join(u[a], u[b]))}
  BY <1>2, <1>4, AttemptMerge
<1> HIDE DEF t
<1>6. \A k \in 1 .. Len(q) : k # i => Ext(q[k]) # Ext(g) /\ Ext(q[k]) # Ext(q[i])
  <2>1. ASSUME NEW k \in 1 .. Len(q), k # i PROVE q[k].rq # q[i].rq
    BY <1>1, <2>1 DEF Unique
  <2>2. \A k \in 1 .. Len(q) : Ext(q[k]).rq = q[k].rq
    BY <1>1, ExtFields
  <2>3. Ext(g).rq = q[i].rq
    BY <1>3, ExtFields
  <2> QED
    BY <2>1, <2>2, <2>3
<1>7. \A k \in 1 .. Len(q) : Ext(q[k]) \in Held(q)
  BY <1>1 DEF Held
<1>8. \E f \in Entry, old \in SUBSET Held(q) : Result(f, old)
  <2>1. CASE t = u
    <3>1. Result(g, {Ext(q[i])})
      BY <1>1, <1>3, <1>4, <2>1, CoverFacts, ExtFields
    <3> QED
      BY <1>7, <3>1
  <2>2. CASE t # u
    <3>1. PICK f, k : f = Join(u[a], u[b]) /\ k = (IF a = i THEN b ELSE a)
      OBVIOUS
    <3>2. /\ a \in 1 .. Len(q) /\ b \in 1 .. Len(q) /\ a # b /\ f \in Entry
          /\ End(u[a]) = u[b].pos
          /\ Held(t) = (Held(u) \ {Ext(u[a]), Ext(u[b])}) \cup {Ext(f)}
          /\ u[a] \in Entry /\ u[b] \in Entry
      BY <1>1, <1>2, <1>5, <2>2, <3>1
    <3>3. k \in 1 .. Len(q) /\ k # i /\ u[k] = q[k] /\ {u[a], u[b]} = {g, q[k]}
      BY <1>3, <3>1, <3>2
    <3>4. f.rq = u[a].rq /\ Covers(f, u[a]) /\ Covers(f, u[b])
      BY <3>1, <3>2, JoinCovers
    <3>5. Held(t) = (Held(u) \ {Ext(g), Ext(q[k])}) \cup {Ext(f)}
      BY <3>2, <3>3
    <3>6. Held(t) = (Held(q) \ {Ext(q[i]), Ext(q[k])}) \cup {Ext(f)}
      <4>1. ASSUME NEW x \in Held(q), x # Ext(q[i]) PROVE x # Ext(g)
        BY <1>1, <1>6, <4>1 DEF Held
      <4> QED
        BY <1>4, <3>5, <4>1
    <3>7. Covers(f, q[i]) /\ Covers(f, q[k])
      <4>1. Covers(f, g) /\ Covers(f, q[k])
        BY <1>3, <3>3, <3>4
      <4> QED
        BY <1>1, <1>3, <3>2, <4>1, CoversTrans
    <3>8. f.rq \in {q[i].rq, q[k].rq}
      BY <1>3, <3>3, <3>4
    <3>9. /\ Ext(f).pos = f.pos /\ Ext(f).len = f.len
          /\ Ext(q[i]).rq = q[i].rq /\ Ext(q[k]).rq = q[k].rq
          /\ \A e \in {Ext(q[i]), Ext(q[k])} : f.pos <= e.pos /\ e.pos + e.len <= f.pos + f.len
      BY <1>1, <3>2, <3>3, <3>7, CoverFacts, ExtFields
    <3>10. Result(f, {Ext(q[i]), Ext(q[k])})
      BY <3>6, <3>8, <3>9
    <3>11. {Ext(q[i]), Ext(q[k])} \in SUBSET Held(q)
      BY <1>1, <1>7, <3>3
    <3>12. f \in Entry
      BY <3>2
    <3> HIDE DEF Result
    <3> QED
      BY <3>10, <3>11, <3>12
  <2> QED
    BY <2>1, <2>2
<1> QED
  BY <1>4, <1>5, <1>8 DEF t, MergedTo
-----------------------------------------------------------------------------
(* The inductive invariant. *)

Inv == TypeOK /\ LinkedOnce

LEMMA InvFacts ==
    ASSUME Inv
    PROVE  /\ queue \in Seq(Entry) /\ Unique(queue)
           /\ Len(queue) \in Nat /\ DOMAIN queue = 1 .. Len(queue)
           /\ \A k \in 1 .. Len(queue) : queue[k] \in Entry
           /\ Queued = Ids(queue) /\ Queued \cap out = {} /\ elvpriv = Ids(queue) \cup out
  BY QueueFacts DEF Inv, TypeOK, LinkedOnce, Unique, Ids, Queued

\* What is left to show of a step that changes the list or out.
LEMMA InvIntro ==
    ASSUME Inv, live, UNCHANGED <<live, cur_pos, dir>>,
           queue' \in Seq(Entry), Unique(queue'), out' \subseteq Requests, Ids(queue') \cap out' = {},
           elvpriv' \subseteq Requests, elvpriv' = Ids(queue') \cup out'
    PROVE  Inv'
  BY DEF Inv, TypeOK, LinkedOnce, Unique, Ids, Queued

LEMMA BackMergeStep ==
    ASSUME Inv, NEW i \in DOMAIN queue, NEW n \in BioSizes, NEW alike \in BOOLEAN,
           BackMerge(i, n, alike)
    PROVE  /\ MergedTo(queue, queue')
           /\ \E gone \in SUBSET Ids(queue) :
                 Ids(queue') = Ids(queue) \ gone /\ elvpriv' = elvpriv \ gone
<1>1. /\ queue \in Seq(Entry) /\ Unique(queue)
      /\ Len(queue) \in Nat /\ DOMAIN queue = 1 .. Len(queue)
      /\ \A k \in 1 .. Len(queue) : queue[k] \in Entry
  BY InvFacts
<1>2. PICK g, b : g = GrowBack(queue[i], n) /\ b = look_latter_request(queue, i)
  OBVIOUS
<1>3. /\ g = [rq |-> queue[i].rq, pos |-> queue[i].pos, first |-> queue[i].first,
              len |-> queue[i].len + n]
      /\ g \in Entry
  BY <1>1, <1>2, GrowBackEntry DEF BackMerge
<1>4. g.rq = queue[i].rq /\ Covers(g, queue[i])
  <2>1. queue[i].pos \in Nat /\ queue[i].len \in Nat /\ n \in Nat
    BY <1>1, EntryFields, LookAssumption
  <2> QED
    BY <1>3, <2>1 DEF Covers, End
<1>5. PICK u : u = [queue EXCEPT ![i] = g]
  OBVIOUS
<1>6. /\ u \in Seq(Entry) /\ Len(u) = Len(queue) /\ u[i] = g
      /\ \A k \in 1 .. Len(queue) : k # i => u[k] = queue[k]
  <2>1. /\ u \in Seq(Entry) /\ Len(u) = Len(queue)
        /\ \A k \in 1 .. Len(queue) : u[k] = IF k = i THEN g ELSE queue[k]
    BY <1>1, <1>3, <1>5, Assign
  <2> QED
    BY <1>1, <2>1
<1>8. queue' = attempt_merge(u, i, b, alike) /\ elvpriv' = elvpriv \ MergePuts(u, i, b, alike)
  BY <1>2, <1>5, <1>6 DEF BackMerge, look_latter_request
<1>7. (b = NULLRQ \/ b \in 1 .. Len(queue)) /\ i # b
  BY <1>1, <1>2 DEF look_latter_request, NULLRQ
<1>9. /\ MergedTo(queue, queue') /\ MergePuts(u, i, b, alike) \subseteq Ids(queue)
      /\ Ids(queue') = Ids(queue) \ MergePuts(u, i, b, alike)
  BY <1>1, <1>4, <1>6, <1>7, <1>8, GrowAndMerge
<1> QED
  BY <1>8, <1>9

LEMMA FrontMergeStep ==
    ASSUME Inv, NEW i \in DOMAIN queue, NEW n \in BioSizes, NEW alike \in BOOLEAN,
           FrontMerge(i, n, alike)
    PROVE  /\ MergedTo(queue, queue')
           /\ \E gone \in SUBSET Ids(queue) :
                 Ids(queue') = Ids(queue) \ gone /\ elvpriv' = elvpriv \ gone
<1>1. /\ queue \in Seq(Entry) /\ Unique(queue)
      /\ Len(queue) \in Nat /\ DOMAIN queue = 1 .. Len(queue)
      /\ \A k \in 1 .. Len(queue) : queue[k] \in Entry
  BY InvFacts
<1>2. PICK g, a : g = GrowFront(queue[i], n) /\ a = look_former_request(i)
  OBVIOUS
<1>3. /\ g = [rq |-> queue[i].rq, pos |-> queue[i].pos - n, first |-> n,
              len |-> queue[i].len + n]
      /\ g \in Entry
  BY <1>1, <1>2, GrowFrontEntry DEF FrontMerge
<1>4. g.rq = queue[i].rq /\ Covers(g, queue[i])
  <2>1. queue[i].pos \in Nat /\ queue[i].len \in Nat /\ n \in Nat
    BY <1>1, EntryFields, LookAssumption
  <2> QED
    BY <1>3, <2>1 DEF Covers, End
<1>5. PICK u : u = [queue EXCEPT ![i] = g]
  OBVIOUS
<1>6. /\ u \in Seq(Entry) /\ Len(u) = Len(queue) /\ u[i] = g
      /\ \A k \in 1 .. Len(queue) : k # i => u[k] = queue[k]
  <2>1. /\ u \in Seq(Entry) /\ Len(u) = Len(queue)
        /\ \A k \in 1 .. Len(queue) : u[k] = IF k = i THEN g ELSE queue[k]
    BY <1>1, <1>3, <1>5, Assign
  <2> QED
    BY <1>1, <2>1
<1>7. (a = NULLRQ \/ a \in 1 .. Len(queue)) /\ a # i
  BY <1>1, <1>2 DEF look_former_request, NULLRQ
<1>8. queue' = attempt_merge(u, a, i, alike) /\ elvpriv' = elvpriv \ MergePuts(u, a, i, alike)
  BY <1>2, <1>5 DEF FrontMerge
<1>9. /\ MergedTo(queue, queue') /\ MergePuts(u, a, i, alike) \subseteq Ids(queue)
      /\ Ids(queue') = Ids(queue) \ MergePuts(u, a, i, alike)
  BY <1>1, <1>4, <1>6, <1>7, <1>8, GrowAndMerge
<1> QED
  BY <1>8, <1>9

LEMMA AddStep ==
    ASSUME Inv, NEW r \in Requests, NEW p \in 0 .. Capacity - 1, NEW n \in BioSizes,
           look_add_request(r, p, n)
    PROVE  \E e \in Entry :
              /\ e.rq = r /\ e.pos = p /\ e.len = n
              /\ queue' \in Seq(Entry) /\ Unique(queue')
              /\ Ids(queue') = Ids(queue) \cup {r}
              /\ Held(queue') = Held(queue) \cup {Ext(e)}
<1>1. queue \in Seq(Entry) /\ Unique(queue) /\ elvpriv = Ids(queue) \cup out
  BY InvFacts
<1>2. PICK e : e = [rq |-> r, pos |-> p, first |-> n, len |-> n]
  OBVIOUS
<1>3. p \in Nat /\ n \in Nat /\ 1 <= n /\ p + n <= Capacity
  BY LookAssumption DEF look_add_request
<1>4. e \in Entry /\ e.rq = r /\ e.pos = p /\ e.len = n
  BY <1>2, <1>3, EntryIntro
<1>5. queue' = Append(queue, e) /\ e.rq \notin Ids(queue)
  BY <1>1, <1>2, <1>4 DEF look_add_request
<1>6. /\ Append(queue, e) \in Seq(Entry) /\ Unique(Append(queue, e))
      /\ Ids(Append(queue, e)) = Ids(queue) \cup {e.rq}
      /\ Held(Append(queue, e)) = Held(queue) \cup {Ext(e)}
  BY <1>1, <1>4, <1>5, AppendKeeps
<1> QED
  BY <1>4, <1>5, <1>6

LEMMA DispatchStep ==
    ASSUME Inv, NEW i \in DOMAIN queue, look_dispatch(i)
    PROVE  /\ queue[i] \in Entry
           /\ queue' \in Seq(Entry) /\ Unique(queue')
           /\ Ids(queue') = Ids(queue) \ {queue[i].rq}
           /\ Held(queue') = Held(queue) \ {Ext(queue[i])}
           /\ Ext(queue[i]) \in Held(queue)
           /\ cur_pos' \in 0 .. Capacity /\ queue[i].pos < cur_pos'
           /\ cur_pos' <= End(queue[i])
           /\ dir' \in {Up, Down}
           /\ Served = {i}
<1>1. /\ queue \in Seq(Entry) /\ Unique(queue)
      /\ Len(queue) \in Nat /\ DOMAIN queue = 1 .. Len(queue)
      /\ \A k \in 1 .. Len(queue) : queue[k] \in Entry
      /\ Queued = Ids(queue) /\ Queued \cap out = {}
  BY InvFacts
<1>2. queue[i] \in Entry /\ queue' = RemoveAt(queue, i)
  BY <1>1 DEF look_dispatch
<1>3. /\ RemoveAt(queue, i) \in Seq(Entry)
      /\ Unique(RemoveAt(queue, i))
      /\ Ids(RemoveAt(queue, i)) = Ids(queue) \ {queue[i].rq}
      /\ Held(RemoveAt(queue, i)) = Held(queue) \ {Ext(queue[i])}
  BY <1>1, RemoveKeeps
<1>4. cur_pos' = queue[i].pos + queue[i].first
  BY DEF look_dispatch
<1>5. cur_pos' \in 0 .. Capacity /\ queue[i].pos < cur_pos' /\ cur_pos' <= End(queue[i])
  BY <1>2, <1>4, EntryFields, LookAssumption DEF End
<1>6. dir' \in {Up, Down}
  BY DEF look_dispatch, NextDir, SwitchDir, Inv, TypeOK
<1>7. Served = {i}
  <2>1. out' = out \cup {queue[i].rq} /\ queue[i].rq \notin out
    BY <1>1 DEF look_dispatch, Queued
  <2> QED
    BY <1>1, <2>1 DEF Served, Unique
<1>8. Ext(queue[i]) \in Held(queue)
  BY DEF Held
<1> QED
  BY <1>2, <1>3, <1>5, <1>6, <1>7, <1>8

\* A list without requests is empty.
LEMMA NoIds ==
    ASSUME NEW q \in Seq(Entry), Ids(q) = {}
    PROVE  q = << >>
<1>1. Len(q) \in Nat /\ DOMAIN q = 1 .. Len(q)
  BY QueueFacts
<1>2. ~(1 \in DOMAIN q)
  BY DEF Ids
<1>3. Len(q) = 0
  BY <1>1, <1>2
<1> QED
  BY <1>3, EmptySeq

\* Every step of the scheduler keeps the invariant.
LEMMA InvStep ==
    ASSUME Inv, [Next]_vars
    PROVE  Inv'
<1>1. /\ queue \in Seq(Entry) /\ Unique(queue) /\ Queued = Ids(queue) /\ Queued \cap out = {}
      /\ out \subseteq Requests /\ live \in BOOLEAN
      /\ elvpriv \subseteq Requests /\ elvpriv = Ids(queue) \cup out
  BY InvFacts DEF Inv, TypeOK
<1>2. CASE look_init_queue
  <2>1. << >> \in Seq(Entry) /\ DOMAIN << >> = {}
    BY EmptySeq
  <2>2. queue = << >>
    BY <1>2 DEF look_init_queue, Inv, LinkedOnce
  <2> QED
    BY <1>1, <1>2, <2>1, <2>2, LookAssumption DEF look_init_queue, Inv, TypeOK, LinkedOnce, Queued
<1>3. CASE look_exit_queue
  <2>1. live' \in BOOLEAN /\ elvpriv = {} /\ UNCHANGED <<queue, cur_pos, dir, out, elvpriv>>
    BY <1>3 DEF look_exit_queue
  <2>2. queue = << >>
    BY <1>1, <2>1, NoIds
  <2> QED
    BY <2>1, <2>2 DEF Inv, TypeOK, LinkedOnce, Queued
<1>4. ASSUME NEW r \in Requests, NEW p \in 0 .. Capacity - 1, NEW n \in BioSizes,
             look_add_request(r, p, n)
      PROVE  Inv'
  <2>1. queue' \in Seq(Entry) /\ Unique(queue') /\ Ids(queue') = Ids(queue) \cup {r}
    BY <1>4, AddStep
  <2>2. /\ live /\ r \notin Ids(queue) \cup out /\ elvpriv' = elvpriv \cup {r}
        /\ UNCHANGED <<live, cur_pos, dir, out>>
    BY <1>1, <1>4 DEF look_add_request
  <2> QED
    BY <1>1, <2>1, <2>2, InvIntro
<1>5. ASSUME NEW i \in DOMAIN queue, look_dispatch(i)
      PROVE  Inv'
  <2>1. /\ queue' \in Seq(Entry) /\ Unique(queue') /\ Ids(queue') = Ids(queue) \ {queue[i].rq}
        /\ cur_pos' \in 0 .. Capacity /\ dir' \in {Up, Down} /\ queue[i] \in Entry
    BY <1>5, DispatchStep
  <2>2. /\ live /\ live' = live /\ out' = out \cup {queue[i].rq} /\ queue[i].rq \in Requests
        /\ elvpriv' = elvpriv /\ queue[i].rq \in Ids(queue)
    BY <1>5, <2>1, EntryFields DEF look_dispatch, Ids
  <2>3. TypeOK'
    BY <1>1, <2>1, <2>2 DEF TypeOK
  <2>4. LinkedOnce'
    <3>1. Ids(queue') \cap out' = {} /\ elvpriv' = Ids(queue') \cup out'
      BY <1>1, <2>1, <2>2
    <3> QED
      BY <2>1, <2>2, <3>1 DEF LinkedOnce, Unique, Ids, Queued
  <2> QED
    BY <2>3, <2>4 DEF Inv
<1>6. ASSUME NEW i \in DOMAIN queue, NEW n \in BioSizes, NEW alike \in BOOLEAN,
             BackMerge(i, n, alike) \/ FrontMerge(i, n, alike)
      PROVE  Inv'
  <2>1. MergedTo(queue, queue')
    BY <1>6, BackMergeStep, FrontMergeStep
  <2>2. queue' \in Seq(Entry) /\ Unique(queue') /\ Ids(queue') \subseteq Ids(queue)
    BY <2>1 DEF MergedTo
  <2>4. elvpriv' = Ids(queue') \cup out /\ elvpriv' \subseteq Requests
    <3>1. PICK gone \in SUBSET Ids(queue) :
             Ids(queue') = Ids(queue) \ gone /\ elvpriv' = elvpriv \ gone
      BY <1>6, BackMergeStep, FrontMergeStep
    <3> QED
      BY <1>1, <3>1
  <2>3. live /\ UNCHANGED <<live, cur_pos, dir, out>>
    BY <1>6 DEF BackMerge, FrontMerge
  <2> QED
    BY <1>1, <2>2, <2>3, <2>4, InvIntro
<1>7. ASSUME NEW r \in out, put_request(r)
      PROVE  Inv'
  <2>1. UNCHANGED <<live, queue, cur_pos, dir>> /\ out' = out \ {r} /\ elvpriv' = elvpriv \ {r}
    BY <1>7 DEF put_request
  <2> QED
    BY <1>1, <2>1 DEF Inv, TypeOK, LinkedOnce, Queued, Ids
<1>8. CASE UNCHANGED vars
  BY <1>8 DEF vars, Inv, TypeOK, LinkedOnce, Queued
<1> QED
  BY <1>2, <1>3, <1>4, <1>5, <1>6, <1>7, <1>8 DEF Next, Dispatch

LEMMA InvInit ==
    Init => Inv
<1>1. << >> \in Seq(Entry) /\ DOMAIN << >> = {}
  BY EmptySeq
<1> QED
  BY <1>1, LookAssumption DEF Init, Inv, TypeOK, LinkedOnce, Queued

\* The invariant of LOOK's data: every request on the list lies on the device,
\* the head position stays on it, no request structure is linked twice, and
\* elvpriv counts the ones that are linked or with the driver.
THEOREM Invariance == Safety => []Inv
  BY InvInit, InvStep, PTL DEF Safety

\* look_add_request, look_dispatch and the merges keep the data of the
\* scheduler well formed, whatever order they are called in.
THEOREM TypeCorrect == Safety => []TypeOK
<1>1. Inv => TypeOK
  BY DEF Inv
<1> QED
  BY <1>1, Invariance, PTL

\* A request structure is never linked twice through its queuelist, nor freed
\* while it is linked, and look_exit_queue never finds one on the list.
THEOREM NeverLinkedTwice == Safety => []LinkedOnce
<1>1. Inv => LinkedOnce
  BY DEF Inv
<1> QED
  BY <1>1, Invariance, PTL
-----------------------------------------------------------------------------
(* The order of a sweep. *)

\* Only look_dispatch hands requests over.
LEMMA ServedByDispatch ==
    ASSUME Inv, Next, NEW i \in Served
    PROVE  look_dispatch(i) /\ Served = {i}
<1>1. i \in DOMAIN queue /\ ~(out' \subseteq out)
  BY DEF Served
<1>2. PICK k \in DOMAIN queue : look_dispatch(k)
  BY <1>1 DEF Next, Dispatch, look_init_queue, look_exit_queue, look_add_request,
              BackMerge, FrontMerge, put_request
<1>3. Served = {k}
  BY <1>2, DispatchStep
<1> QED
  BY <1>2, <1>3

\* Going up, the requests leave in ascending order.
THEOREM SweepAscends == Safety => UpSweepAscends
<1>1. Inv /\ [Next]_vars
        => [\A i \in Served : dir = Up /\ dir' = Up =>
               cur_pos <= queue[i].pos /\ queue[i].pos < cur_pos']_vars
  <2> SUFFICES ASSUME Inv, Next, NEW i \in Served, dir = Up, dir' = Up
               PROVE  cur_pos <= queue[i].pos /\ queue[i].pos < cur_pos'
    BY DEF vars
  <2>1. i \in DOMAIN queue /\ look_dispatch(i)
    BY ServedByDispatch DEF Served
  <2>2. IsHigher(queue, cur_pos, i)
    BY <2>1 DEF look_dispatch, IsNext
  <2>3. queue[i].pos >= cur_pos /\ queue[i] \in Entry /\ cur_pos \in 0 .. Capacity
    BY <2>1, <2>2, DispatchStep DEF IsHigher, AtOrAbove, Inv, TypeOK
  <2>4. queue[i].pos < cur_pos'
    BY <2>1, DispatchStep
  <2> QED
    BY <2>3, <2>4, EntryFields, LookAssumption
<1> QED
  BY <1>1, Invariance, PTL DEF Safety, UpSweepAscends

\* Whichever way the head moves it passes no waiting request, but for those
\* that overlap the one it serves.
THEOREM SweepSkipsNothing == Safety => NothingSkipped
<1> DEFINE Passes(i, j) ==
          /\ dir' = Up /\ cur_pos <= queue[j].pos /\ queue[j].pos < cur_pos' =>
                queue[i].pos <= queue[j].pos /\ queue[j].pos < End(queue[i])
          /\ dir' = Down /\ queue[j].pos <= cur_pos => queue[j].pos <= queue[i].pos
<1>1. Inv /\ [Next]_vars
        => [\A i \in Served : \A j \in DOMAIN queue \ {i} : Passes(i, j)]_vars
  <2> SUFFICES ASSUME Inv, Next, NEW i \in Served, NEW j \in DOMAIN queue \ {i}
               PROVE  Passes(i, j)
    BY DEF vars
  <2>1. i \in DOMAIN queue /\ look_dispatch(i)
    BY ServedByDispatch DEF Served
  <2>2. queue[i] \in Entry /\ queue[j] \in Entry /\ cur_pos \in Nat
    BY <2>1, InvFacts, LookAssumption DEF Inv, TypeOK
  <2>3. cur_pos' \in Nat /\ cur_pos' <= End(queue[i])
    BY <2>1, DispatchStep, LookAssumption
  <2>4. queue[i].pos \in Nat /\ queue[j].pos \in Nat /\ queue[i].len \in Nat
    BY <2>2, EntryFields
  <2>5. CASE dir' = Up
    <3>1. IsHigher(queue, cur_pos, i)
      BY <2>1, <2>5 DEF look_dispatch, IsNext
    <3>2. queue[j].pos >= cur_pos => queue[i].pos <= queue[j].pos
      BY <2>4, <3>1 DEF IsHigher, AtOrAbove
    <3> QED
      BY <2>2, <2>3, <2>4, <2>5, <3>2 DEF End, Up, Down
  <2>6. CASE dir' # Up
    <3>1. IsLower(queue, cur_pos, i)
      BY <2>1, <2>6 DEF look_dispatch, IsNext
    <3>2. queue[j].pos <= cur_pos => queue[j].pos <= queue[i].pos
      BY <2>4, <3>1 DEF IsLower, AtOrBelow
    <3> QED
      BY <2>6, <3>2
  <2> QED
    BY <2>5, <2>6
<1> QED
  BY <1>1, Invariance, PTL DEF Safety, NothingSkipped
-----------------------------------------------------------------------------
(* LOOK implements the contract of an I/O scheduler. *)

\* The refinement mapping: Held(queue) is what IoSched calls held.
LEMMA HeldMaps ==
    /\ Held(queue) = {[rq |-> queue[i].rq, pos |-> queue[i].pos, len |-> queue[i].len] :
                         i \in DOMAIN queue}
    /\ Held(queue') = {[rq |-> queue'[i].rq, pos |-> queue'[i].pos, len |-> queue'[i].len] :
                         i \in DOMAIN queue'}
    /\ Sched!Ids = Ids(queue)
<1>1. Held(queue) = {[rq |-> queue[i].rq, pos |-> queue[i].pos, len |-> queue[i].len] :
                         i \in DOMAIN queue}
  BY DEF Held, Ext
<1>2. Held(queue') = {[rq |-> queue'[i].rq, pos |-> queue'[i].pos, len |-> queue'[i].len] :
                         i \in DOMAIN queue'}
  BY DEF Held, Ext
<1>3. Sched!Ids = {e.rq : e \in Held(queue)}
  BY <1>1 DEF Sched!Ids
<1>4. {e.rq : e \in Held(queue)} = Ids(queue)
  <2>1. \A i \in DOMAIN queue : Ext(queue[i]).rq = queue[i].rq
    BY DEF Ext
  <2> QED
    BY <2>1 DEF Held, Ids
<1> QED
  BY <1>1, <1>2, <1>3, <1>4

LEMMA SchedNext ==
    ASSUME Inv, [Next]_vars
    PROVE  [Sched!Next]_(Sched!vars)
<1>1. /\ queue \in Seq(Entry) /\ Unique(queue) /\ Queued = Ids(queue)
      /\ DOMAIN queue = 1 .. Len(queue)
  BY InvFacts
<1>2. CASE look_init_queue
  <2>1. queue' = queue
    BY <1>2 DEF look_init_queue, Inv, LinkedOnce
  <2> QED
    BY <1>2, <2>1 DEF look_init_queue, Sched!Next, Sched!Start
<1>3. CASE look_exit_queue
  <2>1. DOMAIN queue = {}
    <3>1. Ids(queue) = {}
      BY <1>3, InvFacts DEF look_exit_queue
    <3> QED
      BY <1>1, <3>1, NoIds, EmptySeq
  <2> QED
    BY <1>3, <2>1 DEF look_exit_queue, Sched!Next, Sched!Exit
<1>4. ASSUME NEW r \in Requests, NEW p \in 0 .. Capacity - 1, NEW n \in BioSizes,
             look_add_request(r, p, n)
      PROVE  Sched!Next
  <2>1. PICK e \in Entry : e.rq = r /\ Held(queue') = Held(queue) \cup {Ext(e)}
    BY <1>4, AddStep
  <2>2. live /\ r \notin Ids(queue) \cup out /\ UNCHANGED <<live, out>>
    BY <1>4, InvFacts DEF look_add_request
  <2>3. Ext(e) \in Sched!Extent /\ Sched!End(Ext(e)) <= Capacity /\ Ext(e).rq = r
    BY <2>1, ExtFields DEF Sched!Extent, Sched!End
  <2>4. Sched!Add(Ext(e))
    BY <2>1, <2>2, <2>3, HeldMaps DEF Sched!Add
  <2> QED
    BY <2>3, <2>4 DEF Sched!Next
<1>5. ASSUME NEW i \in DOMAIN queue, look_dispatch(i)
      PROVE  Sched!Next
  <2>1. /\ Held(queue') = Held(queue) \ {Ext(queue[i])} /\ Ext(queue[i]) \in Held(queue)
        /\ queue[i] \in Entry
    BY <1>5, DispatchStep
  <2>2. live /\ UNCHANGED live /\ out' = out \cup {Ext(queue[i]).rq}
    BY <1>5, <2>1, ExtFields DEF look_dispatch
  <2>3. PICK e : e = Ext(queue[i])
    OBVIOUS
  <2>4. Sched!Dispatch(e)
    BY <2>1, <2>2, <2>3, HeldMaps DEF Sched!Dispatch
  <2>5. \E x \in Held(queue) : Sched!Dispatch(x)
    BY <2>1, <2>3, <2>4
  <2> QED
    BY <2>5, HeldMaps DEF Sched!Next
<1>6. ASSUME NEW i \in DOMAIN queue, NEW n \in BioSizes, NEW alike \in BOOLEAN,
             BackMerge(i, n, alike) \/ FrontMerge(i, n, alike)
      PROVE  Sched!Next
  <2>1. MergedTo(queue, queue')
    BY <1>6, BackMergeStep, FrontMergeStep
  <2>2. PICK f \in Entry, old \in SUBSET Held(queue) :
           /\ old # {} /\ f.rq \in {e.rq : e \in old}
           /\ \A e \in old : f.pos <= e.pos /\ e.pos + e.len <= f.pos + f.len
           /\ Held(queue') = (Held(queue) \ old) \cup {Ext(f)}
    BY <2>1 DEF MergedTo
  <2>3. live /\ UNCHANGED <<live, out>>
    BY <1>6 DEF BackMerge, FrontMerge
  <2>4. /\ Ext(f) \in Sched!Extent /\ Sched!End(Ext(f)) <= Capacity /\ Ext(f).rq = f.rq
        /\ \A e \in old : Ext(f).pos <= e.pos /\ Sched!End(e) <= Sched!End(Ext(f))
    BY <2>2, ExtFields DEF Sched!Extent, Sched!End
  <2>5. Sched!Merge(old, Ext(f))
    BY <2>2, <2>3, <2>4, HeldMaps DEF Sched!Merge
  <2> QED
    BY <2>2, <2>4, <2>5, HeldMaps DEF Sched!Next
<1>7. ASSUME NEW r \in out, put_request(r)
      PROVE  Sched!Next
  BY <1>7 DEF put_request, Sched!Next, Sched!Release
<1>8. CASE UNCHANGED vars
  BY <1>8 DEF vars, Sched!vars
<1> QED
  BY <1>2, <1>3, <1>4, <1>5, <1>6, <1>7, <1>8 DEF Next, Dispatch

\* The set of extents on LOOK's list behaves as struct elevator_ops asks of
\* any scheduler: nothing is lost, handed over twice or torn down with
\* requests in it.
THEOREM Refinement == Safety => ImplementsIoSched
<1>1. Init => Sched!Init
  <2>1. DOMAIN << >> = {}
    BY EmptySeq
  <2> QED
    BY <2>1 DEF Init, Sched!Init
<1> QED
  BY <1>1, SchedNext, Invariance, PTL DEF Safety, ImplementsIoSched, Sched!Safety
=============================================================================
