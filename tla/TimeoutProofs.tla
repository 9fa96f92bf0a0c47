---------------------------- MODULE TimeoutProofs ----------------------------
(***************************************************************************)
(* Theorems about request timeouts, for every set of requests, their       *)
(* timeouts, and every number of times a driver asks for more time.        *)
(***************************************************************************)
EXTENDS RqTimeout, ListLemmas

(* Lists of timers *)

\* No request has two entries.
Uniq(s) == \A i, j \in DOMAIN s : s[i].rq = s[j].rq => i = j

\* An entry has a request and the time left.
LEMMA EntryFields ==
    ASSUME NEW s \in Seq(Entries)
    PROVE  /\ Len(s) \in Nat /\ DOMAIN s = 1 .. Len(s)
           /\ \A k \in DOMAIN s : s[k] \in Entries /\ s[k].rq \in Requests /\ s[k].left \in Nat
           /\ \A e \in ToSet(s) : e \in Entries /\ e.rq \in Requests /\ e.left \in Nat
           /\ \A e \in ToSet(s) : e.rq \in Listed(s)
           /\ Listed(s) \subseteq Requests
<1>1. /\ Len(s) \in Nat /\ DOMAIN s = 1 .. Len(s)
      /\ \A k \in DOMAIN s : s[k] \in Entries
  BY LenProperties, ElementOfSeq
<1>2. \A e \in Entries : e.rq \in Requests /\ e.left \in Nat
  BY DEF Entries
<1> QED
  BY <1>1, <1>2 DEF ToSet, Listed

\* The entry at i is unlinked.
LEMMA Unlink ==
    ASSUME NEW s \in Seq(Entries), NEW i \in DOMAIN s, Uniq(s)
    PROVE  /\ RemoveAt(s, i) \in Seq(Entries)
           /\ Uniq(RemoveAt(s, i))
           /\ Listed(RemoveAt(s, i)) = Listed(s) \ {s[i].rq}
           /\ ToSet(RemoveAt(s, i)) \subseteq ToSet(s)
           /\ Len(RemoveAt(s, i)) = Len(s) - 1
           /\ \A k \in DOMAIN RemoveAt(s, i) : k < i => k \in DOMAIN s /\ RemoveAt(s, i)[k] = s[k]
<1> DEFINE t == RemoveAt(s, i)
<1>1. Len(s) \in Nat /\ DOMAIN s = 1 .. Len(s)
  BY EntryFields
<1>2. /\ t \in Seq(Entries) /\ Len(t) = Len(s) - 1
      /\ \A k \in 1 .. Len(s) - 1 : t[k] = IF k < i THEN s[k] ELSE s[k + 1]
  BY <1>1, RemoveAtProperties
<1>3. DOMAIN t = 1 .. Len(s) - 1
  BY <1>2, LenProperties
<1> HIDE DEF t
<1>4. \A k \in DOMAIN t : \E m \in DOMAIN s : m # i /\ t[k] = s[m]
  BY <1>1, <1>2, <1>3
<1>5. \A m \in DOMAIN s : m # i => \E k \in DOMAIN t : t[k] = s[m]
  <2> SUFFICES ASSUME NEW m \in DOMAIN s, m # i PROVE \E k \in DOMAIN t : t[k] = s[m]
    OBVIOUS
  <2>1. CASE m < i
    BY <1>1, <1>2, <1>3, <2>1
  <2>2. CASE m > i
    <3>1. m - 1 \in DOMAIN t /\ t[m - 1] = s[m]
      BY <1>1, <1>2, <1>3, <2>2
    <3> QED
      BY <3>1
  <2> QED
    BY <1>1, <2>1, <2>2
<1>6. Uniq(t)
  <2> SUFFICES ASSUME NEW a \in DOMAIN t, NEW b \in DOMAIN t, t[a].rq = t[b].rq PROVE a = b
    BY DEF Uniq
  <2> DEFINE up(k) == IF k < i THEN k ELSE k + 1
  <2>1. /\ up(a) \in DOMAIN s /\ up(b) \in DOMAIN s /\ t[a] = s[up(a)] /\ t[b] = s[up(b)]
    BY <1>1, <1>2, <1>3
  <2>2. up(a) = up(b)
    BY <2>1 DEF Uniq
  <2> QED
    BY <1>1, <1>3, <2>2
<1>7. Listed(t) = Listed(s) \ {s[i].rq}
  <2>1. \A m \in DOMAIN s : m # i => s[m].rq # s[i].rq
    BY DEF Uniq
  <2> QED
    BY <1>4, <1>5, <2>1 DEF Listed
<1>8. ToSet(t) \subseteq ToSet(s)
  BY <1>4 DEF ToSet
<1>9. \A k \in DOMAIN t : k < i => k \in DOMAIN s /\ t[k] = s[k]
  BY <1>1, <1>2, <1>3
<1> QED
  BY <1>2, <1>6, <1>7, <1>8, <1>9 DEF t

\* blk_delete_timer
LEMMA DeleteTimer ==
    ASSUME NEW s \in Seq(Entries), NEW r, Uniq(s)
    PROVE  /\ blk_delete_timer(s, r) \in Seq(Entries)
           /\ Uniq(blk_delete_timer(s, r))
           /\ Listed(blk_delete_timer(s, r)) = Listed(s) \ {r}
           /\ ToSet(blk_delete_timer(s, r)) \subseteq ToSet(s)
<1>1. CASE r \notin Listed(s)
  BY <1>1 DEF blk_delete_timer
<1>2. CASE r \in Listed(s)
  <2> DEFINE k == CHOOSE k \in DOMAIN s : s[k].rq = r
  <2>1. k \in DOMAIN s /\ s[k].rq = r
    BY <1>2 DEF Listed
  <2>2. blk_delete_timer(s, r) = RemoveAt(s, k)
    BY <1>2 DEF blk_delete_timer
  <2> HIDE DEF k
  <2> QED
    BY <2>1, <2>2, Unlink
<1> QED
  BY <1>1, <1>2

\* An entry for a request that has none is added at the end.
LEMMA AddEntry ==
    ASSUME NEW s \in Seq(Entries), Uniq(s), NEW e \in Entries, e.rq \notin Listed(s)
    PROVE  /\ Append(s, e) \in Seq(Entries)
           /\ Uniq(Append(s, e))
           /\ Listed(Append(s, e)) = Listed(s) \cup {e.rq}
           /\ ToSet(Append(s, e)) = ToSet(s) \cup {e}
           /\ DOMAIN Append(s, e) = 1 .. Len(s) + 1
           /\ \A k \in DOMAIN s : Append(s, e)[k] = s[k]
           /\ Append(s, e)[Len(s) + 1] = e
<1> DEFINE t == Append(s, e)
<1>1. Len(s) \in Nat /\ DOMAIN s = 1 .. Len(s)
  BY EntryFields
<1>2. /\ t \in Seq(Entries) /\ Len(t) = Len(s) + 1
      /\ \A k \in 1 .. Len(s) : t[k] = s[k]
      /\ t[Len(s) + 1] = e
  BY AppendProperties
<1>3. DOMAIN t = 1 .. Len(s) + 1
  BY <1>2, LenProperties
<1> HIDE DEF t
<1>4. \A k \in DOMAIN t : k \in DOMAIN s \/ k = Len(s) + 1
  BY <1>1, <1>3
<1>5. \A k \in DOMAIN s : k \in DOMAIN t /\ t[k] = s[k] /\ t[k].rq \in Listed(s)
  BY <1>1, <1>2, <1>3 DEF Listed
<1>6. Len(s) + 1 \in DOMAIN t
  BY <1>1, <1>3
<1>7. Uniq(t)
  BY <1>2, <1>4, <1>5, <1>6 DEF Uniq
<1>8. Listed(t) = Listed(s) \cup {e.rq}
  BY <1>2, <1>4, <1>5, <1>6 DEF Listed
<1>9. ToSet(t) = ToSet(s) \cup {e}
  BY <1>2, <1>4, <1>5, <1>6 DEF ToSet
<1> QED
  BY <1>1, <1>2, <1>3, <1>7, <1>8, <1>9 DEF t

\* Two lists are spliced.
LEMMA Splice ==
    ASSUME NEW s \in Seq(Entries), NEW t \in Seq(Entries), Uniq(s), Uniq(t),
           Listed(s) \cap Listed(t) = {}
    PROVE  /\ s \o t \in Seq(Entries)
           /\ Uniq(s \o t)
           /\ Listed(s \o t) = Listed(s) \cup Listed(t)
           /\ ToSet(s \o t) = ToSet(s) \cup ToSet(t)
<1> DEFINE u == s \o t
<1>1. /\ Len(s) \in Nat /\ DOMAIN s = 1 .. Len(s)
      /\ Len(t) \in Nat /\ DOMAIN t = 1 .. Len(t)
  BY EntryFields
<1>2. /\ u \in Seq(Entries) /\ Len(u) = Len(s) + Len(t)
      /\ \A k \in 1 .. Len(s) + Len(t) : u[k] = IF k <= Len(s) THEN s[k] ELSE t[k - Len(s)]
  BY ConcatProperties
<1>3. DOMAIN u = 1 .. Len(s) + Len(t)
  BY <1>2, LenProperties
<1> HIDE DEF u
<1>4. \A k \in DOMAIN u : \/ k \in DOMAIN s /\ u[k] = s[k]
                          \/ k - Len(s) \in DOMAIN t /\ u[k] = t[k - Len(s)]
  BY <1>1, <1>2, <1>3
<1>5. \A k \in DOMAIN s : k \in DOMAIN u /\ u[k] = s[k]
  BY <1>1, <1>2, <1>3
<1>6. \A k \in DOMAIN t : k + Len(s) \in DOMAIN u /\ u[k + Len(s)] = t[k]
  <2> SUFFICES ASSUME NEW k \in DOMAIN t PROVE k + Len(s) \in DOMAIN u /\ u[k + Len(s)] = t[k]
    OBVIOUS
  <2>1. k + Len(s) \in 1 .. Len(s) + Len(t) /\ ~(k + Len(s) <= Len(s)) /\ (k + Len(s)) - Len(s) = k
    BY <1>1
  <2> QED
    BY <1>2, <1>3, <2>1
<1>7. \A a \in DOMAIN s, b \in DOMAIN t : s[a].rq # t[b].rq
  BY DEF Listed
<1>8. Uniq(u)
  <2> SUFFICES ASSUME NEW a \in DOMAIN u, NEW b \in DOMAIN u, u[a].rq = u[b].rq PROVE a = b
    BY DEF Uniq
  <2>1. CASE a \in DOMAIN s /\ u[a] = s[a] /\ b \in DOMAIN s /\ u[b] = s[b]
    BY <2>1 DEF Uniq
  <2>2. CASE /\ a - Len(s) \in DOMAIN t /\ u[a] = t[a - Len(s)]
             /\ b - Len(s) \in DOMAIN t /\ u[b] = t[b - Len(s)]
    <3>1. a - Len(s) = b - Len(s)
      BY <2>2 DEF Uniq
    <3> QED
      BY <1>1, <1>3, <3>1
  <2> QED
    BY <1>4, <1>7, <2>1, <2>2
<1>9. Listed(u) = Listed(s) \cup Listed(t)
  <2>1. Listed(u) \subseteq Listed(s) \cup Listed(t)
    BY <1>4 DEF Listed
  <2>2. Listed(s) \subseteq Listed(u)
    BY <1>5 DEF Listed
  <2>3. Listed(t) \subseteq Listed(u)
    BY <1>6 DEF Listed
  <2> QED
    BY <2>1, <2>2, <2>3
<1>10. ToSet(u) = ToSet(s) \cup ToSet(t)
  <2>1. ToSet(u) \subseteq ToSet(s) \cup ToSet(t)
    BY <1>4 DEF ToSet
  <2>2. ToSet(s) \subseteq ToSet(u)
    BY <1>5 DEF ToSet
  <2>3. ToSet(t) \subseteq ToSet(u)
    BY <1>6 DEF ToSet
  <2> QED
    BY <2>1, <2>2, <2>3
<1> QED
  BY <1>2, <1>8, <1>9, <1>10 DEF u

\* The empty list.
LEMMA NoEntries ==
    << >> \in Seq(Entries) /\ Uniq(<< >>) /\ Listed(<< >>) = {} /\ ToSet(<< >>) = {}
BY EmptySeq DEF Uniq, Listed, ToSet

-----------------------------------------------------------------------------
(* The inductive invariant *)

Handlers == [pc : {"idle", "scan", "ask", "readd"}, rq : Requests \cup {None}, i : Nat \ {0},
             last : BOOLEAN, next : Nat \cup {-1}, local : Seq(Entries)]

\* The types, but for the position of a handler, which needs the lists.
Types ==
    /\ timeout \in [Requests -> Timeouts]
    /\ place \in [Requests -> {"free", "queued", "driver", "softirq", "eh"}]
    /\ complete \in [Requests -> BOOLEAN]
    /\ resets \in [Requests -> 0 .. MaxResets]
    /\ hw \subseteq Requests
    /\ done \in Seq(Requests)
    /\ tlist \in Seq(Entries)
    /\ timer \in Nat \cup {-1}
    /\ phase \in 0 .. HZ - 1
    /\ h \in Handlers
    /\ bug \in BOOLEAN

\* Who has a request, and which commands the hardware may still answer.
Owned ==
    /\ \A i, j \in DOMAIN done : done[i] = done[j] => i = j
    /\ \A r \in Requests : place[r] = "softirq" <=> \E i \in DOMAIN done : done[i] = r
    /\ \A r \in Requests : place[r] \in {"softirq", "eh"} => complete[r]
    /\ \A r \in Requests : place[r] = "driver" /\ complete[r] => h.pc = "ask" /\ h.rq = r
    /\ \A r \in Requests : place[r] = "queued" => ~complete[r]
    /\ \A r \in hw : place[r] \in {"driver", "eh"}

\* The list a handler walks.
Loop(hh, tl) == IF hh.local = << >> THEN tl ELSE hh.local

\* Where a handler is, and what it knows of the request it is busy with.
HandlerOK ==
    /\ h.pc = "idle" => h = Idle
    /\ h.pc \in {"idle", "scan"} => ~h.last
    /\ h.pc # "idle" /\ ~h.last => h.i \in DOMAIN Loop(h, tlist)
    /\ h.pc \in {"ask", "readd"} =>
          h.rq \in Requests /\ h.rq \notin Listed(tlist) \cup Listed(h.local)
    /\ h.pc = "ask" => complete[h.rq] /\ place[h.rq] = "driver"
    /\ h.pc = "readd" => place[h.rq] \in {"driver", "softirq"}

\* The two lists and the requests on them.
Apart(tl, lo) == Uniq(tl) /\ Uniq(lo) /\ Listed(tl) \cap Listed(lo) = {}

ListsOK ==
    /\ Apart(tlist, h.local)
    /\ \A r \in Listed(tlist) \cup Listed(h.local) : place[r] \in {"driver", "softirq"}
    /\ \A r \in Requests : place[r] = "driver" /\ ~complete[r] =>
          r \in Listed(tlist) \cup Listed(h.local) \/ (h.pc = "readd" /\ h.rq = r)

\* The timer tm is set for the entries of s.
Due(s, tm) == \A e \in ToSet(s) : tm >= 0 /\ (Uniform => tm <= e.left + HZ)

\* What a handler hh that has made tl of the timeout list and tm of the timer
\* still owes: nothing when it will not set the timer, otherwise the deadline
\* of what it has passed.
Owes(hh, tl, tm) ==
    /\ hh.last \/ hh.local # << >> =>
          IF hh.next = -1 THEN Due(tl, tm) /\ Due(hh.local, tm)
          ELSE hh.local = << >> /\ \A e \in ToSet(tl) : Uniform => hh.next <= e.left
    /\ ~hh.last /\ hh.local = << >> =>
          \A k \in DOMAIN tl : k < hh.i => hh.next # -1 /\ (Uniform => hh.next <= tl[k].left)
    /\ hh.next # -1 => \E r \in Requests : hh.next <= timeout[r]

Covered ==
    /\ \A e \in ToSet(tlist) \cup ToSet(h.local) : e.left <= timeout[e.rq]
    /\ h.pc = "idle" => Due(tlist, timer)
    /\ h.pc # "idle" => Owes(h, tlist, timer)

IInv == Types /\ Owned /\ HandlerOK /\ ListsOK /\ Covered

-----------------------------------------------------------------------------
(* Times *)

\* round_jiffies_up rounds to a later whole second, at most one second later.
LEMMA RoundUp ==
    ASSUME NEW j \in Nat, phase \in 0 .. HZ - 1
    PROVE  round_jiffies_up(j) \in Nat /\ j < round_jiffies_up(j) /\ round_jiffies_up(j) <= j + HZ
<1>1. HZ \in Nat /\ HZ > 0 /\ phase + j \in Nat
  BY TimeoutAssumption
<1>2. (phase + j) % HZ \in 0 .. HZ - 1
  BY <1>1
<1> DEFINE m == (phase + j) % HZ
<1>3. round_jiffies_up(j) = j - m + HZ
  BY DEF round_jiffies_up
<1>4. m \in 0 .. HZ - 1
  BY <1>2
<1> HIDE DEF m
<1> QED
  BY <1>1, <1>3, <1>4

\* A request has a timeout.
LEMMA TimeoutNat ==
    ASSUME Types
    PROVE  /\ \A r \in Requests : timeout[r] \in Nat /\ timeout[r] > 0
           /\ HZ \in Nat
<1>1. \A r \in Requests : timeout[r] \in Timeouts
  BY DEF Types
<1>2. \A t \in Timeouts : t \in Nat /\ t > 0
  BY TimeoutAssumption
<1> QED
  BY <1>1, <1>2, TimeoutAssumption

\* blk_add_timer never sets the timer later than it was, nor later than the
\* second after the deadline of the request.
LEMMA ArmedFacts ==
    ASSUME Types, NEW r \in Requests, NEW tm \in Nat \cup {-1}
    PROVE  /\ Armed(tm, r) \in Nat
           /\ Armed(tm, r) <= timeout[r] + HZ
           /\ tm # -1 => Armed(tm, r) <= tm
<1>1. timeout[r] \in Nat /\ HZ \in Nat
  BY TimeoutNat
<1> DEFINE x == round_jiffies_up(timeout[r])
<1>2. x \in Nat /\ x <= timeout[r] + HZ
  BY <1>1, RoundUp DEF Types
<1>3. Armed(tm, r) = IF tm = -1 \/ x < tm THEN x ELSE tm
  BY DEF Armed
<1> HIDE DEF x
<1> QED
  BY <1>1, <1>2, <1>3

\* The handler that does not exist.
LEMMA IdleFacts ==
    /\ Idle \in Handlers /\ Idle.pc = "idle" /\ Idle.local = << >> /\ ~Idle.last
    /\ Idle.rq = None /\ Idle.next = -1 /\ Idle.i = 1
BY NoEntries DEF Idle, Handlers

\* Timers that are due before an earlier one.
LEMMA DueEarlier ==
    ASSUME NEW s \in Seq(Entries), NEW a \in Nat \cup {-1}, NEW b \in Nat, Due(s, a), a # -1 => b <= a,
           HZ \in Nat
    PROVE  Due(s, b)
<1>1. \A e \in ToSet(s) : e.left \in Nat
  BY EntryFields
<1> QED
  BY <1>1 DEF Due

\* The invariant holds at first.
LEMMA InitInv == Init => IInv
<1> SUFFICES ASSUME Init PROVE IInv
  OBVIOUS
<1>1. h = Idle /\ h.pc = "idle" /\ tlist = << >> /\ h.local = << >> /\ done = << >> /\ hw = {}
  BY IdleFacts DEF Init
<1>2. Types
  <2>1. done \in Seq(Requests) /\ tlist \in Seq(Entries)
    BY <1>1, EmptySeq
  <2>2. h \in Handlers
    BY <1>1, IdleFacts
  <2>3. phase \in 0 .. HZ - 1 /\ resets \in [Requests -> 0 .. MaxResets]
    BY TimeoutAssumption DEF Init
  <2> QED
    BY <2>1, <2>2, <2>3, <1>1 DEF Init, Types
<1>3. Owned
  BY <1>1 DEF Init, Owned
<1>4. HandlerOK
  BY <1>1, IdleFacts DEF HandlerOK
<1>5. ListsOK
  BY <1>1, NoEntries DEF ListsOK, Apart, Init
<1>6. Covered
  BY <1>1, NoEntries DEF Covered, Due
<1> QED
  BY <1>2, <1>3, <1>4, <1>5, <1>6 DEF IInv

\* What is known while the lock is free.
LEMMA Free ==
    ASSUME IInv, Unlocked
    PROVE  /\ h = Idle /\ h.pc = "idle" /\ h.local = << >> /\ ~h.last
           /\ Listed(h.local) = {} /\ ToSet(h.local) = {}
           /\ Uniq(tlist) /\ Due(tlist, timer)
           /\ \A r \in Requests : place[r] = "driver" => ~complete[r]
           /\ \A r \in Requests : place[r] = "driver" /\ ~complete[r] => r \in Listed(tlist)
           /\ \A r \in Listed(tlist) : place[r] \in {"driver", "softirq"}
<1>1. h.pc = "idle" /\ h = Idle
  BY DEF IInv, HandlerOK, Unlocked
<1>2. h.local = << >> /\ ~h.last
  BY <1>1, IdleFacts
<1>3. Listed(h.local) = {} /\ ToSet(h.local) = {}
  BY <1>2, NoEntries
<1> QED
  BY <1>1, <1>2, <1>3 DEF IInv, ListsOK, Owned, Covered, Apart

\* The invariant while the lock is free, in terms of what may have changed.
LEMMA FreeIntro ==
    ASSUME Types', Owned', h' = Idle, Uniq(tlist'),
           \A r \in Listed(tlist') : place'[r] \in {"driver", "softirq"},
           \A r \in Requests : place'[r] = "driver" /\ ~complete'[r] => r \in Listed(tlist'),
           \A e \in ToSet(tlist') : e.left <= timeout'[e.rq],
           Due(tlist, timer)'
    PROVE  IInv'
<1>1. h'.pc = "idle" /\ h'.local = << >> /\ ~h'.last
  BY IdleFacts
<1>2. Listed(h'.local) = {} /\ ToSet(h'.local) = {} /\ Uniq(h'.local)
  BY <1>1, NoEntries
<1>3. HandlerOK'
  BY <1>1 DEF HandlerOK
<1>4. ListsOK'
  BY <1>1, <1>2 DEF ListsOK, Apart
<1>5. Covered'
  BY <1>1, <1>2 DEF Covered
<1> QED
  BY <1>3, <1>4, <1>5 DEF IInv

\* Due in the next state, when the timeouts have not changed.
LEMMA DueNext ==
    ASSUME timeout' = timeout
    PROVE  /\ Uniform' <=> Uniform
           /\ Due(tlist, timer)' <=>
                 \A e \in ToSet(tlist') : timer' >= 0 /\ (Uniform => timer' <= e.left + HZ)
           /\ \A s, tm : Due(s, tm) <=>
                 \A e \in ToSet(s) : tm >= 0 /\ (Uniform => tm <= e.left + HZ)
BY DEF Due, Uniform

\* Owned in the next state, when only the parts named change.
LEMMA OwnedSame ==
    ASSUME Owned, UNCHANGED <<place, complete, hw, done, h>>
    PROVE  Owned'
BY DEF Owned

-----------------------------------------------------------------------------
(* Actions while the lock is free *)

\* A tick brings every deadline and the timer nearer alike.
LEMMA TickInv ==
    ASSUME IInv, Tick
    PROVE  IInv'
<1> USE DEF Tick
<1>1. Types /\ Owned /\ Unlocked
  BY DEF IInv
<1>2. tlist \in Seq(Entries) /\ HZ \in Nat /\ HZ > 0
  BY <1>1, TimeoutAssumption DEF Types
<1> DEFINE n == Len(tlist)
           step(x) == IF x > 0 THEN x - 1 ELSE 0
<1>3. /\ n \in Nat /\ DOMAIN tlist = 1 .. n
      /\ \A k \in 1 .. n : tlist[k].rq \in Requests /\ tlist[k].left \in Nat /\ tlist[k] \in Entries
  BY <1>2, EntryFields
<1>4. \A k \in 1 .. n : /\ tlist'[k] = [tlist[k] EXCEPT !.left = step(tlist[k].left)]
                        /\ tlist'[k].rq = tlist[k].rq /\ tlist'[k].left = step(tlist[k].left)
                        /\ tlist'[k] \in Entries
  <2> SUFFICES ASSUME NEW k \in 1 .. n
               PROVE  /\ tlist'[k] = [tlist[k] EXCEPT !.left = step(tlist[k].left)]
                      /\ tlist'[k].rq = tlist[k].rq /\ tlist'[k].left = step(tlist[k].left)
                      /\ tlist'[k] \in Entries
    OBVIOUS
  <2>1. tlist'[k] = [tlist[k] EXCEPT !.left = step(tlist[k].left)]
    BY <1>3
  <2>2. tlist[k] \in [rq : Requests, left : Nat]
    BY <1>3 DEF Entries
  <2> QED
    BY <2>1, <2>2 DEF Entries
<1>5. DOMAIN tlist' = 1 .. n /\ tlist' \in Seq(Entries)
  <2>1. tlist' \in [1 .. n -> Entries]
    BY <1>3, <1>4
  <2> QED
    BY <1>3, <2>1
<1>6. Types'
  <2>1. phase' \in 0 .. HZ - 1
    BY <1>1, <1>2 DEF Types
  <2>2. timer' \in Nat \cup {-1}
    BY <1>1 DEF Types
  <2> QED
    BY <1>1, <1>5, <2>1, <2>2 DEF Types
<1>7. Owned'
  BY <1>1, OwnedSame
<1>8. Listed(tlist') = Listed(tlist)
  BY <1>3, <1>4, <1>5 DEF Listed
<1>9. Uniq(tlist')
  <2> SUFFICES ASSUME NEW i \in 1 .. n, NEW j \in 1 .. n, tlist'[i].rq = tlist'[j].rq
               PROVE  i = j
    BY <1>5 DEF Uniq
  <2>1. tlist[i].rq = tlist[j].rq
    BY <1>4
  <2>2. Uniq(tlist)
    BY <1>1, Free
  <2> HIDE DEF Tick
  <2> QED
    BY <1>3, <2>1, <2>2 DEF Uniq
<1>10. ASSUME NEW e \in ToSet(tlist')
       PROVE  \E d \in ToSet(tlist) : e.rq = d.rq /\ e.left = step(d.left) /\ d.left \in Nat
  <2>1. PICK k \in 1 .. n : e = tlist'[k]
    BY <1>5 DEF ToSet
  <2>2. tlist[k] \in ToSet(tlist)
    BY <1>3 DEF ToSet
  <2>3. e.rq = tlist[k].rq /\ e.left = step(tlist[k].left) /\ tlist[k].left \in Nat
    BY <1>3, <1>4, <2>1
  <2> HIDE DEF Tick, step
  <2> QED
    BY <2>2, <2>3
<1>11. ASSUME NEW e \in ToSet(tlist')
       PROVE  e.left <= timeout'[e.rq]
  <2>1. PICK d \in ToSet(tlist) : e.rq = d.rq /\ e.left = step(d.left) /\ d.left \in Nat
    BY <1>10
  <2>2. d.left <= timeout[d.rq] /\ timeout[d.rq] \in Nat
    <3>1. d.rq \in Requests
      BY <1>2, EntryFields
    <3> QED
      BY <3>1, <1>1, TimeoutNat DEF IInv, Covered
  <2> QED
    BY <2>1, <2>2
<1>12. ASSUME NEW e \in ToSet(tlist')
       PROVE  timer' >= 0 /\ (Uniform => timer' <= e.left + HZ)
  <2>1. PICK d \in ToSet(tlist) : e.rq = d.rq /\ e.left = step(d.left) /\ d.left \in Nat
    BY <1>10
  <2>2. timer >= 0 /\ (Uniform => timer <= d.left + HZ)
    BY <1>1, Free DEF Due
  <2>3. timer \in Nat
    BY <1>1, <2>2 DEF Types
  <2>4. timer' = IF timer > 0 THEN timer - 1 ELSE timer
    OBVIOUS
  <2> HIDE DEF Tick
  <2> QED
    BY <1>2, <2>1, <2>2, <2>3, <2>4
<1>13. Due(tlist, timer)'
  BY <1>12, DueNext
<1>14. h' = Idle
  BY <1>1, Free
<1>15. \A r \in Listed(tlist') : place'[r] \in {"driver", "softirq"}
  BY <1>1, <1>8, Free
<1>16. \A r \in Requests : place'[r] = "driver" /\ ~complete'[r] => r \in Listed(tlist')
  BY <1>1, <1>8, Free
<1> QED
  BY <1>6, <1>7, <1>9, <1>11, <1>13, <1>14, <1>15, <1>16, FreeIntro

\* A fresh request is on no list.
LEMMA RqInitInv ==
    ASSUME IInv, NEW r \in Requests, blk_rq_init(r)
    PROVE  IInv'
<1> USE DEF blk_rq_init
<1>1. Types /\ Owned /\ Unlocked
  BY DEF IInv
<1>2. Types'
  BY <1>1 DEF Types
<1>3. /\ \A x \in Requests : x # r => place'[x] = place[x] /\ complete'[x] = complete[x]
      /\ place[r] = "free" /\ place'[r] = "queued" /\ ~complete'[r]
  BY <1>1 DEF Types
<1>4. Owned'
  <2>1. r \notin hw /\ hw \subseteq Requests
    BY <1>1 DEF Owned, Types
  <2>2. done' = done /\ hw' = hw /\ h' = h
    OBVIOUS
  <2> HIDE DEF blk_rq_init
  <2> QED
    BY <1>1, <1>3, <2>1, <2>2 DEF Owned
<1>5. /\ h' = Idle /\ tlist' = tlist /\ Uniq(tlist) /\ Due(tlist, timer)
      /\ \A x \in Listed(tlist) : place[x] \in {"driver", "softirq"}
      /\ \A x \in Requests : place[x] = "driver" /\ ~complete[x] => x \in Listed(tlist)
  BY <1>1, Free
<1>6. \A x \in Listed(tlist') : place'[x] \in {"driver", "softirq"}
  <2>1. Listed(tlist) \subseteq Requests
    BY <1>1, EntryFields DEF Types
  <2> QED
    BY <2>1, <1>3, <1>5
<1>7. \A x \in Requests : place'[x] = "driver" /\ ~complete'[x] => x \in Listed(tlist')
  BY <1>3, <1>5
<1>8. \A e \in ToSet(tlist') : e.left <= timeout'[e.rq]
  BY <1>5 DEF IInv, Covered
<1>9. Due(tlist, timer)'
  BY <1>5, DueNext
<1> QED
  BY <1>2, <1>4, <1>5, <1>6, <1>7, <1>8, <1>9, FreeIntro

\* blk_add_timer finds neither of its BUG_ONs true for a request that is
\* queued: it is not complete and has no timer.
LEMMA StartInv ==
    ASSUME IInv, NEW r \in Requests, blk_start_request(r)
    PROVE  IInv' /\ ~bug'
<1> USE DEF blk_start_request
<1>1. Types /\ Owned /\ Unlocked
  BY DEF IInv
<1> DEFINE e == [rq |-> r, left |-> timeout[r]]
<1>2. timeout[r] \in Nat /\ HZ \in Nat
  BY <1>1, TimeoutNat
<1>3. e \in Entries /\ e.rq = r /\ e.left = timeout[r]
  BY <1>2 DEF Entries
<1>4. /\ \A x \in Requests : x # r => place'[x] = place[x]
      /\ place[r] = "queued" /\ place'[r] = "driver"
  BY <1>1 DEF Types
<1>5. r \notin Listed(tlist) /\ ~complete[r]
  BY <1>1, <1>4, Free DEF Owned
<1>6. /\ tlist \in Seq(Entries) /\ Uniq(tlist) /\ Due(tlist, timer) /\ timer \in Nat \cup {-1}
      /\ Listed(tlist) \subseteq Requests
  BY <1>1, Free, EntryFields DEF Types
<1>7. tlist' = Append(tlist, e)
  BY DEF Added
<1> HIDE DEF e
<1>8. /\ tlist' \in Seq(Entries) /\ Uniq(tlist') /\ Listed(tlist') = Listed(tlist) \cup {r}
      /\ ToSet(tlist') = ToSet(tlist) \cup {e}
  BY <1>3, <1>5, <1>6, <1>7, AddEntry
<1>9. /\ timer' \in Nat /\ timer' <= timeout[r] + HZ /\ (timer # -1 => timer' <= timer)
  BY <1>1, <1>6, ArmedFacts
<1>10. ~bug'
  BY <1>1, <1>5 DEF BugOnAdd, Types
<1>11. Types'
  <2>1. resets' \in [Requests -> 0 .. MaxResets]
    BY <1>1, TimeoutAssumption DEF Types
  <2>3. bug' \in BOOLEAN
    BY DEF BugOnAdd
  <2>2. place' \in [Requests -> {"free", "queued", "driver", "softirq", "eh"}] /\ hw' \subseteq Requests
    BY <1>1 DEF Types
  <2> QED
    BY <1>1, <1>8, <1>9, <2>1, <2>2, <2>3 DEF Types
<1>12. Owned'
  <2>1. done' = done /\ hw' = hw \cup {r} /\ h' = h /\ complete' = complete
    OBVIOUS
  <2>2. hw \subseteq Requests
    BY <1>1 DEF Types
  <2> HIDE DEF blk_start_request
  <2> QED
    BY <1>1, <1>4, <1>5, <2>1, <2>2 DEF Owned
<1>13. \A x \in Listed(tlist') : place'[x] \in {"driver", "softirq"}
  BY <1>1, <1>4, <1>6, <1>8, Free
<1>14. \A x \in Requests : place'[x] = "driver" /\ ~complete'[x] => x \in Listed(tlist')
  BY <1>1, <1>4, <1>8, Free
<1>15. \A x \in ToSet(tlist') : x.left <= timeout'[x.rq]
  BY <1>2, <1>3, <1>8 DEF IInv, Covered
<1>16. Due(tlist, timer)'
  <2>1. \A x \in ToSet(tlist) : timer' >= 0 /\ (Uniform => timer' <= x.left + HZ)
    BY <1>2, <1>6, <1>9, DueEarlier DEF Due
  <2> QED
    BY <1>2, <1>3, <1>8, <1>9, <2>1, DueNext
<1>17. h' = Idle
  BY <1>1, Free
<1> QED
  BY <1>8, <1>10, <1>11, <1>12, <1>13, <1>14, <1>15, <1>16, <1>17, FreeIntro

\* The request r ends or goes back to the queue, after it has left the
\* softirq list, its error handler or its driver: no timer is left, and the hardware has
\* forgotten it.
LEMMA ReturnInv ==
    ASSUME IInv, NEW r \in Requests, blk_finish_request(r) \/ blk_requeue_request(r),
           done' \in Seq(Requests), hw' \subseteq hw, r \notin hw',
           \A i, j \in DOMAIN done' : done'[i] = done'[j] => i = j,
           \A x \in Requests : (\E i \in DOMAIN done' : done'[i] = x)
                                 <=> x # r /\ \E i \in DOMAIN done : done[i] = x
    PROVE  IInv'
<1>1. Types /\ Owned /\ Unlocked
  BY DEF IInv, blk_finish_request, blk_requeue_request
<1>2. /\ \A x \in Requests : x # r => place'[x] = place[x] /\ complete'[x] = complete[x]
      /\ place'[r] \in {"free", "queued"} /\ (place'[r] = "queued" => ~complete'[r])
      /\ place' \in [Requests -> {"free", "queued", "driver", "softirq", "eh"}]
      /\ complete' \in [Requests -> BOOLEAN]
  <2>1. /\ place \in [Requests -> {"free", "queued", "driver", "softirq", "eh"}]
        /\ complete \in [Requests -> BOOLEAN]
    BY <1>1 DEF Types
  <2>2. CASE blk_finish_request(r)
    <3>1. place' = [place EXCEPT ![r] = "free"] /\ complete' = complete
      BY <2>2 DEF blk_finish_request
    <3> QED
      BY <2>1, <3>1
  <2>3. CASE blk_requeue_request(r)
    <3>1. place' = [place EXCEPT ![r] = "queued"] /\ complete' = [complete EXCEPT ![r] = FALSE]
      BY <2>3 DEF blk_requeue_request
    <3>2. /\ \A x \in Requests : x # r => place'[x] = place[x] /\ complete'[x] = complete[x]
          /\ place'[r] = "queued" /\ ~complete'[r]
      BY <2>1, <3>1
    <3>3. place' \in [Requests -> {"free", "queued", "driver", "softirq", "eh"}]
      BY <2>1, <3>1
    <3>4. complete' \in [Requests -> BOOLEAN]
      BY <2>1, <3>1
    <3> QED
      BY <3>2, <3>3, <3>4
  <2> QED
    BY <2>2, <2>3
<1>3. /\ tlist' = blk_delete_timer(tlist, r) /\ h' = h /\ timer' = timer
      /\ UNCHANGED <<timeout, resets, timer, phase, bug>>
  BY DEF blk_finish_request, blk_requeue_request
<1>4. /\ tlist \in Seq(Entries) /\ Uniq(tlist) /\ Due(tlist, timer) /\ Listed(tlist) \subseteq Requests
  BY <1>1, Free, EntryFields DEF Types
<1>5. /\ tlist' \in Seq(Entries) /\ Uniq(tlist') /\ Listed(tlist') = Listed(tlist) \ {r}
      /\ ToSet(tlist') \subseteq ToSet(tlist)
  BY <1>3, <1>4, DeleteTimer
<1>6. Types'
  BY <1>1, <1>2, <1>3, <1>5 DEF Types
<1>7. Owned'
  <2>1. hw \subseteq Requests
    BY <1>1 DEF Types
  <2>2. \A x \in Requests : place'[x] = "softirq" <=> \E i \in DOMAIN done' : done'[i] = x
    BY <1>1, <1>2 DEF Owned
  <2>3. \A x \in Requests : place'[x] \in {"softirq", "eh"} => complete'[x]
    BY <1>1, <1>2 DEF Owned
  <2>4. \A x \in Requests : place'[x] = "driver" /\ complete'[x] => h'.pc = "ask" /\ h'.rq = x
    BY <1>1, <1>2, <1>3 DEF Owned
  <2>5. \A x \in Requests : place'[x] = "queued" => ~complete'[x]
    BY <1>1, <1>2 DEF Owned
  <2>6. \A x \in hw' : place'[x] \in {"driver", "eh"}
    BY <1>1, <1>2, <2>1 DEF Owned
  <2> QED
    BY <2>2, <2>3, <2>4, <2>5, <2>6 DEF Owned
<1>8. \A x \in Listed(tlist') : place'[x] \in {"driver", "softirq"}
  BY <1>1, <1>2, <1>4, <1>5, Free
<1>9. \A x \in Requests : place'[x] = "driver" /\ ~complete'[x] => x \in Listed(tlist')
  BY <1>1, <1>2, <1>5, Free
<1>10. \A x \in ToSet(tlist') : x.left <= timeout'[x.rq]
  BY <1>3, <1>5 DEF IInv, Covered
<1>11. Due(tlist, timer)'
  BY <1>3, <1>4, <1>5, DueNext DEF Due
<1>12. h' = Idle
  BY <1>1, <1>3, Free
<1> QED
  BY <1>5, <1>6, <1>7, <1>8, <1>9, <1>10, <1>11, <1>12, FreeIntro

\* blk_done_softirq takes the first request off its list.
LEMMA SoftirqInv ==
    ASSUME IInv, blk_done_softirq
    PROVE  IInv'
<1>1. Types /\ Owned
  BY DEF IInv
<1>2. done \in Seq(Requests) /\ done # << >> /\ done' = Tail(done) /\ hw' = hw
  BY <1>1 DEF Types, blk_done_softirq
<1> DEFINE r == Head(done)
<1>3. /\ Len(done) \in Nat /\ Len(done) > 0 /\ DOMAIN done = 1 .. Len(done)
      /\ r = done[1] /\ r \in Requests
  BY <1>2
<1>4. /\ done' \in Seq(Requests) /\ DOMAIN done' = 1 .. Len(done) - 1
      /\ \A k \in 1 .. Len(done) - 1 : done'[k] = done[k + 1]
  BY <1>2, <1>3
<1>5. blk_finish_request(r) \/ blk_requeue_request(r)
  BY DEF blk_done_softirq
<1> HIDE DEF r
<1>6. \A i, j \in DOMAIN done : done[i] = done[j] => i = j
  BY <1>1 DEF Owned
<1>7. ASSUME NEW i \in DOMAIN done', NEW j \in DOMAIN done', done'[i] = done'[j] PROVE i = j
  <2>1. i + 1 \in DOMAIN done /\ j + 1 \in DOMAIN done /\ done[i + 1] = done[j + 1]
    BY <1>3, <1>4, <1>7
  <2>2. i + 1 = j + 1
    BY <1>6, <2>1
  <2> QED
    BY <1>3, <1>4, <2>2
<1>8. ASSUME NEW x \in Requests
      PROVE  (\E i \in DOMAIN done' : done'[i] = x) <=> x # r /\ \E i \in DOMAIN done : done[i] = x
  <2>1. ASSUME NEW i \in DOMAIN done', done'[i] = x
        PROVE  x # r /\ \E k \in DOMAIN done : done[k] = x
    <3>1. i + 1 \in DOMAIN done /\ done[i + 1] = x /\ i + 1 # 1 /\ 1 \in DOMAIN done
      BY <1>3, <1>4, <2>1
    <3> QED
      BY <1>3, <1>6, <3>1
  <2>2. ASSUME NEW i \in DOMAIN done, done[i] = x, x # r
        PROVE  \E k \in DOMAIN done' : done'[k] = x
    <3>1. i - 1 \in 1 .. Len(done) - 1 /\ (i - 1) + 1 = i
      BY <1>3, <2>2
    <3> QED
      BY <1>4, <2>2, <3>1
  <2> QED
    BY <2>1, <2>2
<1>9. r \notin hw'
  BY <1>1, <1>2, <1>3 DEF Owned
<1> QED
  BY <1>2, <1>3, <1>4, <1>5, <1>7, <1>8, <1>9, ReturnInv

\* The error handler of the driver is through with a request.
LEMMA ErrorHandledInv ==
    ASSUME IInv, NEW r \in Requests, ErrorHandled(r)
    PROVE  IInv'
<1>1. Types /\ Owned
  BY DEF IInv
<1>2. /\ place[r] = "eh" /\ hw' = hw \ {r} /\ done' = done
      /\ blk_finish_request(r) \/ blk_requeue_request(r)
  BY DEF ErrorHandled
<1>3. done \in Seq(Requests) /\ (\A i, j \in DOMAIN done : done[i] = done[j] => i = j)
  BY <1>1 DEF Types, Owned
<1>4. ~\E i \in DOMAIN done : done[i] = r
  BY <1>1, <1>2 DEF Owned
<1> QED
  BY <1>2, <1>3, <1>4, ReturnInv

\* The driver puts back a request the hardware has refused.
LEMMA RefusedInv ==
    ASSUME IInv, NEW r \in Requests, Refused(r)
    PROVE  IInv'
<1>1. Types /\ Owned
  BY DEF IInv
<1>2. place[r] = "driver" /\ hw' = hw \ {r} /\ done' = done /\ blk_requeue_request(r)
  BY DEF Refused
<1>3. done \in Seq(Requests) /\ (\A i, j \in DOMAIN done : done[i] = done[j] => i = j)
  BY <1>1 DEF Types, Owned
<1>4. ~\E i \in DOMAIN done : done[i] = r
  BY <1>1, <1>2 DEF Owned
<1> QED
  BY <1>2, <1>3, <1>4, ReturnInv

-----------------------------------------------------------------------------
(* Interrupts, which run whoever has the lock *)

\* What a handler owes does not change with the places of requests.
LEMMA CoveredSame ==
    ASSUME Covered, UNCHANGED <<timeout, h, tlist, timer>>
    PROVE  Covered'
BY DEF Covered, Owes, Due, Uniform

\* The hardware loses a command.
LEMMA LostInv ==
    ASSUME IInv, NEW r \in Requests, Lost(r)
    PROVE  IInv'
<1>1. /\ UNCHANGED <<timeout, place, complete, resets, done, tlist, timer, phase, h, bug>>
      /\ hw' \subseteq hw
  BY DEF Lost
<1>2. Types'
  BY <1>1 DEF IInv, Types
<1>3. Owned'
  BY <1>1 DEF IInv, Owned
<1>4. HandlerOK' /\ ListsOK'
  BY <1>1 DEF IInv, HandlerOK, ListsOK
<1>5. Covered'
  BY <1>1, CoveredSame DEF IInv
<1> QED
  BY <1>2, <1>3, <1>4, <1>5 DEF IInv

\* A request is put at the end of the softirq list, once.
LEMMA DoneOnce ==
    ASSUME NEW s \in Seq(Requests), NEW r \in Requests, ~\E i \in DOMAIN s : s[i] = r,
           \A i, j \in DOMAIN s : s[i] = s[j] => i = j
    PROVE  /\ Append(s, r) \in Seq(Requests)
           /\ \A i, j \in DOMAIN Append(s, r) : Append(s, r)[i] = Append(s, r)[j] => i = j
           /\ \A x \in Requests : (\E i \in DOMAIN Append(s, r) : Append(s, r)[i] = x)
                                    <=> x = r \/ \E i \in DOMAIN s : s[i] = x
<1> DEFINE t == Append(s, r)
<1>1. /\ t \in Seq(Requests) /\ Len(s) \in Nat /\ DOMAIN s = 1 .. Len(s)
      /\ DOMAIN t = 1 .. Len(s) + 1
      /\ \A k \in 1 .. Len(s) : t[k] = s[k]
      /\ t[Len(s) + 1] = r
  BY AppendProperties, LenProperties
<1> HIDE DEF t
<1>2. /\ \A k \in DOMAIN t : (k \in DOMAIN s /\ t[k] = s[k]) \/ (k = Len(s) + 1 /\ t[k] = r)
      /\ \A k \in DOMAIN s : k \in DOMAIN t /\ t[k] = s[k]
      /\ Len(s) + 1 \in DOMAIN t
  BY <1>1
<1>3. \A i, j \in DOMAIN t : t[i] = t[j] => i = j
  BY <1>2
<1>4. \A x \in Requests : (\E i \in DOMAIN t : t[i] = x) <=> x = r \/ \E i \in DOMAIN s : s[i] = x
  BY <1>1, <1>2
<1> QED
  BY <1>1, <1>3, <1>4 DEF t

\* The interrupt has a request only when no timeout was first; then the
\* handler is not asking the driver for it.
LEMMA CompleteInv ==
    ASSUME IInv, NEW r \in Requests, blk_complete_request(r)
    PROVE  IInv'
<1>1. Types /\ Owned /\ HandlerOK /\ ListsOK /\ Covered
  BY DEF IInv
<1>2. /\ r \in hw /\ hw' = hw \ {r} /\ UNCHANGED <<timeout, resets, tlist, timer, phase, h, bug>>
  BY DEF blk_complete_request
<1>3. Covered'
  BY <1>1, <1>2, CoveredSame
<1>4. CASE complete[r] /\ UNCHANGED <<place, complete, done>>
  <2>1. Types'
    BY <1>1, <1>2, <1>4 DEF Types
  <2>2. Owned'
    BY <1>1, <1>2, <1>4 DEF Owned
  <2>3. HandlerOK' /\ ListsOK'
    BY <1>1, <1>2, <1>4 DEF HandlerOK, ListsOK
  <2> QED
    BY <2>1, <2>2, <2>3, <1>3 DEF IInv
<1>5. CASE /\ ~complete[r]
           /\ complete' = [complete EXCEPT ![r] = TRUE]
           /\ done' = Append(done, r)
           /\ place' = [place EXCEPT ![r] = "softirq"]
  <2>1. /\ \A x \in Requests : x # r => place'[x] = place[x] /\ complete'[x] = complete[x]
        /\ place'[r] = "softirq" /\ complete'[r]
    BY <1>1, <1>5 DEF Types
  <2>2. place[r] = "driver"
    BY <1>1, <1>2, <1>5 DEF Owned
  <2>3. ~\E i \in DOMAIN done : done[i] = r
    BY <1>1, <2>2 DEF Owned
  <2>4. /\ done' \in Seq(Requests)
        /\ \A i, j \in DOMAIN done' : done'[i] = done'[j] => i = j
        /\ \A x \in Requests : (\E i \in DOMAIN done' : done'[i] = x)
                                 <=> x = r \/ \E i \in DOMAIN done : done[i] = x
    <3>1. done \in Seq(Requests) /\ \A i, j \in DOMAIN done : done[i] = done[j] => i = j
      BY <1>1 DEF Types, Owned
    <3>2. done' = Append(done, r)
      BY <1>5
    <3> QED
      BY <2>3, <3>1, <3>2, DoneOnce
  <2>5. Types'
    BY <1>1, <1>2, <1>5, <2>4 DEF Types
  <2>6. hw \subseteq Requests
    BY <1>1 DEF Types
  <2>7. Owned'
    BY <1>1, <1>2, <2>1, <2>4, <2>6 DEF Owned
  <2>8. h.pc = "ask" => h.rq # r
    BY <1>1, <1>5 DEF HandlerOK
  <2>9. HandlerOK'
    BY <1>1, <1>2, <2>1, <2>8 DEF HandlerOK
  <2>10. Listed(tlist) \subseteq Requests /\ Listed(h.local) \subseteq Requests
    BY <1>1, EntryFields DEF Types, Handlers
  <2>11. ListsOK'
    BY <1>1, <1>2, <2>1, <2>10 DEF ListsOK
  <2> QED
    BY <2>5, <2>7, <2>9, <2>11, <1>3 DEF IInv
<1> QED
  BY <1>4, <1>5 DEF blk_complete_request

-----------------------------------------------------------------------------
(* The beginnings of the handlers *)

\* q->timeout expires: the scan has passed nothing, so nothing is owed yet.
LEMMA ExpireInv ==
    ASSUME IInv, blk_rq_timed_out_timer
    PROVE  IInv'
<1>1. Types /\ Owned /\ Unlocked
  BY DEF IInv, blk_rq_timed_out_timer
<1>2. /\ timer' = -1 /\ h' = IF tlist = << >> THEN Idle ELSE [Idle EXCEPT !.pc = "scan"]
      /\ UNCHANGED <<timeout, place, complete, resets, hw, done, tlist, phase, bug>>
  BY DEF blk_rq_timed_out_timer
<1>3. /\ h = Idle /\ tlist \in Seq(Entries) /\ Uniq(tlist)
      /\ \A r \in Requests : place[r] = "driver" => ~complete[r] /\ r \in Listed(tlist)
      /\ \A r \in Listed(tlist) : place[r] \in {"driver", "softirq"}
  BY <1>1, Free DEF Types
<1>4. /\ h' \in Handlers /\ h'.local = << >> /\ ~h'.last /\ h'.next = -1 /\ h'.i = 1
      /\ h'.pc = IF tlist = << >> THEN "idle" ELSE "scan"
      /\ h'.pc = "idle" => h' = Idle
  BY <1>2, IdleFacts DEF Idle, Handlers
<1>5. Types'
  BY <1>1, <1>2, <1>4 DEF Types
<1>6. Owned'
  BY <1>1, <1>2, <1>3, <1>4 DEF Owned
<1>7. HandlerOK'
  <2>1. tlist # << >> => 1 \in DOMAIN tlist
    BY <1>3
  <2> QED
    BY <1>2, <1>4, <2>1 DEF HandlerOK, Loop
<1>8. ListsOK'
  BY <1>2, <1>3, <1>4, NoEntries DEF ListsOK, Apart
<1>9. Covered'
  <2>1. \A e \in ToSet(tlist') \cup ToSet(h'.local) : e.left <= timeout'[e.rq]
    BY <1>2, <1>4, NoEntries DEF IInv, Covered
  <2>2. h'.pc = "idle" => Due(tlist, timer)'
    BY <1>2, <1>4, NoEntries DEF Due
  <2>3. Owes(h, tlist, timer)'
    <3>1. \A k \in DOMAIN tlist : ~(k < 1)
      BY <1>3
    <3> QED
      BY <1>2, <1>4, <3>1 DEF Owes
  <2> QED
    BY <2>1, <2>2, <2>3 DEF Covered
<1> QED
  BY <1>5, <1>6, <1>7, <1>8, <1>9 DEF IInv

\* A driver gives up a request: its timer is gone before the driver is asked.
LEMMA AbortInv ==
    ASSUME IInv, NEW r \in Requests, blk_abort_request(r)
    PROVE  IInv'
<1>1. Types /\ Owned /\ Unlocked
  BY DEF IInv, blk_abort_request
<1>2. /\ place[r] = "driver" /\ complete' = [complete EXCEPT ![r] = TRUE]
      /\ tlist' = blk_delete_timer(tlist, r)
      /\ h' = [Idle EXCEPT !.pc = "ask", !.rq = r, !.last = TRUE]
      /\ UNCHANGED <<timeout, place, resets, hw, done, timer, phase, bug>>
  BY DEF blk_abort_request
<1>3. /\ tlist \in Seq(Entries) /\ Uniq(tlist) /\ Due(tlist, timer)
      /\ \A x \in Requests : place[x] = "driver" => ~complete[x] /\ x \in Listed(tlist)
      /\ \A x \in Listed(tlist) : place[x] \in {"driver", "softirq"}
  BY <1>1, Free DEF Types
<1>4. /\ h' \in Handlers /\ h'.local = << >> /\ h'.last /\ h'.next = -1 /\ h'.i = 1
      /\ h'.pc = "ask" /\ h'.rq = r
  <2>1. h' = [pc |-> "ask", rq |-> r, i |-> 1, last |-> TRUE, next |-> -1, local |-> << >>]
    BY <1>2 DEF Idle
  <2>2. 1 \in Nat \ {0} /\ TRUE \in BOOLEAN /\ -1 \in Nat \cup {-1} /\ << >> \in Seq(Entries)
    BY NoEntries
  <2>3. h' \in Handlers
    BY <2>1, <2>2 DEF Handlers
  <2> QED
    BY <2>1, <2>3
<1>5. /\ tlist' \in Seq(Entries) /\ Uniq(tlist') /\ Listed(tlist') = Listed(tlist) \ {r}
      /\ ToSet(tlist') \subseteq ToSet(tlist)
  BY <1>2, <1>3, DeleteTimer
<1>6. /\ complete'[r] /\ \A x \in Requests : x # r => complete'[x] = complete[x]
      /\ complete' \in [Requests -> BOOLEAN]
  BY <1>1, <1>2 DEF Types
<1>7. Types'
  BY <1>1, <1>2, <1>4, <1>5, <1>6 DEF Types
<1>8. Owned'
  BY <1>1, <1>2, <1>3, <1>4, <1>6 DEF Owned
<1>9. HandlerOK'
  BY <1>2, <1>4, <1>5, <1>6, NoEntries DEF HandlerOK
<1>10. ListsOK'
  BY <1>2, <1>3, <1>4, <1>5, <1>6, NoEntries DEF ListsOK, Apart
<1>11. Covered'
  <2>1. \A e \in ToSet(tlist') \cup ToSet(h'.local) : e.left <= timeout'[e.rq]
    BY <1>2, <1>4, <1>5, NoEntries DEF IInv, Covered
  <2>2. Due(tlist, timer)' /\ Due(h.local, timer)'
    BY <1>2, <1>3, <1>4, <1>5, NoEntries DEF Due, Uniform
  <2>3. Owes(h, tlist, timer)'
    BY <1>4, <2>2 DEF Owes
  <2> QED
    BY <1>4, <2>1, <2>3 DEF Covered
<1> QED
  BY <1>7, <1>8, <1>9, <1>10, <1>11 DEF IInv

\* blk_abort_queue: every BUG_ON is false for what was queued, and the timer
\* is no later than before.
LEMMA AbortQueueInv ==
    ASSUME IInv, blk_abort_queue
    PROVE  IInv' /\ ~bug'
<1>1. Types /\ Owned /\ Unlocked
  BY DEF IInv, blk_abort_queue
<1> DEFINE queued == {r \in Requests : place[r] = "queued"}
           S == {round_jiffies_up(timeout[r]) : r \in queued} \cup ({timer} \ {-1})
<1>2. /\ place' = [r \in Requests |-> IF r \in queued THEN "free" ELSE place[r]]
      /\ bug' = (\E r \in queued : BugOnAdd(r))
      /\ timer' = IF queued = {} THEN timer ELSE Min(S)
      /\ h' = IF tlist = << >> THEN Idle ELSE [Idle EXCEPT !.pc = "scan", !.local = tlist]
      /\ tlist' = << >>
      /\ UNCHANGED <<timeout, complete, resets, hw, done, phase>>
  BY DEF blk_abort_queue
<1>3. /\ tlist \in Seq(Entries) /\ Uniq(tlist) /\ Due(tlist, timer) /\ Listed(tlist) \subseteq Requests
      /\ \A x \in Requests : place[x] = "driver" => ~complete[x] /\ x \in Listed(tlist)
      /\ \A x \in Listed(tlist) : place[x] \in {"driver", "softirq"}
  BY <1>1, Free, EntryFields DEF Types
<1>4. timer' \in Nat \cup {-1} /\ (timer # -1 => timer' \in Nat /\ timer' <= timer)
  <2>1. timer \in Nat \cup {-1}
    BY <1>1 DEF Types
  <2>2. CASE queued = {}
    BY <1>2, <2>1, <2>2
  <2>3. CASE queued # {}
    <3>1. \A r \in Requests : round_jiffies_up(timeout[r]) \in Nat
      BY <1>1, TimeoutNat, RoundUp DEF Types
    <3>2. S \in SUBSET Nat /\ S # {}
      BY <2>1, <2>3, <3>1
    <3>3. timer # -1 => timer \in S
      OBVIOUS
    <3>4. timer' = Min(S)
      BY <1>2, <2>3
    <3> HIDE DEF S
    <3> QED
      BY <2>1, <3>2, <3>3, <3>4, MinNat
  <2> QED
    BY <2>2, <2>3
<1>5. ~bug' /\ bug' \in BOOLEAN
  BY <1>1, <1>2, <1>3 DEF BugOnAdd, Owned
<1>6. /\ \A x \in Requests : place'[x] = IF place[x] = "queued" THEN "free" ELSE place[x]
      /\ place' \in [Requests -> {"free", "queued", "driver", "softirq", "eh"}]
  BY <1>1, <1>2 DEF Types
<1> HIDE DEF queued, S
<1>7. /\ h' \in Handlers /\ ~h'.last /\ h'.next = -1 /\ h'.i = 1 /\ h'.local = tlist
      /\ h'.pc = IF tlist = << >> THEN "idle" ELSE "scan"
      /\ h'.pc = "idle" => h' = Idle
  BY <1>2, <1>3, IdleFacts DEF Idle, Handlers
<1>8. Types'
  BY <1>1, <1>2, <1>4, <1>5, <1>6, <1>7, NoEntries DEF Types
<1>9. Owned'
  <2>1. hw \subseteq Requests
    BY <1>1 DEF Types
  <2> QED
    BY <1>1, <1>2, <1>3, <1>6, <2>1 DEF Owned
<1>10. HandlerOK'
  <2>1. tlist # << >> => 1 \in DOMAIN tlist
    BY <1>3
  <2> QED
    BY <1>7, <2>1 DEF HandlerOK, Loop
<1>11. ListsOK'
  BY <1>2, <1>3, <1>6, <1>7, NoEntries DEF ListsOK, Apart
<1>12. Covered'
  <2>1. \A e \in ToSet(tlist') \cup ToSet(h'.local) : e.left <= timeout'[e.rq]
    BY <1>2, <1>7, NoEntries DEF IInv, Covered
  <2>2. Due(tlist, timer)'
    BY <1>2, NoEntries DEF Due
  <2>3. \A e \in ToSet(tlist) : timer' >= 0 /\ (Uniform => timer' <= e.left + HZ)
    <3> SUFFICES ASSUME NEW e \in ToSet(tlist)
                 PROVE  timer' >= 0 /\ (Uniform => timer' <= e.left + HZ)
      OBVIOUS
    <3>1. e.left \in Nat /\ timer >= 0 /\ (Uniform => timer <= e.left + HZ) /\ HZ \in Nat
      BY <1>3, EntryFields, TimeoutAssumption DEF Due
    <3>2. timer \in Nat
      BY <1>1, <3>1 DEF Types
    <3> QED
      BY <1>4, <3>1, <3>2
  <2>4. Due(h.local, timer)'
    BY <1>2, <1>7, <2>3 DEF Due, Uniform
  <2>5. h'.pc # "idle" => h'.local # << >>
    BY <1>7
  <2>6. h'.pc # "idle" => Owes(h, tlist, timer)'
    BY <1>7, <2>2, <2>4, <2>5 DEF Owes
  <2> QED
    BY <2>1, <2>2, <2>6 DEF Covered
<1> QED
  BY <1>5, <1>8, <1>9, <1>10, <1>11, <1>12 DEF IInv

-----------------------------------------------------------------------------
(* The steps of the handlers *)

\* The end of a turn: what the handler has made of the lists is put together,
\* and what it owes is paid when it leaves the lock.
LEMMA Proceeds ==
    ASSUME Types, NEW hh \in Handlers, NEW tl \in Seq(Entries), NEW tm \in Nat \cup {-1},
           Apart(tl, hh.local), Owes(hh, tl, tm), ~hh.last => hh.i \in DOMAIN Loop(hh, tl),
           \A e \in ToSet(tl) \cup ToSet(hh.local) : e.left <= timeout[e.rq],
           timeout' = timeout, Proceed(hh, tl, tm)
    PROVE  /\ tlist' \in Seq(Entries) /\ timer' \in Nat \cup {-1} /\ h' \in Handlers
           /\ h'.pc \in {"idle", "scan"} /\ HandlerOK' /\ Covered'
           /\ Apart(tlist', h'.local)
           /\ Listed(tlist') \cup Listed(h'.local) = Listed(tl) \cup Listed(hh.local)
<1>0. /\ hh.local \in Seq(Entries) /\ hh.next \in Nat \cup {-1} /\ hh.i \in Nat \ {0}
      /\ hh.last \in BOOLEAN /\ HZ \in Nat
  BY TimeoutAssumption DEF Handlers
<1>1. CASE hh.last
  <2>1. /\ h' = Idle /\ tlist' = hh.local \o tl
        /\ timer' = IF hh.next = -1 THEN tm ELSE round_jiffies_up(hh.next)
    BY <1>1 DEF Proceed
  <2>2. /\ tlist' \in Seq(Entries) /\ Uniq(tlist')
        /\ Listed(tlist') = Listed(hh.local) \cup Listed(tl)
        /\ ToSet(tlist') = ToSet(hh.local) \cup ToSet(tl)
    BY <1>0, <2>1, Splice DEF Apart
  <2>3. /\ h' \in Handlers /\ h'.pc = "idle" /\ h'.local = << >> /\ ~h'.last
        /\ Listed(h'.local) = {} /\ ToSet(h'.local) = {} /\ Uniq(h'.local)
    BY <2>1, IdleFacts, NoEntries
  <2>4. \A e \in ToSet(tlist') : e.left \in Nat
    BY <2>2, EntryFields
  <2>5. timer' \in Nat \cup {-1} /\ Due(tlist, timer)'
    <3>1. CASE hh.next = -1
      BY <1>1, <2>1, <2>2, <3>1 DEF Owes, Due, Uniform
    <3>2. CASE hh.next # -1
      <4>1. hh.next \in Nat /\ phase \in 0 .. HZ - 1
        BY <1>0, <3>2 DEF Types
      <4>2. timer' \in Nat /\ timer' <= hh.next + HZ
        BY <2>1, <3>2, <4>1, RoundUp
      <4>3. hh.local = << >> /\ \A e \in ToSet(tl) : Uniform => hh.next <= e.left
        BY <1>1, <3>2 DEF Owes
      <4>4. \A e \in ToSet(tlist') : Uniform => hh.next <= e.left
        BY <2>2, <4>3, NoEntries
      <4>5. \A e \in ToSet(tlist') : timer' >= 0 /\ (Uniform => timer' <= e.left + HZ)
        BY <1>0, <2>4, <4>1, <4>2, <4>4
      <4> QED
        BY <4>2, <4>5, DueNext
    <3> QED
      BY <3>1, <3>2
  <2>6. HandlerOK'
    BY <2>1, <2>3 DEF HandlerOK
  <2>7. Covered'
    BY <2>2, <2>3, <2>5 DEF Covered
  <2> QED
    BY <2>2, <2>3, <2>5, <2>6, <2>7 DEF Apart
<1>2. CASE ~hh.last
  <2>1. h' = [hh EXCEPT !.pc = "scan"] /\ tlist' = tl /\ timer' = tm
    BY <1>2 DEF Proceed
  <2>2. /\ h' \in Handlers /\ h'.pc = "scan" /\ h'.local = hh.local /\ h'.last = hh.last
        /\ h'.i = hh.i /\ h'.next = hh.next
    BY <2>1 DEF Handlers
  <2>3. HandlerOK'
    BY <1>2, <2>1, <2>2 DEF HandlerOK, Loop
  <2>4. Owes(h, tlist, timer)'
    BY <1>2, <2>1, <2>2 DEF Owes, Due, Uniform
  <2>5. Covered'
    BY <2>1, <2>2, <2>4 DEF Covered
  <2> QED
    BY <2>1, <2>2, <2>3, <2>5
<1> QED
  BY <1>0, <1>1, <1>2

\* The driver gives its answer, and the request has another owner.
LEMMA TimedOutInv ==
    ASSUME IInv, TimedOut
    PROVE  IInv'
<1>1. Types /\ Owned /\ HandlerOK /\ ListsOK /\ Covered
  BY DEF IInv
<1>2. /\ h.pc = "ask" /\ Proceed(h, tlist, timer)
      /\ UNCHANGED <<timeout, complete, resets, phase, bug>>
  BY DEF TimedOut
<1> DEFINE r == h.rq
<1>3. /\ r \in Requests /\ complete[r] /\ place[r] = "driver"
      /\ r \notin Listed(tlist) \cup Listed(h.local)
      /\ (~h.last => h.i \in DOMAIN Loop(h, tlist))
  BY <1>1, <1>2 DEF HandlerOK
<1>4. /\ tlist' \in Seq(Entries) /\ timer' \in Nat \cup {-1} /\ h' \in Handlers
      /\ h'.pc \in {"idle", "scan"} /\ HandlerOK' /\ Covered'
      /\ Apart(tlist', h'.local)
      /\ Listed(tlist') \cup Listed(h'.local) = Listed(tlist) \cup Listed(h.local)
  <2>1. h \in Handlers /\ tlist \in Seq(Entries) /\ timer \in Nat \cup {-1}
    BY <1>1 DEF Types
  <2>2. /\ Apart(tlist, h.local) /\ Owes(h, tlist, timer)
        /\ \A e \in ToSet(tlist) \cup ToSet(h.local) : e.left <= timeout[e.rq]
    BY <1>1, <1>2 DEF ListsOK, Covered
  <2> QED
    BY <1>1, <1>2, <1>3, <2>1, <2>2, Proceeds
<1>5. \/ done' = Append(done, r) /\ place' = [place EXCEPT ![r] = "softirq"] /\ hw' = hw \ {r}
      \/ place' = [place EXCEPT ![r] = "eh"] /\ UNCHANGED <<done, hw>>
  BY DEF TimedOut
<1> HIDE DEF r
<1>6. /\ \A x \in Requests : x # r => place'[x] = place[x]
      /\ place'[r] \in {"softirq", "eh"}
      /\ place' \in [Requests -> {"free", "queued", "driver", "softirq", "eh"}]
  BY <1>1, <1>3, <1>5 DEF Types
<1>7. /\ done' \in Seq(Requests)
      /\ \A i, j \in DOMAIN done' : done'[i] = done'[j] => i = j
      /\ \A x \in Requests : place'[x] = "softirq" <=> \E i \in DOMAIN done' : done'[i] = x
      /\ hw' \subseteq hw /\ (place'[r] = "softirq" => r \notin hw')
  <2>1. /\ done \in Seq(Requests)
        /\ \A i, j \in DOMAIN done : done[i] = done[j] => i = j
        /\ \A x \in Requests : place[x] = "softirq" <=> \E i \in DOMAIN done : done[i] = x
    BY <1>1 DEF Types, Owned
  <2>2. CASE done' = Append(done, r) /\ place' = [place EXCEPT ![r] = "softirq"] /\ hw' = hw \ {r}
    <3>1. ~\E i \in DOMAIN done : done[i] = r
      BY <1>3, <2>1
    <3>2. place'[r] = "softirq"
      BY <1>1, <1>3, <2>2 DEF Types
    <3>3. /\ done' \in Seq(Requests)
          /\ \A i, j \in DOMAIN done' : done'[i] = done'[j] => i = j
          /\ \A x \in Requests : (\E i \in DOMAIN done' : done'[i] = x)
                                   <=> x = r \/ \E i \in DOMAIN done : done[i] = x
      <4>1. done' = Append(done, r)
        BY <2>2
      <4> QED
        BY <1>3, <2>1, <3>1, <4>1, DoneOnce
    <3> QED
      BY <1>6, <2>1, <2>2, <3>2, <3>3
  <2>3. CASE place' = [place EXCEPT ![r] = "eh"] /\ UNCHANGED <<done, hw>>
    <3>1. place'[r] = "eh"
      BY <1>1, <1>3, <2>3 DEF Types
    <3> QED
      BY <1>3, <1>6, <2>1, <2>3, <3>1
  <2> QED
    BY <1>5, <2>2, <2>3
<1>8. Types'
  BY <1>1, <1>2, <1>4, <1>6, <1>7 DEF Types
<1>9. Owned'
  <2>1. hw \subseteq Requests
    BY <1>1 DEF Types
  <2>2. \A x \in Requests : place'[x] = "driver" => ~complete'[x]
    BY <1>1, <1>2, <1>6 DEF Owned, r
  <2> QED
    BY <1>1, <1>2, <1>3, <1>6, <1>7, <2>1, <2>2 DEF Owned
<1>10. ListsOK'
  <2>1. Listed(tlist) \subseteq Requests /\ Listed(h.local) \subseteq Requests
    BY <1>1, EntryFields DEF Types, Handlers
  <2> QED
    BY <1>1, <1>2, <1>3, <1>4, <1>6, <2>1 DEF ListsOK
<1> QED
  BY <1>4, <1>8, <1>9, <1>10 DEF IInv

\* The driver wants more time: the flag is clear, and the request is neither
\* on a list nor complete until blk_add_timer.
LEMMA ResetInv ==
    ASSUME IInv, ResetTimer
    PROVE  IInv'
<1>1. Types /\ Owned /\ HandlerOK /\ ListsOK /\ Covered
  BY DEF IInv
<1>2. /\ h.pc = "ask" /\ resets[h.rq] < MaxResets
      /\ resets' = [resets EXCEPT ![h.rq] = @ + 1]
      /\ complete' = [complete EXCEPT ![h.rq] = FALSE]
      /\ h' = [h EXCEPT !.pc = "readd"]
      /\ UNCHANGED <<timeout, place, hw, done, tlist, timer, phase, bug>>
  BY DEF ResetTimer
<1>3. /\ h.rq \in Requests /\ complete[h.rq] /\ place[h.rq] = "driver"
      /\ h.rq \notin Listed(tlist) \cup Listed(h.local)
      /\ (~h.last => h.i \in DOMAIN Loop(h, tlist))
  BY <1>1, <1>2 DEF HandlerOK
<1>4. /\ h' \in Handlers /\ h'.pc = "readd" /\ h'.local = h.local /\ h'.last = h.last
      /\ h'.i = h.i /\ h'.next = h.next /\ h'.rq = h.rq
  BY <1>1, <1>2 DEF Types, Handlers
<1>5. /\ \A x \in Requests : x # h.rq => complete'[x] = complete[x]
      /\ ~complete'[h.rq] /\ complete' \in [Requests -> BOOLEAN]
  BY <1>1, <1>2, <1>3 DEF Types
<1>6. Types'
  <2>1. resets' \in [Requests -> 0 .. MaxResets]
    <3>1. resets[h.rq] \in 0 .. MaxResets /\ MaxResets \in Nat
      BY <1>1, <1>3, TimeoutAssumption DEF Types
    <3>2. resets[h.rq] + 1 \in 0 .. MaxResets
      BY <1>2, <3>1
    <3> QED
      BY <1>1, <1>2, <3>2 DEF Types
  <2> QED
    BY <1>1, <1>2, <1>4, <1>5, <2>1 DEF Types
<1>7. Owned'
  BY <1>1, <1>2, <1>3, <1>5 DEF Owned
<1>8. HandlerOK'
  BY <1>2, <1>3, <1>4 DEF HandlerOK, Loop
<1>9. ListsOK'
  BY <1>1, <1>2, <1>3, <1>4, <1>5 DEF ListsOK
<1>10. Covered'
  <2>1. Owes(h, tlist, timer)'
    BY <1>1, <1>2, <1>4 DEF Covered, Owes, Due, Uniform, Loop
  <2> QED
    BY <1>1, <1>2, <1>4, <2>1 DEF Covered
<1> QED
  BY <1>6, <1>7, <1>8, <1>9, <1>10 DEF IInv

\* ... and blk_add_timer: the new entry is behind the scan, which has the
\* next entry already, and the deadline the scan has noted is not after it
\* when all timeouts are the same.
LEMMA ReAddInv ==
    ASSUME IInv, ReAdd
    PROVE  IInv' /\ (bug' => h.pc = "readd" /\ complete[h.rq] /\ h.rq \notin Listed(tlist))
<1>1. Types /\ Owned /\ HandlerOK /\ ListsOK /\ Covered
  BY DEF IInv
<1> DEFINE r == h.rq
           e == [rq |-> r, left |-> timeout[r]]
           tl == Append(tlist, e)
           tm == Armed(timer, r)
<1>2. /\ h.pc = "readd" /\ bug' = BugOnAdd(r) /\ Proceed(h, tl, tm)
      /\ UNCHANGED <<timeout, place, complete, resets, hw, done, phase>>
  BY DEF ReAdd, Added
<1>3. /\ r \in Requests /\ place[r] \in {"driver", "softirq"}
      /\ r \notin Listed(tlist) /\ r \notin Listed(h.local)
      /\ (~h.last => h.i \in DOMAIN Loop(h, tlist))
  BY <1>1, <1>2 DEF HandlerOK
<1>4. /\ h \in Handlers /\ tlist \in Seq(Entries) /\ timer \in Nat \cup {-1} /\ h.local \in Seq(Entries)
      /\ h.next \in Nat \cup {-1} /\ h.i \in Nat
  BY <1>1 DEF Types, Handlers
<1>5. timeout[r] \in Nat /\ HZ \in Nat
  BY <1>1, <1>3, TimeoutNat
<1>6. e \in Entries /\ e.rq = r /\ e.left = timeout[r]
  BY <1>3, <1>5 DEF Entries
<1>7. Uniq(tlist) /\ Uniq(h.local) /\ Listed(tlist) \cap Listed(h.local) = {}
  BY <1>1 DEF ListsOK, Apart
<1>8. /\ tm \in Nat /\ tm <= timeout[r] + HZ /\ (timer # -1 => tm <= timer)
  BY <1>1, <1>3, <1>4, ArmedFacts
<1>9. bug' \in BOOLEAN /\ (bug' => complete[r])
  BY <1>2, <1>3 DEF BugOnAdd
<1> HIDE DEF e, r, tm
<1>10. /\ tl \in Seq(Entries) /\ Uniq(tl) /\ Listed(tl) = Listed(tlist) \cup {r}
       /\ ToSet(tl) = ToSet(tlist) \cup {e}
       /\ DOMAIN tl = 1 .. Len(tlist) + 1 /\ \A k \in DOMAIN tlist : tl[k] = tlist[k]
  BY <1>3, <1>4, <1>6, <1>7, AddEntry
<1> HIDE DEF tl
<1>11. Len(tlist) \in Nat /\ DOMAIN tlist = 1 .. Len(tlist)
  BY <1>4, EntryFields
<1>12. Owes(h, tlist, timer)
  BY <1>1, <1>2 DEF Covered
<1>13. Owes(h, tl, tm)
  <2>1. ASSUME h.last \/ h.local # << >>, h.next = -1
        PROVE  Due(tl, tm) /\ Due(h.local, tm)
    <3>1. Due(tlist, timer) /\ Due(h.local, timer)
      BY <1>12, <2>1 DEF Owes
    <3>2. Due(tlist, tm) /\ Due(h.local, tm)
      BY <1>4, <1>5, <1>8, <3>1, DueEarlier
    <3> QED
      BY <1>5, <1>6, <1>8, <1>10, <3>2 DEF Due
  <2>2. ASSUME h.last \/ h.local # << >>, h.next # -1
        PROVE  h.local = << >> /\ \A x \in ToSet(tl) : Uniform => h.next <= x.left
    <3>1. h.local = << >> /\ \A x \in ToSet(tlist) : Uniform => h.next <= x.left
      BY <1>12, <2>2 DEF Owes
    <3>2. Uniform => h.next <= timeout[r]
      BY <1>3, <1>12, <2>2 DEF Owes, Uniform
    <3> QED
      BY <1>6, <1>10, <3>1, <3>2
  <2>3. ASSUME ~h.last, h.local = << >>, NEW k \in DOMAIN tl, k < h.i
        PROVE  h.next # -1 /\ (Uniform => h.next <= tl[k].left)
    <3>1. h.i \in DOMAIN tlist
      BY <1>3, <2>3 DEF Loop
    <3>2. k \in DOMAIN tlist
      BY <1>4, <1>10, <1>11, <2>3, <3>1
    <3>3. tl[k] = tlist[k]
      BY <1>10, <3>2
    <3> QED
      BY <1>12, <2>3, <3>2, <3>3 DEF Owes
  <2>4. h.next # -1 => \E x \in Requests : h.next <= timeout[x]
    BY <1>12 DEF Owes
  <2> QED
    BY <2>1, <2>2, <2>3, <2>4 DEF Owes
<1>14. ~h.last => h.i \in DOMAIN Loop(h, tl)
  BY <1>3, <1>10, <1>11 DEF Loop
<1>15. \A x \in ToSet(tl) \cup ToSet(h.local) : x.left <= timeout[x.rq]
  BY <1>1, <1>5, <1>6, <1>10 DEF Covered
<1>16. Apart(tl, h.local)
  BY <1>3, <1>7, <1>10 DEF Apart
<1>17. /\ tlist' \in Seq(Entries) /\ timer' \in Nat \cup {-1} /\ h' \in Handlers
       /\ h'.pc \in {"idle", "scan"} /\ HandlerOK' /\ Covered'
       /\ Apart(tlist', h'.local)
       /\ Listed(tlist') \cup Listed(h'.local) = Listed(tl) \cup Listed(h.local)
  <2>1. tm \in Nat \cup {-1} /\ timeout' = timeout
    BY <1>2, <1>8
  <2> QED
    BY <1>1, <1>2, <1>4, <1>10, <1>13, <1>14, <1>15, <1>16, <2>1, Proceeds
<1>18. Types'
  BY <1>1, <1>2, <1>9, <1>17 DEF Types
<1>19. Owned'
  BY <1>1, <1>2 DEF Owned
<1>20. ListsOK'
  BY <1>1, <1>2, <1>3, <1>10, <1>17 DEF ListsOK, r
<1> QED
  BY <1>2, <1>3, <1>9, <1>17, <1>18, <1>19, <1>20 DEF IInv, r

\* One turn of the loop of blk_rq_timed_out_timer.
LEMMA ScanTimeoutsInv ==
    ASSUME IInv, ScanTimeouts
    PROVE  IInv'
<1>1. Types /\ Owned /\ HandlerOK /\ ListsOK /\ Covered
  BY DEF IInv
<1> DEFINE e == tlist[h.i]
           hh == [h EXCEPT !.rq = e.rq, !.last = h.i = Len(tlist)]
           tl == RemoveAt(tlist, h.i)
           h2 == [hh EXCEPT !.i = @ + 1, !.next = IF @ = -1 \/ @ > e.left THEN e.left ELSE @]
<1>2. /\ h.pc = "scan" /\ h.local = << >>
      /\ UNCHANGED <<timeout, place, resets, hw, done, phase, bug>>
  BY DEF ScanTimeouts
<1>3. \/ e.left > 0 /\ Proceed(h2, tlist, timer) /\ UNCHANGED complete
      \/ e.left = 0 /\ complete[e.rq] /\ Proceed(hh, tl, timer) /\ UNCHANGED complete
      \/ /\ e.left = 0 /\ ~complete[e.rq] /\ complete' = [complete EXCEPT ![e.rq] = TRUE]
         /\ tlist' = tl /\ h' = [hh EXCEPT !.pc = "ask"] /\ UNCHANGED timer
  BY DEF ScanTimeouts
<1>4. /\ h \in Handlers /\ tlist \in Seq(Entries) /\ timer \in Nat \cup {-1}
      /\ h.next \in Nat \cup {-1} /\ ~h.last
  BY <1>1, <1>2 DEF Types, Handlers, HandlerOK
<1>5. /\ h.i \in DOMAIN tlist /\ h.i \in Nat \ {0}
      /\ Len(tlist) \in Nat /\ DOMAIN tlist = 1 .. Len(tlist)
  BY <1>1, <1>2, <1>4, EntryFields DEF HandlerOK, Loop, Types, Handlers
<1>6. /\ e.rq \in Requests /\ e.left \in Nat /\ e.rq \in Listed(tlist) /\ e \in ToSet(tlist)
  BY <1>4, <1>5, EntryFields DEF ToSet, Listed
<1>7. /\ Uniq(tlist) /\ Listed(h.local) = {} /\ ToSet(h.local) = {} /\ Uniq(h.local)
  BY <1>1, <1>2, NoEntries DEF ListsOK, Apart
<1>8. /\ tl \in Seq(Entries) /\ Uniq(tl) /\ Listed(tl) = Listed(tlist) \ {e.rq}
      /\ ToSet(tl) \subseteq ToSet(tlist) /\ Len(tl) = Len(tlist) - 1
      /\ \A k \in DOMAIN tl : k < h.i => k \in DOMAIN tlist /\ tl[k] = tlist[k]
  <2>1. \A i \in DOMAIN tlist :
          /\ RemoveAt(tlist, i) \in Seq(Entries) /\ Uniq(RemoveAt(tlist, i))
          /\ Listed(RemoveAt(tlist, i)) = Listed(tlist) \ {tlist[i].rq}
          /\ ToSet(RemoveAt(tlist, i)) \subseteq ToSet(tlist)
          /\ Len(RemoveAt(tlist, i)) = Len(tlist) - 1
          /\ \A k \in DOMAIN RemoveAt(tlist, i) :
                k < i => k \in DOMAIN tlist /\ RemoveAt(tlist, i)[k] = tlist[k]
    BY <1>4, <1>7, Unlink
  <2> QED
    BY <1>5, <2>1
<1>9. DOMAIN tl = 1 .. Len(tlist) - 1
  BY <1>8, EntryFields
<1>10. /\ hh \in Handlers /\ hh.rq = e.rq /\ hh.local = << >> /\ hh.i = h.i /\ hh.next = h.next
       /\ hh.last \in BOOLEAN /\ (hh.last <=> h.i = Len(tlist)) /\ hh.pc = "scan"
  BY <1>2, <1>4, <1>6 DEF Handlers
<1>11. /\ h2 \in Handlers /\ h2.rq = e.rq /\ h2.local = << >> /\ h2.i = h.i + 1
       /\ h2.next = (IF h.next = -1 \/ h.next > e.left THEN e.left ELSE h.next)
       /\ h2.last \in BOOLEAN /\ (h2.last <=> h.i = Len(tlist))
  <2>1. h.i + 1 \in Nat \ {0} /\ (IF h.next = -1 \/ h.next > e.left THEN e.left ELSE h.next) \in Nat \cup {-1}
    BY <1>4, <1>5, <1>6
  <2> QED
    BY <1>2, <1>4, <1>6, <2>1 DEF Handlers
<1>12. /\ \A k \in DOMAIN tlist : k < h.i => h.next # -1 /\ (Uniform => h.next <= tlist[k].left)
       /\ h.next # -1 => \E x \in Requests : h.next <= timeout[x]
       /\ \A x \in ToSet(tlist) : x.left <= timeout[x.rq]
  BY <1>1, <1>2, <1>4 DEF Covered, Owes
<1>13. \A k \in DOMAIN tlist : tlist[k].left \in Nat
  BY <1>4, EntryFields
<1>14. timeout[e.rq] \in Nat /\ e.left <= timeout[e.rq]
  BY <1>1, <1>6, <1>12, TimeoutNat
<1>15. e.left = tlist[h.i].left
  OBVIOUS
<1> HIDE DEF hh, h2, tl, e
<1>16. Owes(h2, tlist, timer)
  <2>1. h2.next \in Nat /\ h2.next <= e.left /\ (h.next # -1 => h2.next <= h.next)
    BY <1>4, <1>6, <1>11
  <2>2. \A k \in DOMAIN tlist : k <= h.i => (Uniform => h2.next <= tlist[k].left)
    <3> SUFFICES ASSUME NEW k \in DOMAIN tlist, k <= h.i, Uniform PROVE h2.next <= tlist[k].left
      OBVIOUS
    <3>1. CASE k = h.i
      BY <1>15, <2>1, <3>1
    <3>2. CASE k < h.i
      BY <1>4, <1>12, <1>13, <2>1, <3>2
    <3> QED
      BY <1>5, <3>1, <3>2
  <2>3. h2.last => \A x \in ToSet(tlist) : Uniform => h2.next <= x.left
    BY <1>5, <1>11, <2>2 DEF ToSet
  <2>4. \A k \in DOMAIN tlist : k < h2.i => h2.next # -1 /\ (Uniform => h2.next <= tlist[k].left)
    BY <1>5, <1>11, <2>1, <2>2
  <2>5. h2.next <= timeout[e.rq]
    BY <1>6, <1>14, <2>1
  <2> QED
    BY <1>6, <1>11, <2>1, <2>3, <2>4, <2>5 DEF Owes
<1>17. ~h2.last => h2.i \in DOMAIN Loop(h2, tlist)
  BY <1>5, <1>11 DEF Loop
<1>18. Owes(hh, tl, timer)
  <2>1. hh.last /\ hh.next = -1 => ToSet(tl) = {}
    <3> SUFFICES ASSUME hh.last, hh.next = -1 PROVE ToSet(tl) = {}
      OBVIOUS
    <3>1. h.i = 1
      <4>1. CASE h.i > 1
        <5>1. 1 \in DOMAIN tlist /\ 1 < h.i
          BY <1>5, <4>1
        <5> QED
          BY <1>10, <1>12, <5>1
      <4> QED
        BY <1>5, <4>1
    <3>2. DOMAIN tl = {}
      <4>1. Len(tlist) - 1 = 0
        BY <1>10, <3>1
      <4>2. 1 .. 0 = {}
        OBVIOUS
      <4> QED
        BY <1>9, <4>1, <4>2
    <3> QED
      BY <3>2 DEF ToSet
  <2>2. \A k \in DOMAIN tl : k < h.i => h.next # -1 /\ (Uniform => h.next <= tl[k].left)
    BY <1>8, <1>12
  <2>3. hh.last /\ hh.next # -1 => \A x \in ToSet(tl) : Uniform => hh.next <= x.left
    BY <1>5, <1>9, <1>10, <2>2 DEF ToSet
  <2> QED
    BY <1>10, <1>12, <2>1, <2>2, <2>3, NoEntries DEF Owes, Due
<1>19. ~hh.last => hh.i \in DOMAIN Loop(hh, tl)
  BY <1>5, <1>9, <1>10 DEF Loop
<1>20. \A x \in ToSet(tl) : x.left <= timeout[x.rq]
  BY <1>8, <1>12
<1>21. /\ \A x \in Listed(tlist) : place[x] \in {"driver", "softirq"}
       /\ \A x \in Requests : place[x] = "driver" => ~complete[x]
       /\ \A x \in Requests : place[x] = "driver" => x \in Listed(tlist)
  BY <1>1, <1>2, <1>7 DEF ListsOK, Owned
<1>22. CASE e.left > 0 /\ Proceed(h2, tlist, timer) /\ UNCHANGED complete
  <2>1. Apart(tlist, h2.local) /\ ToSet(h2.local) = {} /\ Listed(h2.local) = {}
    BY <1>2, <1>7, <1>11 DEF Apart
  <2>2. /\ tlist' \in Seq(Entries) /\ timer' \in Nat \cup {-1} /\ h' \in Handlers
        /\ h'.pc \in {"idle", "scan"} /\ HandlerOK' /\ Covered'
        /\ Apart(tlist', h'.local)
        /\ Listed(tlist') \cup Listed(h'.local) = Listed(tlist)
    BY <1>1, <1>2, <1>4, <1>11, <1>12, <1>16, <1>17, <1>22, <2>1, Proceeds
  <2>3. Types'
    BY <1>1, <1>2, <1>22, <2>2 DEF Types
  <2>4. Owned'
    BY <1>1, <1>2, <1>21, <1>22 DEF Owned
  <2>5. ListsOK'
    BY <1>2, <1>21, <1>22, <2>2 DEF ListsOK
  <2> QED
    BY <2>2, <2>3, <2>4, <2>5 DEF IInv
<1>23. CASE e.left = 0 /\ complete[e.rq] /\ Proceed(hh, tl, timer) /\ UNCHANGED complete
  <2>1. Apart(tl, hh.local) /\ ToSet(hh.local) = {} /\ Listed(hh.local) = {}
    BY <1>2, <1>7, <1>8, <1>10 DEF Apart
  <2>2. /\ tlist' \in Seq(Entries) /\ timer' \in Nat \cup {-1} /\ h' \in Handlers
        /\ h'.pc \in {"idle", "scan"} /\ HandlerOK' /\ Covered'
        /\ Apart(tlist', h'.local)
        /\ Listed(tlist') \cup Listed(h'.local) = Listed(tl)
    BY <1>1, <1>2, <1>4, <1>8, <1>10, <1>18, <1>19, <1>20, <1>23, <2>1, Proceeds
  <2>3. Types'
    BY <1>1, <1>2, <1>23, <2>2 DEF Types
  <2>4. Owned'
    BY <1>1, <1>2, <1>21, <1>23 DEF Owned
  <2>5. ListsOK'
    BY <1>2, <1>8, <1>21, <1>23, <2>2 DEF ListsOK
  <2> QED
    BY <2>2, <2>3, <2>4, <2>5 DEF IInv
<1>24. CASE /\ e.left = 0 /\ ~complete[e.rq] /\ complete' = [complete EXCEPT ![e.rq] = TRUE]
            /\ tlist' = tl /\ h' = [hh EXCEPT !.pc = "ask"] /\ UNCHANGED timer
  <2>1. /\ h' \in Handlers /\ h'.pc = "ask" /\ h'.rq = e.rq /\ h'.local = << >> /\ h'.i = hh.i
        /\ h'.next = hh.next /\ h'.last = hh.last
    BY <1>10, <1>24 DEF Handlers
  <2>2. /\ \A x \in Requests : x # e.rq => complete'[x] = complete[x]
        /\ complete'[e.rq] /\ complete' \in [Requests -> BOOLEAN]
    BY <1>1, <1>6, <1>24 DEF Types
  <2>3. place[e.rq] = "driver"
    BY <1>1, <1>6, <1>21, <1>24 DEF Owned
  <2>4. Types'
    BY <1>1, <1>2, <1>8, <1>24, <2>1, <2>2 DEF Types
  <2>5. Owned'
    BY <1>1, <1>2, <1>6, <1>21, <2>1, <2>2, <2>3 DEF Owned
  <2>6. HandlerOK'
    BY <1>2, <1>6, <1>8, <1>10, <1>19, <1>24, <2>1, <2>2, <2>3, NoEntries DEF HandlerOK, Loop
  <2>7. ListsOK'
    BY <1>2, <1>6, <1>8, <1>21, <1>24, <2>1, <2>2, NoEntries DEF ListsOK, Apart
  <2>8. Owes(h, tlist, timer)'
    BY <1>2, <1>10, <1>18, <1>24, <2>1 DEF Owes, Due, Uniform
  <2>9. Covered'
    BY <1>2, <1>20, <1>24, <2>1, <2>8, NoEntries DEF Covered
  <2> QED
    BY <2>4, <2>5, <2>6, <2>7, <2>9 DEF IInv
<1> QED
  BY <1>3, <1>22, <1>23, <1>24

\* One turn of the loop of blk_abort_queue.
LEMMA ScanAbortsInv ==
    ASSUME IInv, ScanAborts
    PROVE  IInv'
<1>1. Types /\ Owned /\ HandlerOK /\ ListsOK /\ Covered
  BY DEF IInv
<1> DEFINE lo == h.local
           e == lo[h.i]
           hh == [h EXCEPT !.rq = e.rq, !.last = h.i = Len(lo)]
           l2 == RemoveAt(lo, h.i)
           h2 == [hh EXCEPT !.i = @ + 1]
           h3 == [hh EXCEPT !.pc = "ask", !.local = l2]
<1>2. /\ h.pc = "scan" /\ lo # << >>
      /\ UNCHANGED <<timeout, place, resets, hw, done, phase, bug>>
  BY DEF ScanAborts
<1>3. \/ complete[e.rq] /\ Proceed(h2, tlist, timer) /\ UNCHANGED complete
      \/ /\ ~complete[e.rq] /\ complete' = [complete EXCEPT ![e.rq] = TRUE]
         /\ h' = [hh EXCEPT !.pc = "ask", !.local = RemoveAt(@, h.i)] /\ UNCHANGED <<tlist, timer>>
  BY DEF ScanAborts
<1>4. /\ h \in Handlers /\ lo \in Seq(Entries) /\ tlist \in Seq(Entries) /\ timer \in Nat \cup {-1}
      /\ h.i \in Nat \ {0} /\ ~h.last
  BY <1>1, <1>2 DEF Types, Handlers, HandlerOK
<1>5. /\ h.i \in DOMAIN lo /\ Len(lo) \in Nat /\ DOMAIN lo = 1 .. Len(lo)
  BY <1>1, <1>2, <1>4, EntryFields DEF HandlerOK, Loop
<1>6. e.rq \in Requests /\ e.rq \in Listed(lo)
  BY <1>4, <1>5, EntryFields DEF Listed
<1>7. /\ Uniq(tlist) /\ Uniq(lo) /\ Listed(tlist) \cap Listed(lo) = {}
      /\ \A x \in Listed(tlist) \cup Listed(lo) : place[x] \in {"driver", "softirq"}
      /\ \A x \in Requests : place[x] = "driver" => ~complete[x] /\ x \in Listed(tlist) \cup Listed(lo)
  BY <1>1, <1>2 DEF ListsOK, Apart, Owned
<1>8. /\ l2 \in Seq(Entries) /\ Uniq(l2) /\ Listed(l2) = Listed(lo) \ {e.rq}
      /\ ToSet(l2) \subseteq ToSet(lo) /\ Len(l2) = Len(lo) - 1
  <2>1. \A i \in DOMAIN lo :
          /\ RemoveAt(lo, i) \in Seq(Entries) /\ Uniq(RemoveAt(lo, i))
          /\ Listed(RemoveAt(lo, i)) = Listed(lo) \ {lo[i].rq}
          /\ ToSet(RemoveAt(lo, i)) \subseteq ToSet(lo)
          /\ Len(RemoveAt(lo, i)) = Len(lo) - 1
    BY <1>4, <1>7, Unlink
  <2> QED
    BY <1>5, <2>1
<1>9. DOMAIN l2 = 1 .. Len(lo) - 1
  BY <1>8, EntryFields
<1>10. /\ hh \in Handlers /\ hh.rq = e.rq /\ hh.local = lo /\ hh.i = h.i /\ hh.next = h.next
       /\ hh.last \in BOOLEAN /\ (hh.last <=> h.i = Len(lo)) /\ hh.pc = "scan"
  BY <1>2, <1>4, <1>6 DEF Handlers
<1>11. /\ h2 \in Handlers /\ h2.local = lo /\ h2.i = h.i + 1 /\ h2.next = h.next
       /\ (h2.last <=> h.i = Len(lo))
  <2>1. h.i + 1 \in Nat \ {0}
    BY <1>4
  <2> QED
    BY <1>10, <2>1 DEF Handlers
<1>12. /\ h3 \in Handlers /\ h3.pc = "ask" /\ h3.rq = e.rq /\ h3.local = l2 /\ h3.i = h.i
       /\ h3.next = h.next /\ h3.last \in BOOLEAN /\ (h3.last <=> h.i = Len(lo))
  BY <1>8, <1>10 DEF Handlers
<1>13. [hh EXCEPT !.pc = "ask", !.local = RemoveAt(@, h.i)] = h3
  BY <1>10 DEF Handlers
<1>14. /\ h.next = -1 /\ Due(tlist, timer) /\ Due(lo, timer)
       /\ \A x \in ToSet(tlist) \cup ToSet(lo) : x.left <= timeout[x.rq]
  BY <1>1, <1>2 DEF Covered, Owes
<1> HIDE DEF lo, e, hh, l2, h2, h3
<1>15. CASE complete[e.rq] /\ Proceed(h2, tlist, timer) /\ UNCHANGED complete
  <2>1. Owes(h2, tlist, timer) /\ Apart(tlist, h2.local)
    BY <1>2, <1>7, <1>11, <1>14 DEF Owes, Apart
  <2>2. ~h2.last => h2.i \in DOMAIN Loop(h2, tlist)
    BY <1>2, <1>4, <1>5, <1>11 DEF Loop
  <2>3. /\ tlist' \in Seq(Entries) /\ timer' \in Nat \cup {-1} /\ h' \in Handlers
        /\ h'.pc \in {"idle", "scan"} /\ HandlerOK' /\ Covered'
        /\ Apart(tlist', h'.local)
        /\ Listed(tlist') \cup Listed(h'.local) = Listed(tlist) \cup Listed(lo)
    BY <1>1, <1>2, <1>4, <1>11, <1>14, <1>15, <2>1, <2>2, Proceeds
  <2>4. Types'
    BY <1>1, <1>2, <1>15, <2>3 DEF Types
  <2>5. Owned'
    BY <1>1, <1>2, <1>7, <1>15 DEF Owned
  <2>6. ListsOK'
    BY <1>2, <1>7, <1>15, <2>3 DEF ListsOK
  <2> QED
    BY <2>3, <2>4, <2>5, <2>6 DEF IInv
<1>16. CASE /\ ~complete[e.rq] /\ complete' = [complete EXCEPT ![e.rq] = TRUE]
            /\ h' = h3 /\ UNCHANGED <<tlist, timer>>
  <2>1. /\ \A x \in Requests : x # e.rq => complete'[x] = complete[x]
        /\ complete'[e.rq] /\ complete' \in [Requests -> BOOLEAN]
    BY <1>1, <1>6, <1>16 DEF Types
  <2>2. place[e.rq] = "driver"
    BY <1>1, <1>6, <1>7, <1>16 DEF Owned
  <2>3. Types'
    BY <1>1, <1>2, <1>12, <1>16, <2>1 DEF Types
  <2>4. Owned'
    BY <1>1, <1>2, <1>6, <1>7, <1>12, <1>16, <2>1, <2>2 DEF Owned
  <2>5. ~h3.last => h3.i \in DOMAIN l2 /\ l2 # << >>
    <3>1. ~h3.last => h3.i \in DOMAIN l2
      BY <1>5, <1>9, <1>12
    <3> QED
      BY <3>1
  <2>6. e.rq \notin Listed(tlist) \cup Listed(l2)
    BY <1>6, <1>7, <1>8
  <2>7. HandlerOK'
    BY <1>2, <1>6, <1>12, <1>16, <2>1, <2>2, <2>5, <2>6 DEF HandlerOK, Loop
  <2>8. ListsOK'
    BY <1>2, <1>6, <1>7, <1>8, <1>12, <1>16, <2>1 DEF ListsOK, Apart
  <2>9. Due(l2, timer)
    BY <1>8, <1>14 DEF Due
  <2>10. Owes(h3, tlist, timer)
    BY <1>12, <1>14, <2>5, <2>9 DEF Owes
  <2>11. Owes(h, tlist, timer)'
    BY <1>2, <1>16, <2>10 DEF Owes, Due, Uniform
  <2>12. Covered'
    BY <1>2, <1>8, <1>12, <1>14, <1>16, <2>11 DEF Covered
  <2> QED
    BY <2>3, <2>4, <2>7, <2>8, <2>12 DEF IInv
<1> QED
  BY <1>3, <1>13, <1>15, <1>16

-----------------------------------------------------------------------------
(* The theorems *)

\* A step of a queue that has not stopped keeps the invariant, and only one
\* step fires a BUG_ON.
LEMMA NextInv ==
    ASSUME IInv, Next
    PROVE  IInv' /\ (bug' => h.pc = "readd" /\ complete[h.rq] /\ h.rq \notin Listed(tlist))
<1>1. ~bug
  BY DEF Next
<1>2. CASE Tick
  BY <1>1, <1>2, TickInv DEF Tick
<1>3. CASE blk_done_softirq
  BY <1>1, <1>3, SoftirqInv DEF blk_done_softirq, blk_finish_request, blk_requeue_request
<1>4. CASE blk_rq_timed_out_timer
  BY <1>1, <1>4, ExpireInv DEF blk_rq_timed_out_timer
<1>5. CASE blk_abort_queue
  BY <1>5, AbortQueueInv
<1>6. CASE ScanTimeouts
  BY <1>1, <1>6, ScanTimeoutsInv DEF ScanTimeouts
<1>7. CASE ScanAborts
  BY <1>1, <1>7, ScanAbortsInv DEF ScanAborts
<1>8. CASE TimedOut
  BY <1>1, <1>8, TimedOutInv DEF TimedOut
<1>9. CASE ResetTimer
  BY <1>1, <1>9, ResetInv DEF ResetTimer
<1>10. CASE ReAdd
  BY <1>10, ReAddInv
<1>11. ASSUME NEW r \in Requests, blk_rq_init(r) PROVE IInv' /\ ~bug'
  BY <1>1, <1>11, RqInitInv DEF blk_rq_init
<1>12. ASSUME NEW r \in Requests, blk_start_request(r) PROVE IInv' /\ ~bug'
  BY <1>12, StartInv
<1>13. ASSUME NEW r \in Requests, blk_complete_request(r) PROVE IInv' /\ ~bug'
  BY <1>1, <1>13, CompleteInv DEF blk_complete_request
<1>14. ASSUME NEW r \in Requests, Lost(r) PROVE IInv' /\ ~bug'
  BY <1>1, <1>14, LostInv DEF Lost
<1>15. ASSUME NEW r \in Requests, ErrorHandled(r) PROVE IInv' /\ ~bug'
  BY <1>1, <1>15, ErrorHandledInv DEF ErrorHandled, blk_finish_request, blk_requeue_request
<1>16. ASSUME NEW r \in Requests, blk_abort_request(r) PROVE IInv' /\ ~bug'
  BY <1>1, <1>16, AbortInv DEF blk_abort_request
<1>17. ASSUME NEW r \in Requests, Refused(r) PROVE IInv' /\ ~bug'
  BY <1>1, <1>17, RefusedInv DEF Refused, blk_requeue_request
<1> QED
  BY <1>2, <1>3, <1>4, <1>5, <1>6, <1>7, <1>8, <1>9, <1>10, <1>11, <1>12, <1>13, <1>14, <1>15,
     <1>16, <1>17 DEF Next, HandlerStep

\* Nothing changes when nothing happens.
LEMMA StutterInv ==
    ASSUME IInv, UNCHANGED vars
    PROVE  IInv'
<1>1. UNCHANGED <<timeout, place, complete, resets, hw, done, tlist, timer, phase, h, bug>>
  BY DEF vars
<1>2. Types' /\ Owned' /\ HandlerOK' /\ ListsOK'
  BY <1>1 DEF IInv, Types, Owned, HandlerOK, ListsOK
<1>3. Covered'
  BY <1>1, CoveredSame DEF IInv
<1> QED
  BY <1>2, <1>3 DEF IInv

\* The invariant holds in every state.
LEMMA Invariant == Safety => []IInv
<1>1. Init => IInv
  BY InitInv
<1>2. IInv /\ [Next]_vars => IInv'
  BY NextInv, StutterInv
<1> QED
  BY <1>1, <1>2, PTL DEF Safety

\* What the invariant says of the properties of the runs.
LEMMA Implied ==
    ASSUME IInv
    PROVE  OneOwner /\ TimersExact /\ TimerCovers
<1>1. Types /\ Owned /\ HandlerOK /\ ListsOK /\ Covered
  BY DEF IInv
<1>2. OneOwner
  <2>1. TypeOK
    BY <1>1 DEF Types, HandlerOK, TypeOK, Handlers, Loop
  <2> QED
    BY <1>1, <2>1 DEF OneOwner, Owned, HandlerOK
<1>3. TimersExact
  <2>1. tlist \in Seq(Entries) /\ h.local \in Seq(Entries) /\ Apart(tlist, h.local)
    BY <1>1 DEF Types, Handlers, ListsOK
  <2> DEFINE s == tlist \o h.local
  <2>2. Uniq(s) /\ Listed(s) = Listed(tlist) \cup Listed(h.local)
    BY <2>1, Splice DEF Apart
  <2>3. NoStaleTimer
    <3>1. \A i, j \in DOMAIN s : s[i].rq = s[j].rq => i = j
      BY <2>2 DEF Uniq
    <3>2. \A i \in DOMAIN s : place[s[i].rq] \in {"driver", "softirq"}
      <4>1. \A i \in DOMAIN s : s[i].rq \in Listed(s)
        BY DEF Listed
      <4> HIDE DEF s
      <4> QED
        BY <1>1, <2>2, <4>1 DEF ListsOK
    <3> QED
      BY <3>1, <3>2 DEF NoStaleTimer
  <2>4. Watched
    BY <1>1, <2>2 DEF Watched, ListsOK
  <2> QED
    BY <2>3, <2>4 DEF TimersExact
<1>4. TimerCovers
  BY <1>1 DEF TimerCovers, Unlocked, Covered, Due, ToSet
<1> QED
  BY <1>2, <1>3, <1>4

\* REQ_ATOM_COMPLETE gives every request one owner: the interrupt of
\* blk_complete_request and the timeout handlers never both get it.
THEOREM SafetyOneOwner == Spec => []OneOwner
<1>1. Spec => Safety
  BY DEF Spec
<1>2. IInv => OneOwner
  BY Implied
<1> QED
  BY <1>1, <1>2, Invariant, PTL

\* At every step of the timeout handlers the timeout list and the local list
\* of blk_abort_queue hold what they should: one entry for a request that was
\* started and not completed, and none for one that is over.
THEOREM SafetyTimersExact == Spec => []TimersExact
<1>1. Spec => Safety
  BY DEF Spec
<1>2. IInv => TimersExact
  BY Implied
<1> QED
  BY <1>1, <1>2, Invariant, PTL

\* Whenever the lock is free, q->timeout runs while a request is watched, and
\* for equal timeouts expires within a second of the earliest deadline.
THEOREM SafetyTimerCovers == Spec => []TimerCovers
<1>1. Spec => Safety
  BY DEF Spec
<1>2. IInv => TimerCovers
  BY Implied
<1> QED
  BY <1>1, <1>2, Invariant, PTL

\* The BUG_ONs of blk_add_timer fire in one race only: an answer of the
\* hardware between blk_clear_rq_complete and blk_add_timer.
THEOREM StepsBugOnlyInReset == Spec => BugOnlyInReset
<1>1. Spec => Safety
  BY DEF Spec
<1>2. IInv /\ [Next]_vars
        => [bug' => h.pc = "readd" /\ complete[h.rq] /\ h.rq \notin Listed(tlist)]_vars
  BY NextInv
<1>3. Safety => [][Next]_vars
  BY DEF Safety
<1> QED
  BY <1>1, <1>2, <1>3, Invariant, PTL DEF BugOnlyInReset
=============================================================================
