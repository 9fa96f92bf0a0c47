----------------------------- MODULE PoolProofs -----------------------------
(***************************************************************************)
(* Theorems about the request pool and the switch of schedulers, for every *)
(* set of tasks, limit, batch and workload.                                *)
(***************************************************************************)
EXTENDS ElvSwitch, FiniteSetTheorems, TLAPS

\* One more task in a set of tasks.
LEMMA CardPlus ==
    ASSUME NEW S \in SUBSET Threads, NEW t \in Threads, t \notin S
    PROVE  Cardinality(S \cup {t}) = Cardinality(S) + 1
BY FS_AddElement, FS_Subset, PoolAssumption

\* One task less.
LEMMA CardMinus ==
    ASSUME NEW S \in SUBSET Threads, NEW t \in S
    PROVE  Cardinality(S \ {t}) = Cardinality(S) - 1
BY FS_RemoveElement, FS_Subset, PoolAssumption

\* A set of tasks has a cardinality.
LEMMA CardNat ==
    ASSUME NEW S \in SUBSET Threads
    PROVE  Cardinality(S) \in Nat
BY FS_CardinalityType, FS_Subset, PoolAssumption

\* A subset has no larger one.
LEMMA CardMono ==
    ASSUME NEW S \in SUBSET Threads, NEW T \in SUBSET S
    PROVE  Cardinality(T) <= Cardinality(S)
BY FS_Subset, PoolAssumption

\* Nobody is counted only if nobody is there.
LEMMA CardZero ==
    ASSUME NEW S \in SUBSET Threads, Cardinality(S) = 0
    PROVE  S = {}
BY FS_EmptySet, FS_Subset, PoolAssumption

\* The thresholds of blk_queue_congestion_threshold lie below the limit, and
\* the one at which a queue stops being congested below the other; the hard
\* limit of get_request lies above it.
LEMMA Thresholds ==
    ASSUME NEW n \in Nat, n >= 1
    PROVE  /\ CongestionOn(n) \in Nat /\ CongestionOff(n) \in Nat
           /\ 1 <= CongestionOff(n) /\ CongestionOff(n) <= CongestionOn(n)
           /\ CongestionOn(n) <= n
           /\ (3 * n) \div 2 >= n
BY DEF CongestionOn, CongestionOff
-----------------------------------------------------------------------------
\* Where a switch is determines the flag and which instances exist.
SwitchState ==
    /\ sw # "idle" => elvswitch
    /\ sw \in {"drain", "attached"} => ops = Slots
    /\ sw = "undo" => ops = {Spare(elevator)}
    /\ sw \in {"idle", "end"} => ops = {elevator}
    /\ sw = "idle" => ~elvswitch

\* The inductive invariant.
IInv == /\ SwitchTypeOK
        /\ CountsExact
        /\ FlagsExact
        /\ WaitersQueued
        /\ NoIdleSlot
        /\ PrivMatches
        /\ SwitchState

\* What one slot of a direction holds.
LEMMA Slotted ==
    ASSUME TypeOK
    PROVE  /\ Dirs = {"sync", "async"} /\ Slots = {"a", "b"} /\ Owners = {"a", "b", "none"}
           /\ \A d \in Dirs, o \in Owners : live[d][o] \in Nat
           /\ \A d \in Dirs : count[d] \in Nat
           /\ \A d \in Dirs : Allocating(d) \in SUBSET Threads /\ Cardinality(Allocating(d)) \in Nat
           /\ AllocatingPriv \in SUBSET Threads /\ Cardinality(AllocatingPriv) \in Nat
           /\ \A d \in Dirs : Awake(d) \in SUBSET Threads /\ Cardinality(Awake(d)) \in Nat
           /\ nr >= 2
           /\ \A d \in Dirs : live[d]["a"] \in Nat /\ live[d]["b"] \in Nat /\ live[d]["none"] \in Nat
<1>1. Dirs = {"sync", "async"} /\ Slots = {"a", "b"} /\ Owners = {"a", "b", "none"}
  BY DEF Dirs, Slots, Owners
<1>2. \A d \in Dirs, o \in Owners : live[d][o] \in Nat
  BY DEF TypeOK
<1>3. \A d \in Dirs : count[d] \in Nat
  BY DEF TypeOK
<1>4. \A d \in Dirs : Allocating(d) \in SUBSET Threads /\ Awake(d) \in SUBSET Threads
  BY DEF Allocating, Awake
<1>5. AllocatingPriv \in SUBSET Threads
  BY DEF AllocatingPriv
<1>6. nr >= 2
  BY PoolAssumption DEF TypeOK
<1>7. \A d \in Dirs : live[d]["a"] \in Nat /\ live[d]["b"] \in Nat /\ live[d]["none"] \in Nat
  BY <1>1, <1>2
<1> QED
  BY <1>1, <1>2, <1>3, <1>4, <1>5, <1>6, <1>7, CardNat

\* The invariant holds at first.
LEMMA InitInv == Init => IInv
<1> SUFFICES ASSUME Init PROVE IInv
  OBVIOUS
<1> USE PoolAssumption DEF Init, PoolInit
<1>1. SwitchTypeOK
  <2>1. NoCall \in [dir : Dirs, wait : BOOLEAN, priv : BOOLEAN, ioc : BOOLEAN]
    BY DEF NoCall, Dirs
  <2>2. [nr |-> 0, fresh |-> FALSE] \in [nr : 0 .. Batch, fresh : BOOLEAN]
    OBVIOUS
  <2>3. ioc \in [Threads -> [nr : 0 .. Batch, fresh : BOOLEAN]]
    BY <2>2, Zenon
  <2>4. call \in [Threads -> [dir : Dirs, wait : BOOLEAN, priv : BOOLEAN, ioc : BOOLEAN]]
    BY <2>1, Zenon
  <2>5. wait \in [Dirs -> Seq(Threads)] /\ live \in [Dirs -> [Owners -> Nat]]
    OBVIOUS
  <2> QED
    BY <2>3, <2>4, <2>5 DEF SwitchTypeOK, TypeOK, Slots
<1>2. CountsExact
  <2>1. \A d \in Dirs : Allocating(d) = {}
    BY DEF Allocating
  <2>2. AllocatingPriv = {}
    BY DEF AllocatingPriv
  <2>3. \A d \in Dirs : live[d]["a"] = 0 /\ live[d]["b"] = 0 /\ live[d]["none"] = 0
    BY DEF Owners, Slots
  <2>4. "sync" \in Dirs /\ "async" \in Dirs
    BY DEF Dirs
  <2>5. Cardinality(AllocatingPriv) = 0 /\ \A d \in Dirs : Cardinality(Allocating(d)) = 0
    BY <2>1, <2>2, FS_EmptySet
  <2> QED
    BY <2>3, <2>4, <2>5 DEF CountsExact
<1>3. FlagsExact
  <2>1. nr >= 1 /\ nr \in Nat
    OBVIOUS
  <2>2. CongestionOn(nr) >= 1
    BY <2>1 DEF CongestionOn
  <2>3. \A d \in Dirs : ~full[d] /\ ~congested[d] /\ count[d] = 0
    OBVIOUS
  <2>4. \A d \in Dirs : count[d] < nr /\ count[d] < CongestionOn(nr)
    BY <2>1, <2>2 DEF CongestionOn
  <2>5. \A d \in Dirs : ~(count[d] >= nr)
    BY <2>1
  <2> HIDE DEF Init, PoolInit
  <2> QED
    BY <2>3, <2>4, <2>5 DEF FlagsExact
<1>4. WaitersQueued /\ NoIdleSlot
  BY DEF WaitersQueued, NoIdleSlot
<1>5. PrivMatches /\ SwitchState
  <2>1. \A d \in Dirs, s \in Slots : live[d][s] = 0
    BY DEF Owners
  <2>2. sw = "idle" /\ ops = {elevator} /\ ~elvswitch
    OBVIOUS
  <2> HIDE DEF Init, PoolInit
  <2>3. PrivMatches
    BY <2>1, <2>2 DEF PrivMatches
  <2>4. SwitchState
    BY <2>2 DEF SwitchState
  <2> QED
    BY <2>3, <2>4
<1> QED
  BY <1>1, <1>2, <1>3, <1>4, <1>5 DEF IInv
-----------------------------------------------------------------------------
(* Waking *)

\* One task of each direction of D is taken off its queue; p is the place of
\* the others.
Woke(D, p) ==
    /\ wait' = Dequeued(D)
    /\ pc' = [t \in Threads |-> IF t \in WakeUp(D) THEN "woken" ELSE p[t]]

\* p is where the tasks are, but for one that is neither asleep nor awake.
Places(p) ==
    /\ p \in [Threads -> {"run", "alloc", "sleep", "woken", "retry"}]
    /\ \A t \in Threads : p[t] = pc[t] \/ (pc[t] = "alloc" /\ p[t] = "run")

\* Who is woken was asleep, at the head of the queue of its direction.
LEMMA WakeUpSleeper ==
    ASSUME TypeOK, WaitersQueued, NEW D \in SUBSET Dirs
    PROVE  /\ \A t \in WakeUp(D) : t \in Threads /\ pc[t] = "sleep" /\ call[t].dir \in D
           /\ \A d \in D : wait[d] # << >> =>
                /\ Head(wait[d]) \in WakeUp(D)
                /\ Head(wait[d]) = wait[d][1] /\ 1 \in DOMAIN wait[d]
           /\ \A t \in WakeUp(D) : wait[call[t].dir] # << >> /\ t = Head(wait[call[t].dir])
<1>1. \A d \in D : wait[d] # << >> => /\ Head(wait[d]) = wait[d][1]
                                      /\ 1 \in DOMAIN wait[d]
                                      /\ wait[d][1] \in Threads
  BY DEF TypeOK
<1>2. \A d \in D : wait[d] # << >> => pc[Head(wait[d])] = "sleep" /\ call[Head(wait[d])].dir = d
  BY <1>1 DEF WaitersQueued
<1>3. \A t \in WakeUp(D) : \E d \in D : wait[d] # << >> /\ t = Head(wait[d])
  BY DEF WakeUp
<1>4. \A d \in D : wait[d] # << >> => Head(wait[d]) \in WakeUp(D)
  BY DEF WakeUp
<1> QED
  BY <1>1, <1>2, <1>3, <1>4

\* What is left of the queues.
LEMMA DequeuedSeq ==
    ASSUME TypeOK, NEW D \in SUBSET Dirs
    PROVE  /\ Dequeued(D) \in [Dirs -> Seq(Threads)]
           /\ \A d \in Dirs : IF d \in D /\ wait[d] # << >>
                 THEN /\ \A i \in DOMAIN Dequeued(D)[d] :
                            i + 1 \in DOMAIN wait[d] /\ Dequeued(D)[d][i] = wait[d][i + 1]
                      /\ \A i \in DOMAIN wait[d] : i # 1 =>
                            i - 1 \in DOMAIN Dequeued(D)[d]
                 ELSE Dequeued(D)[d] = wait[d]
           /\ \A d \in Dirs : Dequeued(D)[d] # << >> => wait[d] # << >>
<1>1. ASSUME NEW d \in Dirs, wait[d] # << >>
      PROVE  /\ Tail(wait[d]) \in Seq(Threads)
             /\ \A i \in DOMAIN Tail(wait[d]) : i + 1 \in DOMAIN wait[d] /\ Tail(wait[d])[i] = wait[d][i + 1]
             /\ \A i \in DOMAIN wait[d] : i # 1 => i - 1 \in DOMAIN Tail(wait[d])
  <2>1. wait[d] \in Seq(Threads)
    BY DEF TypeOK
  <2>2. DOMAIN wait[d] = 1 .. Len(wait[d]) /\ Len(wait[d]) \in Nat
    BY <2>1
  <2>3. Tail(wait[d]) \in Seq(Threads) /\ Len(Tail(wait[d])) = Len(wait[d]) - 1
    BY <2>1, <1>1
  <2>4. DOMAIN Tail(wait[d]) = 1 .. Len(wait[d]) - 1
    BY <2>3
  <2>5. \A i \in DOMAIN Tail(wait[d]) : Tail(wait[d])[i] = wait[d][i + 1]
    BY <2>1, <2>4, <1>1
  <2> QED
    BY <2>2, <2>3, <2>4, <2>5
<1>2. \A d \in Dirs : wait[d] \in Seq(Threads)
  BY DEF TypeOK
<1>3. \A d \in Dirs : Dequeued(D)[d] = IF d \in D /\ wait[d] # << >> THEN Tail(wait[d]) ELSE wait[d]
  BY DEF Dequeued
<1>4. Dequeued(D) \in [Dirs -> Seq(Threads)]
  BY <1>1, <1>2 DEF Dequeued
<1>5. \A d \in Dirs : Dequeued(D)[d] # << >> => wait[d] # << >>
  BY <1>3
<1>6. ASSUME NEW d \in Dirs, d \in D, wait[d] # << >>
      PROVE  /\ \A i \in DOMAIN Dequeued(D)[d] :
                    i + 1 \in DOMAIN wait[d] /\ Dequeued(D)[d][i] = wait[d][i + 1]
             /\ \A i \in DOMAIN wait[d] : i # 1 => i - 1 \in DOMAIN Dequeued(D)[d]
  <2>1. Dequeued(D)[d] = Tail(wait[d])
    BY <1>3, <1>6
  <2> QED
    BY <1>1, <1>6, <2>1
<1>7. ASSUME NEW d \in Dirs, ~(d \in D /\ wait[d] # << >>)
      PROVE  Dequeued(D)[d] = wait[d]
  BY <1>3, <1>7
<1> QED
  BY <1>4, <1>5, <1>6, <1>7

\* The queues hold the sleepers after a wakeup.
LEMMA WokeQueues ==
    ASSUME TypeOK, WaitersQueued, NEW D \in SUBSET Dirs, NEW p, Places(p), Woke(D, p),
           \A t \in Threads : pc[t] = "sleep" => call'[t].dir = call[t].dir
    PROVE  WaitersQueued'
<1> SUFFICES ASSUME NEW d \in Dirs
             PROVE  /\ \A i \in DOMAIN wait'[d] : pc'[wait'[d][i]] = "sleep" /\ call'[wait'[d][i]].dir = d
                    /\ \A i, j \in DOMAIN wait'[d] : wait'[d][i] = wait'[d][j] => i = j
                    /\ \A t \in Threads : pc'[t] = "sleep" /\ call'[t].dir = d =>
                          \E i \in DOMAIN wait'[d] : wait'[d][i] = t
  BY DEF WaitersQueued
<1> DEFINE q == wait[d]
           r == wait'[d]
<1>1. /\ \A i \in DOMAIN q : q[i] \in Threads /\ pc[q[i]] = "sleep" /\ call[q[i]].dir = d
      /\ \A i, j \in DOMAIN q : q[i] = q[j] => i = j
      /\ \A t \in Threads : pc[t] = "sleep" /\ call[t].dir = d => \E i \in DOMAIN q : q[i] = t
      /\ DOMAIN q \subseteq Nat
  BY DEF WaitersQueued, TypeOK
<1>2. \A t \in Threads : pc'[t] = IF t \in WakeUp(D) THEN "woken" ELSE p[t]
  BY DEF Woke
<1>3. \A t \in Threads : p[t] = "sleep" <=> pc[t] = "sleep"
  BY DEF Places
<1>4. wait' = Dequeued(D) /\ r \in Seq(Threads)
  BY DequeuedSeq DEF Woke
<1>5. DOMAIN r \subseteq Nat
  BY <1>4
<1>6. CASE d \in D /\ q # << >>
  <2>1. /\ \A i \in DOMAIN r : i + 1 \in DOMAIN q /\ r[i] = q[i + 1]
        /\ \A i \in DOMAIN q : i # 1 => i - 1 \in DOMAIN r
    BY <1>4, <1>6, DequeuedSeq
  <2>2. q[1] \in WakeUp(D) /\ 1 \in DOMAIN q
    BY <1>6, WakeUpSleeper
  <2>3. \A t \in WakeUp(D) : call[t].dir = d => t = q[1]
    BY WakeUpSleeper
  <2>4. \A i \in DOMAIN r : i + 1 # 1
    BY <1>4
  <2>5. \A i \in DOMAIN r : r[i] \notin WakeUp(D)
    BY <2>1, <2>2, <2>3, <2>4, <1>1
  <2>6. \A i \in DOMAIN r : pc'[r[i]] = "sleep" /\ call'[r[i]].dir = d
    BY <2>1, <2>5, <1>1, <1>2, <1>3
  <2>7. \A i, j \in DOMAIN r : r[i] = r[j] => i = j
    BY <2>1, <1>1, <1>5
  <2>8. ASSUME NEW t \in Threads, pc'[t] = "sleep", call'[t].dir = d
        PROVE  \E i \in DOMAIN r : r[i] = t
    <3>1. pc[t] = "sleep" /\ call[t].dir = d /\ t \notin WakeUp(D)
      BY <2>8, <1>2, <1>3
    <3>2. PICK i \in DOMAIN q : q[i] = t
      BY <3>1, <1>1
    <3>3. i # 1
      BY <3>1, <3>2, <2>2
    <3>4. i - 1 \in DOMAIN r /\ (i - 1) + 1 = i
      BY <3>3, <2>1, <1>1
    <3> QED
      BY <3>2, <3>4, <2>1
  <2> QED
    BY <2>6, <2>7, <2>8
<1>7. CASE ~(d \in D /\ q # << >>)
  <2>1. r = q
    BY <1>4, <1>7, DequeuedSeq
  <2>2. \A t \in WakeUp(D) : call[t].dir # d
    BY <1>7, WakeUpSleeper
  <2>3. \A t \in Threads : pc'[t] = "sleep" => pc[t] = "sleep"
    BY <1>2, <1>3
  <2> QED
    BY <2>1, <2>2, <2>3, <1>1, <1>2, <1>3
<1> QED
  BY <1>6, <1>7

\* A wakeup turns a sleeper into a task that is awake, and changes nothing
\* about the tasks that allocate.
LEMMA WokeTasks ==
    ASSUME TypeOK, WaitersQueued, NEW D \in SUBSET Dirs, NEW p, Places(p), Woke(D, p),
           \A t \in Threads : pc[t] # "alloc" => call'[t].dir = call[t].dir
    PROVE  /\ \A t \in Threads : pc'[t] = "alloc" <=> p[t] = "alloc"
           /\ \A d \in Dirs : /\ Cardinality(Awake(d)') \in Nat
                              /\ Cardinality(Awake(d)') >= Cardinality(Awake(d))
           /\ \A d \in D : wait[d] # << >> => Cardinality(Awake(d)') >= Cardinality(Awake(d)) + 1
           /\ wait' \in [Dirs -> Seq(Threads)]
           /\ pc' \in [Threads -> {"run", "alloc", "sleep", "woken", "retry"}]
<1>1. \A t \in Threads : pc'[t] = IF t \in WakeUp(D) THEN "woken" ELSE p[t]
  BY DEF Woke
<1>2. \A t \in Threads : t \in WakeUp(D) => pc[t] = "sleep" /\ p[t] = "sleep"
  BY WakeUpSleeper DEF Places
<1>3. \A d \in Dirs : Awake(d) \in SUBSET Threads /\ Awake(d)' \in SUBSET Threads
  BY DEF Awake
<1>4. \A d \in Dirs : Awake(d) \subseteq Awake(d)'
  BY <1>1, <1>2 DEF Awake, Places
<1>5. ASSUME NEW d \in D, wait[d] # << >>
      PROVE  Cardinality(Awake(d)') >= Cardinality(Awake(d)) + 1
  <2> DEFINE h == Head(wait[d])
  <2>1. h \in WakeUp(D) /\ h \in Threads /\ pc[h] = "sleep"
    BY <1>5, WakeUpSleeper
  <2>2. call[h].dir = d
    BY <1>5, WakeUpSleeper DEF WaitersQueued
  <2>3. h \notin Awake(d)
    BY <2>1 DEF Awake
  <2>4. h \in Awake(d)'
    BY <2>1, <2>2, <1>1 DEF Awake
  <2>5. Awake(d) \cup {h} \in SUBSET Awake(d)'
    BY <2>4, <1>4
  <2>6. Cardinality(Awake(d) \cup {h}) <= Cardinality(Awake(d)')
    BY <2>5, <1>3, CardMono
  <2>7. Cardinality(Awake(d) \cup {h}) = Cardinality(Awake(d)) + 1
    BY <2>1, <2>3, <1>3, CardPlus
  <2> QED
    BY <2>6, <2>7
<1>6. wait' \in [Dirs -> Seq(Threads)]
  BY DequeuedSeq DEF Woke
<1>7. pc' \in [Threads -> {"run", "alloc", "sleep", "woken", "retry"}]
  BY DEF Woke, Places
<1>8. \A t \in Threads : pc'[t] = "alloc" <=> p[t] = "alloc"
  BY <1>1, <1>2
<1>9. \A d \in Dirs : /\ Cardinality(Awake(d)') \in Nat
                      /\ Cardinality(Awake(d)') >= Cardinality(Awake(d))
  <2> TAKE d \in Dirs
  <2>1. Cardinality(Awake(d)') \in Nat /\ Cardinality(Awake(d)) \in Nat
    BY <1>3, CardNat
  <2>2. Cardinality(Awake(d)) <= Cardinality(Awake(d)')
    BY <1>3, <1>4, CardMono
  <2> QED
    BY <2>1, <2>2
<1> QED
  BY <1>5, <1>6, <1>7, <1>8, <1>9

\* What freed_request keeps: the flags in step with the limits, the queues
\* those of the sleepers, and no slot idle while somebody sleeps.
LEMMA Freed ==
    ASSUME TypeOK, FlagsExact, WaitersQueued, NoIdleSlot,
           NEW d \in Dirs, NEW priv \in BOOLEAN, NEW p, Places(p), freed_request(d, priv, p),
           count[d] > 0, nr' = nr,
           \A t \in Threads : pc[t] # "alloc" => call'[t].dir = call[t].dir
    PROVE  /\ FlagsExact' /\ WaitersQueued' /\ NoIdleSlot'
           /\ count' = [count EXCEPT ![d] = @ - 1]
           /\ count' \in [Dirs -> Nat]
           /\ full' \in [Dirs -> BOOLEAN]
           /\ congested' \in [Dirs -> BOOLEAN]
           /\ wait' \in [Dirs -> Seq(Threads)]
           /\ pc' \in [Threads -> {"run", "alloc", "sleep", "woken", "retry"}]
           /\ \A t \in Threads : pc'[t] = "alloc" <=> p[t] = "alloc"
<1> DEFINE D == Roomy(count', d)
<1>1. count' = [count EXCEPT ![d] = @ - 1]
  BY DEF freed_request
<1>2. \A x \in Dirs : count[x] \in Nat /\ count'[x] = IF x = d THEN count[d] - 1 ELSE count[x]
  BY <1>1 DEF TypeOK
<1>3. count' \in [Dirs -> Nat]
  BY <1>1, <1>2 DEF TypeOK
<1>4. Checked(d) \in SUBSET Dirs /\ d \in Checked(d)
  BY DEF Checked, Other, Dirs
<1>5. D \in SUBSET Dirs
  BY <1>4 DEF Roomy
<1>6. \A x \in Dirs : x \in D <=> x \in Checked(d) /\ count'[x] + 1 <= nr
  BY <1>4 DEF Roomy
<1>7. Woke(D, p)
  BY DEF freed_request, Woke
<1>8. /\ WaitersQueued'
      /\ \A x \in Dirs : Cardinality(Awake(x)') \in Nat /\ Cardinality(Awake(x)') >= Cardinality(Awake(x))
      /\ \A x \in D : wait[x] # << >> => Cardinality(Awake(x)') >= Cardinality(Awake(x)) + 1
      /\ wait' \in [Dirs -> Seq(Threads)]
      /\ pc' \in [Threads -> {"run", "alloc", "sleep", "woken", "retry"}]
      /\ \A t \in Threads : pc'[t] = "alloc" <=> p[t] = "alloc"
  BY <1>5, <1>7, WokeTasks, WokeQueues
<1>9. /\ nr \in Nat /\ nr >= 2 /\ nr >= BLKDEV_MIN_RQ /\ BLKDEV_MIN_RQ \in Nat
      /\ CongestionOn(nr) \in Nat /\ CongestionOff(nr) \in Nat
      /\ CongestionOff(nr) <= CongestionOn(nr) /\ CongestionOn(nr) <= nr
  BY Thresholds, PoolAssumption DEF TypeOK
<1>10. FlagsExact'
  <2> SUFFICES ASSUME NEW x \in Dirs
               PROVE  /\ full'[x] <=> count'[x] >= nr
                      /\ congested'[x] => count'[x] >= CongestionOff(nr)
                      /\ ~congested'[x] => count'[x] < CongestionOn(nr)
    BY DEF FlagsExact, CongestionOn, CongestionOff
  <2>1. full'[x] <=> full[x] /\ x \notin D
    BY <1>1 DEF freed_request
  <2>2. congested'[x] <=> congested[x] /\ (x \in Checked(d) => count'[x] >= CongestionOff(nr))
    BY <1>1 DEF freed_request
  <2>3. /\ full[x] <=> count[x] >= nr
        /\ congested[x] => count[x] >= CongestionOff(nr)
        /\ ~congested[x] => count[x] < CongestionOn(nr)
    BY DEF FlagsExact
  <2>4. count'[x] \in Nat /\ count[x] \in Nat /\ count'[x] <= count[x]
        /\ count[x] <= count'[x] + 1
        /\ (x \notin Checked(d) => count'[x] = count[x])
    BY <1>2, <1>3, <1>4
  <2>5. full'[x] <=> count'[x] >= nr
    BY <2>1, <2>3, <2>4, <1>6, <1>9
  <2>6. congested'[x] => count'[x] >= CongestionOff(nr)
    BY <2>2, <2>3, <2>4
  <2>7. ~congested'[x] => count'[x] < CongestionOn(nr)
    BY <2>2, <2>3, <2>4, <1>9
  <2> QED
    BY <2>5, <2>6, <2>7
<1>11. NoIdleSlot'
  <2> SUFFICES ASSUME NEW x \in Dirs, wait'[x] # << >>
               PROVE  count'[x] + Cardinality(Awake(x)') >= BLKDEV_MIN_RQ
    BY DEF NoIdleSlot
  <2>1. wait[x] # << >>
    BY <1>5, <1>7, DequeuedSeq DEF Woke
  <2>2. count[x] + Cardinality(Awake(x)) >= BLKDEV_MIN_RQ /\ Cardinality(Awake(x)) \in Nat
    BY <2>1, Slotted DEF NoIdleSlot
  <2>3. CASE x # d
    BY <2>2, <2>3, <1>2, <1>8, <1>9
  <2>4. CASE x = d /\ x \in D
    <3>1. Cardinality(Awake(x)') >= Cardinality(Awake(x)) + 1
      BY <2>1, <2>4, <1>8
    <3> QED
      BY <3>1, <2>2, <2>4, <1>2, <1>8, <1>9
  <2>5. CASE x = d /\ x \notin D
    <3>1. ~(count'[x] + 1 <= nr)
      BY <2>5, <1>6, <1>4
    <3> QED
      BY <3>1, <1>3, <1>8, <1>9
  <2> QED
    BY <2>3, <2>4, <2>5
<1>12. full' \in [Dirs -> BOOLEAN] /\ congested' \in [Dirs -> BOOLEAN]
  BY DEF freed_request
<1> QED
  BY <1>1, <1>3, <1>8, <1>10, <1>11, <1>12
-----------------------------------------------------------------------------
(* The steps of the pool *)

\* What the counters say about a request that exists and a task that
\* allocates one.
LEMMA Counted ==
    ASSUME TypeOK, CountsExact
    PROVE  /\ \A d \in Dirs, o \in Owners :
                  live[d][o] > 0 => count[d] > 0 /\ (o # "none" => elvpriv > 0)
           /\ \A t \in Threads :
                  pc[t] = "alloc" => count[call[t].dir] > 0 /\ (call[t].priv => elvpriv > 0)
           /\ \A t \in Threads : call[t].dir \in Dirs /\ call[t].priv \in BOOLEAN
<1>1. \A d \in Dirs, o \in Owners : live[d][o] > 0 => count[d] > 0
  BY Slotted DEF CountsExact
<1>2. ASSUME NEW d \in Dirs, NEW o \in Owners, live[d][o] > 0, o # "none"
      PROVE  elvpriv > 0
  BY <1>2, Slotted DEF CountsExact
<1>3. \A t \in Threads : call[t].dir \in Dirs /\ call[t].priv \in BOOLEAN
  BY DEF TypeOK
<1>4. ASSUME NEW t \in Threads, pc[t] = "alloc"
      PROVE  count[call[t].dir] > 0
  <2> DEFINE d == call[t].dir
  <2>1. d \in Dirs /\ t \in Allocating(d)
    BY <1>3, <1>4 DEF Allocating
  <2>2. Cardinality(Allocating(d)) \in Nat /\ Cardinality(Allocating(d)) # 0
    BY <2>1, Slotted, CardZero
  <2>3. count[d] = live[d]["none"] + live[d]["a"] + live[d]["b"] + Cardinality(Allocating(d))
    BY <2>1 DEF CountsExact
  <2>4. live[d]["a"] \in Nat /\ live[d]["b"] \in Nat /\ live[d]["none"] \in Nat
    BY <2>1, Slotted
  <2> QED
    BY <2>2, <2>3, <2>4
<1>5. ASSUME NEW t \in Threads, pc[t] = "alloc", call[t].priv
      PROVE  elvpriv > 0
  <2>1. t \in AllocatingPriv
    BY <1>5 DEF AllocatingPriv
  <2>2. Cardinality(AllocatingPriv) \in Nat /\ Cardinality(AllocatingPriv) # 0
    BY <2>1, Slotted, CardZero
  <2>3. elvpriv = live["sync"]["a"] + live["sync"]["b"] + live["async"]["a"] + live["async"]["b"]
                    + Cardinality(AllocatingPriv)
    BY DEF CountsExact
  <2>4. "sync" \in Dirs /\ "async" \in Dirs
    BY DEF Dirs
  <2>5. /\ live["sync"]["a"] \in Nat /\ live["sync"]["b"] \in Nat
        /\ live["async"]["a"] \in Nat /\ live["async"]["b"] \in Nat
    BY <2>4, Slotted
  <2> QED
    BY <2>2, <2>3, <2>5
<1> QED
  BY <1>1, <1>2, <1>3, <1>4, <1>5

\* A request is put.
LEMMA PutInv ==
    ASSUME IInv, NEW d \in Dirs, NEW o \in Owners, __blk_put_request(d, o), UNCHANGED <<sw, ops>>
    PROVE  IInv'
<1> USE DEF IInv, SwitchTypeOK
<1>1. live[d][o] > 0 /\ count[d] > 0 /\ (o # "none" => elvpriv > 0)
  BY Counted DEF __blk_put_request
<1>2. Places(pc)
  BY DEF Places, TypeOK
<1>3. freed_request(d, o # "none", pc) /\ nr' = nr /\ call' = call
  BY DEF __blk_put_request
<1>4. /\ FlagsExact' /\ WaitersQueued' /\ NoIdleSlot'
      /\ count' = [count EXCEPT ![d] = @ - 1]
      /\ count' \in [Dirs -> Nat]
      /\ full' \in [Dirs -> BOOLEAN]
      /\ congested' \in [Dirs -> BOOLEAN]
      /\ wait' \in [Dirs -> Seq(Threads)]
      /\ pc' \in [Threads -> {"run", "alloc", "sleep", "woken", "retry"}]
      /\ \A t \in Threads : pc'[t] = "alloc" <=> pc[t] = "alloc"
  BY <1>1, <1>2, <1>3, Freed
<1>5. elvpriv' = elvpriv - (IF o # "none" THEN 1 ELSE 0)
  BY <1>3 DEF freed_request
<1>6. \A x \in Dirs, s \in Owners :
          live'[x][s] = IF x = d /\ s = o THEN live[x][s] - 1 ELSE live[x][s]
  BY DEF __blk_put_request, TypeOK
<1>7. live' \in [Dirs -> [Owners -> Nat]]
  BY <1>1, <1>6 DEF __blk_put_request, TypeOK
<1>8. SwitchTypeOK'
  <2>1. /\ nr' = nr /\ starved' = starved /\ call' = call /\ ioc' = ioc
        /\ elevator' = elevator /\ elvswitch' = elvswitch /\ sw' = sw /\ ops' = ops
    BY DEF __blk_put_request
  <2>2. elvpriv' \in Nat
    BY <1>1, <1>5 DEF TypeOK
  <2>3. TypeOK'
    BY <1>4, <1>7, <2>1, <2>2 DEF TypeOK
  <2> QED
    BY <2>1, <2>3
<1>9. CountsExact'
  <2>1. \A x \in Dirs : Allocating(x)' = Allocating(x)
    BY <1>3, <1>4 DEF Allocating
  <2>2. AllocatingPriv' = AllocatingPriv
    BY <1>3, <1>4 DEF AllocatingPriv
  <2>3. ASSUME NEW x \in Dirs
        PROVE  count'[x] = live'[x]["none"] + live'[x]["a"] + live'[x]["b"] + Cardinality(Allocating(x)')
    <3>1. count[x] = live[x]["none"] + live[x]["a"] + live[x]["b"] + Cardinality(Allocating(x))
      BY DEF CountsExact
    <3>2. count'[x] = IF x = d THEN count[x] - 1 ELSE count[x]
      BY <1>4 DEF TypeOK
    <3> QED
      BY <3>1, <3>2, <2>1, <1>6, Slotted
  <2>4. elvpriv' = live'["sync"]["a"] + live'["sync"]["b"] + live'["async"]["a"] + live'["async"]["b"]
                     + Cardinality(AllocatingPriv')
    <3>1. elvpriv = live["sync"]["a"] + live["sync"]["b"] + live["async"]["a"] + live["async"]["b"]
                      + Cardinality(AllocatingPriv)
      BY DEF CountsExact
    <3>2. /\ Dirs = {"sync", "async"} /\ Owners = {"a", "b", "none"}
          /\ Cardinality(AllocatingPriv) \in Nat
          /\ \A x \in Dirs : live[x]["a"] \in Nat /\ live[x]["b"] \in Nat
      BY Slotted
    <3>3. \A x \in {"sync", "async"}, s \in {"a", "b"} :
             live'[x][s] = IF x = d /\ s = o THEN live[x][s] - 1 ELSE live[x][s]
      BY <1>6, <3>2
    <3>4. d \in {"sync", "async"} /\ o \in {"a", "b", "none"}
      BY <3>2
    <3>8. /\ live["sync"]["a"] \in Int /\ live["sync"]["b"] \in Int
          /\ live["async"]["a"] \in Int /\ live["async"]["b"] \in Int
          /\ Cardinality(AllocatingPriv) \in Int
      BY <3>2
    <3> HIDE DEF IInv, SwitchTypeOK
    <3>5. CASE o = "none"
      BY <1>5, <2>2, <3>1, <3>2, <3>3, <3>5
    <3>6. CASE o = "a"
      <4>1. /\ live'["sync"]["b"] = live["sync"]["b"] /\ live'["async"]["b"] = live["async"]["b"]
            /\ elvpriv' = elvpriv - 1
        BY <1>5, <3>3, <3>6
      <4>2. CASE d = "sync"
        <5>1. live'["sync"]["a"] = live["sync"]["a"] - 1 /\ live'["async"]["a"] = live["async"]["a"]
          BY <3>3, <3>6, <4>2
        <5> QED
          BY <2>2, <3>1, <3>8, <4>1, <5>1
      <4>3. CASE d = "async"
        <5>1. live'["sync"]["a"] = live["sync"]["a"] /\ live'["async"]["a"] = live["async"]["a"] - 1
          BY <3>3, <3>6, <4>3
        <5> QED
          BY <2>2, <3>1, <3>8, <4>1, <5>1
      <4> QED
        BY <3>4, <4>2, <4>3
    <3>7. CASE o = "b"
      <4>1. /\ live'["sync"]["a"] = live["sync"]["a"] /\ live'["async"]["a"] = live["async"]["a"]
            /\ elvpriv' = elvpriv - 1
        BY <1>5, <3>3, <3>7
      <4>2. CASE d = "sync"
        <5>1. live'["sync"]["b"] = live["sync"]["b"] - 1 /\ live'["async"]["b"] = live["async"]["b"]
          BY <3>3, <3>7, <4>2
        <5> QED
          BY <2>2, <3>1, <3>8, <4>1, <5>1
      <4>3. CASE d = "async"
        <5>1. live'["sync"]["b"] = live["sync"]["b"] /\ live'["async"]["b"] = live["async"]["b"] - 1
          BY <3>3, <3>7, <4>3
        <5> QED
          BY <2>2, <3>1, <3>8, <4>1, <5>1
      <4> QED
        BY <3>4, <4>2, <4>3
    <3> QED
      BY <3>4, <3>5, <3>6, <3>7
  <2> QED
    BY <2>3, <2>4 DEF CountsExact
<1>10. elevator' = elevator /\ elvswitch' = elvswitch /\ elvpriv \in Nat
  BY DEF __blk_put_request, TypeOK
<1>11. PrivMatches'
  <2>1. \A x \in Dirs, s \in Slots : live'[x][s] > 0 => live[x][s] > 0
    BY <1>6, Slotted
  <2>2. ASSUME elvpriv = 0 PROVE elvpriv' = 0
    <3>1. o = "none"
      BY <2>2, <1>1
    <3> QED
      BY <3>1, <2>2, <1>5
  <2> QED
    BY <2>1, <2>2, <1>10 DEF PrivMatches
<1>12. SwitchState'
  BY <1>10 DEF SwitchState, Spare
<1> QED
  BY <1>4, <1>8, <1>9, <1>11, <1>12

\* An allocation fails.
LEMMA AllocFailedInv ==
    ASSUME IInv, NEW t \in Threads, AllocFailed(t), UNCHANGED <<sw, ops>>
    PROVE  IInv'
<1> USE DEF IInv, SwitchTypeOK
<1> DEFINE d == call[t].dir
           priv == call[t].priv
           p == [pc EXCEPT ![t] = "run"]
<1>1. pc[t] = "alloc" /\ d \in Dirs /\ priv \in BOOLEAN /\ count[d] > 0 /\ (priv => elvpriv > 0)
  BY Counted DEF AllocFailed
<1>2. Places(p)
  BY <1>1 DEF Places, TypeOK
<1>3. freed_request(d, priv, p) /\ nr' = nr /\ call' = [call EXCEPT ![t] = NoCall]
  BY DEF AllocFailed
<1> HIDE DEF p, d, priv
<1>a. \A u \in Threads : u # t => call'[u] = call[u]
  BY <1>3 DEF TypeOK
<1>b. \A u \in Threads : pc[u] # "alloc" => call'[u].dir = call[u].dir
  BY <1>1, <1>a
<1>4. /\ FlagsExact' /\ WaitersQueued' /\ NoIdleSlot'
      /\ count' = [count EXCEPT ![d] = @ - 1]
      /\ count' \in [Dirs -> Nat]
      /\ full' \in [Dirs -> BOOLEAN]
      /\ congested' \in [Dirs -> BOOLEAN]
      /\ wait' \in [Dirs -> Seq(Threads)]
      /\ pc' \in [Threads -> {"run", "alloc", "sleep", "woken", "retry"}]
      /\ \A u \in Threads : pc'[u] = "alloc" <=> p[u] = "alloc"
  BY <1>1, <1>2, <1>3, <1>b, Freed
<1>5. elvpriv' = elvpriv - (IF priv THEN 1 ELSE 0)
  BY <1>3 DEF freed_request
<1>g. elvpriv \in Nat /\ (priv => elvpriv' = elvpriv - 1) /\ (~priv => elvpriv' = elvpriv)
  BY <1>5 DEF TypeOK
<1>c. \A u \in Threads : pc'[u] = "alloc" <=> pc[u] = "alloc" /\ u # t
  BY <1>4 DEF TypeOK, p
<1>6. live' = live /\ elevator' = elevator /\ elvswitch' = elvswitch /\ ioc' = ioc /\ elvpriv \in Nat
  BY DEF AllocFailed, TypeOK
<1>7. NoCall \in [dir : Dirs, wait : BOOLEAN, priv : BOOLEAN, ioc : BOOLEAN]
  BY DEF NoCall, Dirs
<1>d. elvpriv' \in Nat
  BY <1>1, <1>5, <1>6
<1>e. call' \in [Threads -> [dir : Dirs, wait : BOOLEAN, priv : BOOLEAN, ioc : BOOLEAN]]
  BY <1>3, <1>7 DEF TypeOK
<1>f. starved' \in [Dirs -> BOOLEAN]
  <2>1. starved' = [starved EXCEPT ![d] = @ \/ count[d] = 1]
    BY DEF AllocFailed, d
  <2> QED
    BY <2>1 DEF TypeOK
<1>8. SwitchTypeOK'
  BY <1>3, <1>4, <1>6, <1>d, <1>e, <1>f DEF TypeOK
<1>9. CountsExact'
  <2>1. \A x \in Dirs : Allocating(x)' = IF x = d THEN Allocating(x) \ {t} ELSE Allocating(x)
    BY <1>a, <1>c DEF Allocating, d
  <2>2. AllocatingPriv' = IF priv THEN AllocatingPriv \ {t} ELSE AllocatingPriv
    BY <1>1, <1>a, <1>c DEF AllocatingPriv, priv
  <2>3. t \in Allocating(d) /\ (priv => t \in AllocatingPriv)
    BY <1>1 DEF Allocating, AllocatingPriv, d, priv
  <2>4. \A x \in Dirs : Cardinality(Allocating(x)') = IF x = d THEN Cardinality(Allocating(x)) - 1
                                                      ELSE Cardinality(Allocating(x))
    BY <2>1, <2>3, Slotted, CardMinus
  <2>5. Cardinality(AllocatingPriv') = IF priv THEN Cardinality(AllocatingPriv) - 1
                                       ELSE Cardinality(AllocatingPriv)
    BY <2>2, <2>3, Slotted, CardMinus, <1>1
  <2>6. ASSUME NEW x \in Dirs
        PROVE  count'[x] = live'[x]["none"] + live'[x]["a"] + live'[x]["b"] + Cardinality(Allocating(x)')
    <3>1. count[x] = live[x]["none"] + live[x]["a"] + live[x]["b"] + Cardinality(Allocating(x))
      BY DEF CountsExact
    <3>2. count'[x] = IF x = d THEN count[x] - 1 ELSE count[x]
      BY <1>4 DEF TypeOK
    <3>3. live[x]["a"] \in Nat /\ live[x]["b"] \in Nat /\ live[x]["none"] \in Nat
          /\ Cardinality(Allocating(x)) \in Nat /\ live' = live
      BY <1>6, Slotted
    <3>4. Cardinality(Allocating(x)') = IF x = d THEN Cardinality(Allocating(x)) - 1
                                        ELSE Cardinality(Allocating(x))
      BY <2>4
    <3> HIDE DEF IInv, SwitchTypeOK
    <3> QED
      BY <3>1, <3>2, <3>3, <3>4
  <2>7. elvpriv' = live'["sync"]["a"] + live'["sync"]["b"] + live'["async"]["a"] + live'["async"]["b"]
                     + Cardinality(AllocatingPriv')
    <3>1. elvpriv = live["sync"]["a"] + live["sync"]["b"] + live["async"]["a"] + live["async"]["b"]
                      + Cardinality(AllocatingPriv)
      BY DEF CountsExact
    <3>2. "sync" \in Dirs /\ "async" \in Dirs
      BY DEF Dirs
    <3>3. /\ live["sync"]["a"] \in Nat /\ live["sync"]["b"] \in Nat
          /\ live["async"]["a"] \in Nat /\ live["async"]["b"] \in Nat
          /\ Cardinality(AllocatingPriv) \in Nat /\ live' = live
      BY <3>2, <1>6, Slotted
    <3>4. CASE priv
      BY <3>1, <3>3, <3>4, <2>5, <1>g
    <3>5. CASE ~priv
      BY <3>1, <3>3, <3>5, <2>5, <1>g
    <3> QED
      BY <3>4, <3>5
  <2> QED
    BY <2>6, <2>7 DEF CountsExact
<1>10. ASSUME elvpriv = 0 PROVE elvpriv' = 0
  <2>1. ~priv
    BY <1>10, <1>1
  <2> QED
    BY <2>1, <1>10, <1>g
<1>11. PrivMatches' /\ SwitchState'
  BY <1>6, <1>10 DEF PrivMatches, SwitchState, Spare
<1> QED
  BY <1>4, <1>8, <1>9, <1>11

\* Batching keeps to its range.
LEMMA SetBatchingType ==
    ASSUME NEW c \in [nr : 0 .. Batch, fresh : BOOLEAN]
    PROVE  ioc_set_batching(c) \in [nr : 0 .. Batch, fresh : BOOLEAN]
BY PoolAssumption DEF ioc_set_batching

\* get_request keeps the flags in step, granted or refused, and the types of
\* what it marks.
LEMMA MarkInv ==
    ASSUME TypeOK, FlagsExact, NEW t \in Threads, NEW d \in Dirs, MarkFlags(t, d), nr' = nr,
           \/ ~TurnedAway(t, d) /\ ~OverLimit(d) /\ count' = [count EXCEPT ![d] = @ + 1]
           \/ (TurnedAway(t, d) \/ OverLimit(d)) /\ count' = count
    PROVE  /\ FlagsExact'
           /\ full' \in [Dirs -> BOOLEAN] /\ congested' \in [Dirs -> BOOLEAN]
           /\ ioc' \in [Threads -> [nr : 0 .. Batch, fresh : BOOLEAN]]
           /\ TurnedAway(t, d) \/ OverLimit(d) => count[d] >= nr
<1> DEFINE mark == Fills(d) /\ ~TurnedAway(t, d)
           over == count[d] + 1 >= CongestionOn(nr) /\ ~TurnedAway(t, d)
<1>1. /\ nr \in Nat /\ nr >= 2
      /\ CongestionOn(nr) \in Nat /\ CongestionOff(nr) \in Nat
      /\ CongestionOff(nr) <= CongestionOn(nr) /\ CongestionOn(nr) <= nr
      /\ (3 * nr) \div 2 >= nr
      /\ \A x \in Dirs : count[x] \in Nat
  <2>1. nr \in Nat /\ nr >= 1
    BY PoolAssumption DEF TypeOK
  <2> QED
    BY <2>1, Thresholds, Slotted
<1>2. TurnedAway(t, d) \/ OverLimit(d) => count[d] >= nr
  <2>1. TurnedAway(t, d) => full[d]
    BY DEF TurnedAway
  <2>2. full[d] => count[d] >= nr
    BY DEF FlagsExact
  <2>3. OverLimit(d) => count[d] >= nr
    BY <1>1 DEF OverLimit
  <2> QED
    BY <2>1, <2>2, <2>3
<1>3. full' = [full EXCEPT ![d] = @ \/ mark] /\ congested' = [congested EXCEPT ![d] = @ \/ over]
  BY DEF MarkFlags
<1>4. \A x \in Dirs : /\ full'[x] <=> full[x] \/ (x = d /\ mark)
                      /\ congested'[x] <=> congested[x] \/ (x = d /\ over)
  <2> HIDE DEF mark, over
  <2>1. \A x \in Dirs : full'[x] = IF x = d THEN full[d] \/ mark ELSE full[x]
    BY <1>3 DEF TypeOK
  <2>2. \A x \in Dirs : congested'[x] = IF x = d THEN congested[d] \/ over ELSE congested[x]
    BY <1>3 DEF TypeOK
  <2> QED
    BY <2>1, <2>2, Zenon
<1>5. full' \in [Dirs -> BOOLEAN] /\ congested' \in [Dirs -> BOOLEAN]
  BY <1>3 DEF TypeOK
<1>6. ioc' \in [Threads -> [nr : 0 .. Batch, fresh : BOOLEAN]]
  <2>1. ioc[t] \in [nr : 0 .. Batch, fresh : BOOLEAN]
    BY DEF TypeOK
  <2>2. ioc_set_batching(ioc[t]) \in [nr : 0 .. Batch, fresh : BOOLEAN]
    BY <2>1, SetBatchingType
  <2>3. ioc' = [ioc EXCEPT ![t] = IF Fills(d) /\ ~full[d] THEN ioc_set_batching(@) ELSE @]
    BY DEF MarkFlags
  <2> QED
    BY <2>2, <2>3 DEF TypeOK
<1>7. Fills(d) <=> count[d] + 1 >= nr
  BY DEF Fills
<1>8. FlagsExact'
  <2> SUFFICES ASSUME NEW x \in Dirs
               PROVE  /\ full'[x] <=> count'[x] >= nr
                      /\ congested'[x] => count'[x] >= CongestionOff(nr)
                      /\ ~congested'[x] => count'[x] < CongestionOn(nr)
    BY DEF FlagsExact, CongestionOn, CongestionOff
  <2>1. /\ full[x] <=> count[x] >= nr
        /\ congested[x] => count[x] >= CongestionOff(nr)
        /\ ~congested[x] => count[x] < CongestionOn(nr)
    BY DEF FlagsExact
  <2>2. CASE x # d
    <3>1. count'[x] = count[x]
      BY <2>2 DEF TypeOK
    <3> QED
      BY <3>1, <2>1, <2>2, <1>4
  <2>3. CASE x = d /\ ~TurnedAway(t, d) /\ ~OverLimit(d)
    <3>1. count'[x] = count[x] + 1 /\ count[x] \in Nat
      BY <2>3, <1>1 DEF TypeOK
    <3>2. mark <=> count[x] + 1 >= nr
      BY <2>3, <1>7
    <3>3. over <=> count[x] + 1 >= CongestionOn(nr)
      BY <2>3
    <3>4. (full'[x] <=> full[x] \/ mark) /\ (congested'[x] <=> congested[x] \/ over)
      BY <2>3, <1>4
    <3>5. full'[x] <=> count'[x] >= nr
      BY <3>1, <3>2, <3>4, <2>1, <1>1
    <3>6. congested'[x] => count'[x] >= CongestionOff(nr)
      BY <3>1, <3>3, <3>4, <2>1, <1>1
    <3>7. ~congested'[x] => count'[x] < CongestionOn(nr)
      BY <3>1, <3>3, <3>4, <2>1, <1>1
    <3> QED
      BY <3>5, <3>6, <3>7
  <2>4. CASE x = d /\ (TurnedAway(t, d) \/ OverLimit(d))
    <3>1. count'[x] = count[x] /\ count[x] \in Nat /\ count[x] >= nr
      BY <2>4, <1>1, <1>2
    <3>2. full[x] /\ full'[x]
      BY <3>1, <2>1, <2>4, <1>4
    <3>3. count[x] >= CongestionOff(nr)
      BY <3>1, <1>1
    <3>4. congested[x] => congested'[x]
      BY <1>4
    <3> QED
      BY <3>1, <3>2, <3>3, <3>4, <2>1
  <2> QED
    BY <2>2, <2>3, <2>4
<1> QED
  BY <1>2, <1>5, <1>6, <1>8

\* A request is accounted for; the switch that is under way gets none with
\* private data to wait for.
LEMMA GrantedInv ==
    ASSUME IInv, NEW t \in Threads, NEW d \in Dirs, NEW w \in BOOLEAN,
           pc[t] \in {"run", "retry"}, pc[t] = "retry" => call[t].dir = d,
           MarkFlags(t, d), Granted(t, d, w),
           UNCHANGED <<nr, live, elevator, elvswitch>>, UNCHANGED <<sw, ops>>
    PROVE  IInv'
<1> USE DEF IInv, SwitchTypeOK
<1> DEFINE c == [dir |-> d, wait |-> w, priv |-> ~elvswitch, ioc |-> Fills(d)]
<1>1. /\ count' = [count EXCEPT ![d] = @ + 1]
      /\ pc' = [pc EXCEPT ![t] = "alloc"]
      /\ call' = [call EXCEPT ![t] = c]
      /\ starved' = [starved EXCEPT ![d] = FALSE]
      /\ wait' = wait
  BY DEF Granted
<1>2. c \in [dir : Dirs, wait : BOOLEAN, priv : BOOLEAN, ioc : BOOLEAN]
  BY DEF TypeOK, Fills
<1>3. c.dir = d /\ c.priv = ~elvswitch /\ elvswitch \in BOOLEAN /\ elvpriv \in Nat
  BY DEF TypeOK
<1> HIDE DEF c
<1>4. /\ FlagsExact'
      /\ full' \in [Dirs -> BOOLEAN] /\ congested' \in [Dirs -> BOOLEAN]
      /\ ioc' \in [Threads -> [nr : 0 .. Batch, fresh : BOOLEAN]]
  BY <1>1, MarkInv DEF Granted
<1>5. \A x \in Dirs : count'[x] = IF x = d THEN count[x] + 1 ELSE count[x]
  BY <1>1 DEF TypeOK
<1>6. \A u \in Threads : /\ pc'[u] = IF u = t THEN "alloc" ELSE pc[u]
                         /\ call'[u] = IF u = t THEN c ELSE call[u]
  BY <1>1 DEF TypeOK
<1>7. (elvswitch => elvpriv' = elvpriv) /\ (~elvswitch => elvpriv' = elvpriv + 1)
  <2>1. elvpriv' = elvpriv + (IF elvswitch THEN 0 ELSE 1)
    BY DEF Granted
  <2> QED
    BY <2>1, <1>3
<1>8. count' \in [Dirs -> Nat] /\ elvpriv' \in Nat
  BY <1>1, <1>3, <1>7 DEF TypeOK
<1>9. SwitchTypeOK'
  BY <1>1, <1>2, <1>4, <1>8 DEF TypeOK
<1>10. CountsExact'
  <2>1. \A x \in Dirs : Allocating(x)' = IF x = d THEN Allocating(x) \cup {t} ELSE Allocating(x)
    BY <1>3, <1>6 DEF Allocating
  <2>2. t \notin Allocating(d) /\ t \notin AllocatingPriv
    BY DEF Allocating, AllocatingPriv
  <2>3. elvswitch => AllocatingPriv' = AllocatingPriv
    BY <2>2, <1>3, <1>6 DEF AllocatingPriv
  <2>4. ~elvswitch => AllocatingPriv' = AllocatingPriv \cup {t}
    BY <1>3, <1>6 DEF AllocatingPriv
  <2>5. \A x \in Dirs : Cardinality(Allocating(x)') = IF x = d THEN Cardinality(Allocating(x)) + 1
                                                      ELSE Cardinality(Allocating(x))
    BY <2>1, <2>2, Slotted, CardPlus
  <2>6. /\ elvswitch => Cardinality(AllocatingPriv') = Cardinality(AllocatingPriv)
        /\ ~elvswitch => Cardinality(AllocatingPriv') = Cardinality(AllocatingPriv) + 1
    BY <2>2, <2>3, <2>4, Slotted, CardPlus
  <2>7. ASSUME NEW x \in Dirs
        PROVE  count'[x] = live'[x]["none"] + live'[x]["a"] + live'[x]["b"] + Cardinality(Allocating(x)')
    <3>1. count[x] = live[x]["none"] + live[x]["a"] + live[x]["b"] + Cardinality(Allocating(x))
      BY DEF CountsExact
    <3>2. live[x]["a"] \in Nat /\ live[x]["b"] \in Nat /\ live[x]["none"] \in Nat
          /\ Cardinality(Allocating(x)) \in Nat /\ live' = live
      BY Slotted
    <3>3. Cardinality(Allocating(x)') = IF x = d THEN Cardinality(Allocating(x)) + 1
                                        ELSE Cardinality(Allocating(x))
      BY <2>5
    <3>4. count'[x] = IF x = d THEN count[x] + 1 ELSE count[x]
      BY <1>5
    <3> HIDE DEF IInv, SwitchTypeOK
    <3> QED
      BY <3>1, <3>2, <3>3, <3>4
  <2>8. elvpriv' = live'["sync"]["a"] + live'["sync"]["b"] + live'["async"]["a"] + live'["async"]["b"]
                     + Cardinality(AllocatingPriv')
    <3>1. elvpriv = live["sync"]["a"] + live["sync"]["b"] + live["async"]["a"] + live["async"]["b"]
                      + Cardinality(AllocatingPriv)
      BY DEF CountsExact
    <3>2. "sync" \in Dirs /\ "async" \in Dirs
      BY DEF Dirs
    <3>3. /\ live["sync"]["a"] \in Nat /\ live["sync"]["b"] \in Nat
          /\ live["async"]["a"] \in Nat /\ live["async"]["b"] \in Nat
          /\ Cardinality(AllocatingPriv) \in Nat /\ live' = live
      BY <3>2, Slotted
    <3> HIDE DEF IInv, SwitchTypeOK
    <3>4. CASE elvswitch
      BY <3>1, <3>3, <3>4, <2>6, <1>7
    <3>5. CASE ~elvswitch
      <4>1. elvpriv' = elvpriv + 1
        BY <3>5, <1>7
      <4>2. Cardinality(AllocatingPriv') = Cardinality(AllocatingPriv) + 1
        BY <3>5, <2>6
      <4> QED
        BY <4>1, <4>2, <3>1, <3>3
    <3> QED
      BY <3>4, <3>5
  <2> QED
    BY <2>7, <2>8 DEF CountsExact
<1>11. WaitersQueued'
  <2>1. \A x \in Dirs : \A i \in DOMAIN wait[x] : wait[x][i] \in Threads /\ wait[x][i] # t
    BY DEF WaitersQueued, TypeOK
  <2> QED
    BY <2>1, <1>1, <1>6 DEF WaitersQueued
<1>12. NoIdleSlot'
  <2> SUFFICES ASSUME NEW x \in Dirs, wait[x] # << >>
               PROVE  count'[x] + Cardinality(Awake(x)') >= BLKDEV_MIN_RQ
    BY <1>1 DEF NoIdleSlot
  <2>1. count[x] + Cardinality(Awake(x)) >= BLKDEV_MIN_RQ /\ BLKDEV_MIN_RQ \in Nat
        /\ Cardinality(Awake(x)) \in Nat /\ count[x] \in Nat
    BY Slotted, PoolAssumption DEF NoIdleSlot
  <2>2. Awake(x)' = Awake(x) \ {t}
    BY <1>6 DEF Awake
  <2>3. CASE t \in Awake(x)
    <3>1. x = d
      BY <2>3 DEF Awake
    <3>2. Cardinality(Awake(x)') = Cardinality(Awake(x)) - 1
      BY <2>2, <2>3, Slotted, CardMinus
    <3> QED
      BY <3>1, <3>2, <2>1, <1>5
  <2>4. CASE t \notin Awake(x)
    <3>1. Awake(x)' = Awake(x)
      BY <2>2, <2>4
    <3>2. count'[x] >= count[x] /\ count'[x] \in Nat
      BY <2>1, <1>5
    <3> QED
      BY <3>1, <3>2, <2>1
  <2> QED
    BY <2>3, <2>4
<1>13. PrivMatches'
  <2>1. sw \in {"attached", "undo", "end"} => elvswitch
    BY DEF SwitchState
  <2> QED
    BY <2>1, <1>7 DEF PrivMatches
<1>14. SwitchState'
  BY DEF SwitchState, Spare
<1> QED
  BY <1>4, <1>9, <1>10, <1>11, <1>12, <1>13, <1>14

\* A request is refused; a task that goes to sleep is last in its queue.
LEMMA RefusedInv ==
    ASSUME IInv, NEW t \in Threads, NEW d \in Dirs, NEW w \in BOOLEAN,
           pc[t] \in {"run", "retry"}, pc[t] = "retry" => call[t].dir = d /\ w,
           MarkFlags(t, d), Refused(t, d, w),
           UNCHANGED <<nr, live, elevator, elvswitch>>, UNCHANGED <<sw, ops>>
    PROVE  IInv'
<1> USE DEF IInv, SwitchTypeOK
<1> DEFINE asleep == [NoCall EXCEPT !.dir = d, !.wait = TRUE]
<1>1. /\ count' = count /\ elvpriv' = elvpriv /\ starved' = starved
      /\ w => /\ pc' = [pc EXCEPT ![t] = "sleep"]
              /\ wait' = [wait EXCEPT ![d] = Append(@, t)]
              /\ call' = [call EXCEPT ![t] = asleep]
      /\ ~w => /\ pc' = [pc EXCEPT ![t] = "run"]
               /\ wait' = wait
               /\ call' = [call EXCEPT ![t] = NoCall]
  BY DEF Refused
<1>2. /\ FlagsExact'
      /\ full' \in [Dirs -> BOOLEAN] /\ congested' \in [Dirs -> BOOLEAN]
      /\ ioc' \in [Threads -> [nr : 0 .. Batch, fresh : BOOLEAN]]
      /\ count[d] >= nr
  BY <1>1, MarkInv DEF Refused
<1>3. /\ NoCall \in [dir : Dirs, wait : BOOLEAN, priv : BOOLEAN, ioc : BOOLEAN]
      /\ asleep \in [dir : Dirs, wait : BOOLEAN, priv : BOOLEAN, ioc : BOOLEAN]
      /\ asleep.dir = d
  BY DEF NoCall, Dirs
<1> HIDE DEF asleep
<1>4. \A u \in Threads : /\ pc'[u] = IF u # t THEN pc[u] ELSE IF w THEN "sleep" ELSE "run"
                         /\ u # t => call'[u] = call[u]
                         /\ w => call'[t].dir = d
  BY <1>1, <1>3 DEF TypeOK
<1>5. wait[d] \in Seq(Threads) /\ Append(wait[d], t) \in Seq(Threads)
  BY DEF TypeOK
<1>6. SwitchTypeOK'
  <2>1. wait' \in [Dirs -> Seq(Threads)]
    BY <1>1, <1>5 DEF TypeOK
  <2>2. pc' \in [Threads -> {"run", "alloc", "sleep", "woken", "retry"}]
    BY <1>1 DEF TypeOK
  <2>3. call' \in [Threads -> [dir : Dirs, wait : BOOLEAN, priv : BOOLEAN, ioc : BOOLEAN]]
    BY <1>1, <1>3 DEF TypeOK
  <2> QED
    BY <2>1, <2>2, <2>3, <1>1, <1>2 DEF TypeOK
<1>7. CountsExact'
  <2>1. \A x \in Dirs : Allocating(x)' = Allocating(x)
    BY <1>4 DEF Allocating
  <2>2. AllocatingPriv' = AllocatingPriv
    BY <1>4 DEF AllocatingPriv
  <2> QED
    BY <2>1, <2>2, <1>1 DEF CountsExact
<1>8. \A x \in Dirs : \A i \in DOMAIN wait[x] : wait[x][i] \in Threads /\ wait[x][i] # t
  BY DEF WaitersQueued, TypeOK
<1>9. WaitersQueued'
  <2>1. CASE ~w
    BY <2>1, <1>1, <1>4, <1>8 DEF WaitersQueued
  <2>2. CASE w
    <3> SUFFICES ASSUME NEW x \in Dirs
                 PROVE  /\ \A i \in DOMAIN wait'[x] : pc'[wait'[x][i]] = "sleep" /\ call'[wait'[x][i]].dir = x
                        /\ \A i, j \in DOMAIN wait'[x] : wait'[x][i] = wait'[x][j] => i = j
                        /\ \A u \in Threads : pc'[u] = "sleep" /\ call'[u].dir = x =>
                              \E i \in DOMAIN wait'[x] : wait'[x][i] = u
      BY DEF WaitersQueued
    <3>1. CASE x # d
      <4>1. wait'[x] = wait[x]
        BY <2>2, <3>1, <1>1 DEF TypeOK
      <4> QED
        BY <4>1, <2>2, <3>1, <1>4, <1>8 DEF WaitersQueued
    <3>2. CASE x = d
      <4> DEFINE q == wait[d]
                 r == wait'[d]
      <4>1. r = Append(q, t) /\ q \in Seq(Threads)
        BY <2>2, <1>1, <1>5 DEF TypeOK
      <4>2. /\ DOMAIN q = 1 .. Len(q) /\ Len(q) \in Nat
            /\ DOMAIN r = 1 .. Len(q) + 1
            /\ r[Len(q) + 1] = t
            /\ \A i \in 1 .. Len(q) : r[i] = q[i]
        BY <4>1
      <4>3. \A i \in DOMAIN r : i = Len(q) + 1 \/ i \in DOMAIN q
        BY <4>2
      <4>4. /\ \A i \in DOMAIN q : pc[q[i]] = "sleep" /\ call[q[i]].dir = d /\ q[i] \in Threads /\ q[i] # t
            /\ \A i, j \in DOMAIN q : q[i] = q[j] => i = j
            /\ \A u \in Threads : pc[u] = "sleep" /\ call[u].dir = d => \E i \in DOMAIN q : q[i] = u
        BY <1>8 DEF WaitersQueued
      <4> HIDE DEF q, r
      <4>5. \A i \in DOMAIN r : pc'[r[i]] = "sleep" /\ call'[r[i]].dir = d
        BY <4>2, <4>3, <4>4, <2>2, <1>4
      <4>6. \A i, j \in DOMAIN r : r[i] = r[j] => i = j
        BY <4>2, <4>3, <4>4
      <4>7. ASSUME NEW u \in Threads, pc'[u] = "sleep", call'[u].dir = d
            PROVE  \E i \in DOMAIN r : r[i] = u
        <5>1. CASE u = t
          BY <5>1, <4>2
        <5>2. CASE u # t
          <6>1. PICK i \in DOMAIN q : q[i] = u
            BY <5>2, <4>7, <4>4, <1>4
          <6> QED
            BY <6>1, <4>2
        <5> QED
          BY <5>1, <5>2
      <4> QED
        BY <4>5, <4>6, <4>7, <3>2 DEF r
    <3> QED
      BY <3>1, <3>2
  <2> QED
    BY <2>1, <2>2
<1>10. NoIdleSlot'
  <2> SUFFICES ASSUME NEW x \in Dirs, wait'[x] # << >>
               PROVE  count[x] + Cardinality(Awake(x)') >= BLKDEV_MIN_RQ
    BY <1>1 DEF NoIdleSlot
  <2>1. BLKDEV_MIN_RQ \in Nat /\ nr >= BLKDEV_MIN_RQ /\ nr \in Nat /\ count[x] \in Nat
    BY Slotted, PoolAssumption DEF TypeOK
  <2>2. Awake(x)' \in SUBSET Threads
    BY DEF Awake
  <2>3. Cardinality(Awake(x)') \in Nat
    BY <2>2, CardNat
  <2>4. CASE x = d
    BY <2>1, <2>3, <2>4, <1>2
  <2>5. CASE x # d
    <3>1. wait[x] # << >>
      BY <2>5, <1>1 DEF TypeOK
    <3>2. Awake(x)' = Awake(x)
      BY <2>5, <1>4 DEF Awake
    <3> QED
      BY <3>1, <3>2 DEF NoIdleSlot
  <2> QED
    BY <2>4, <2>5
<1>11. PrivMatches' /\ SwitchState'
  BY <1>1 DEF PrivMatches, SwitchState, Spare
<1> QED
  BY <1>2, <1>6, <1>7, <1>9, <1>10, <1>11

\* The request is there: what was a task that allocates is now a request.
LEMMA AllocatedInv ==
    ASSUME IInv, NEW t \in Threads, Allocated(t), UNCHANGED <<sw, ops>>
    PROVE  IInv'
<1> USE DEF IInv, SwitchTypeOK
<1> DEFINE d == call[t].dir
           priv == call[t].priv
           o == IF priv THEN elevator ELSE "none"
<1>1. /\ pc[t] = "alloc"
      /\ live' = [live EXCEPT ![d][o] = @ + 1]
      /\ pc' = [pc EXCEPT ![t] = "run"]
      /\ call' = [call EXCEPT ![t] = NoCall]
      /\ UNCHANGED <<nr, count, elvpriv, starved, full, congested, wait, elevator, elvswitch>>
  BY DEF Allocated
<1>2. d \in Dirs /\ priv \in BOOLEAN /\ elevator \in Slots /\ o \in Owners
  BY DEF TypeOK, Owners
<1>3. /\ priv => o = elevator
      /\ ~priv => o = "none"
  OBVIOUS
<1>a. o # "none" <=> priv
  BY <1>2, <1>3 DEF Slots
<1>4. ioc' \in [Threads -> [nr : 0 .. Batch, fresh : BOOLEAN]]
  <2> DEFINE c == ioc[t]
             e == [nr |-> c.nr - 1, fresh |-> c.fresh /\ c.nr > 1]
             g == call[t].ioc /\ ioc_batching(c)
  <2>1. ioc' = [ioc EXCEPT ![t] = IF g THEN e ELSE @]
    BY DEF Allocated
  <2>2. c \in [nr : 0 .. Batch, fresh : BOOLEAN]
    BY DEF TypeOK
  <2>3. g => c.nr > 0
    BY PoolAssumption DEF ioc_batching
  <2>4. g => e \in [nr : 0 .. Batch, fresh : BOOLEAN]
    BY <2>2, <2>3, PoolAssumption
  <2> HIDE DEF c, e, g
  <2> QED
    BY <2>1, <2>4 DEF TypeOK
<1> HIDE DEF d, priv, o
<1>5. \A x \in Dirs, s \in Owners :
          live'[x][s] = IF x = d /\ s = o THEN live[x][s] + 1 ELSE live[x][s]
  BY <1>1, <1>2 DEF TypeOK
<1>6. \A u \in Threads : /\ pc'[u] = IF u = t THEN "run" ELSE pc[u]
                         /\ u # t => call'[u] = call[u]
  BY <1>1 DEF TypeOK
<1>7. SwitchTypeOK'
  <2>1. live' \in [Dirs -> [Owners -> Nat]]
    BY <1>1, <1>2 DEF TypeOK
  <2>2. NoCall \in [dir : Dirs, wait : BOOLEAN, priv : BOOLEAN, ioc : BOOLEAN]
    BY DEF NoCall, Dirs
  <2>3. call' \in [Threads -> [dir : Dirs, wait : BOOLEAN, priv : BOOLEAN, ioc : BOOLEAN]]
    BY <2>2, <1>1 DEF TypeOK
  <2> QED
    BY <2>1, <2>3, <1>1, <1>4 DEF TypeOK
<1>8. CountsExact'
  <2>1. \A x \in Dirs : Allocating(x)' = IF x = d THEN Allocating(x) \ {t} ELSE Allocating(x)
    BY <1>6 DEF Allocating, d
  <2>2. AllocatingPriv' = IF priv THEN AllocatingPriv \ {t} ELSE AllocatingPriv
    BY <1>6 DEF AllocatingPriv, priv
  <2>3. t \in Allocating(d) /\ (priv => t \in AllocatingPriv)
    BY <1>1 DEF Allocating, AllocatingPriv, d, priv
  <2>4. \A x \in Dirs : Cardinality(Allocating(x)') = IF x = d THEN Cardinality(Allocating(x)) - 1
                                                      ELSE Cardinality(Allocating(x))
    BY <2>1, <2>3, Slotted, CardMinus
  <2>5. /\ priv => Cardinality(AllocatingPriv') = Cardinality(AllocatingPriv) - 1
        /\ ~priv => Cardinality(AllocatingPriv') = Cardinality(AllocatingPriv)
    BY <2>2, <2>3, Slotted, CardMinus, <1>2
  <2>6. ASSUME NEW x \in Dirs
        PROVE  count'[x] = live'[x]["none"] + live'[x]["a"] + live'[x]["b"] + Cardinality(Allocating(x)')
    <3>1. count[x] = live[x]["none"] + live[x]["a"] + live[x]["b"] + Cardinality(Allocating(x))
      BY DEF CountsExact
    <3>2. live[x]["a"] \in Nat /\ live[x]["b"] \in Nat /\ live[x]["none"] \in Nat
          /\ Cardinality(Allocating(x)) \in Nat /\ count'[x] = count[x]
      BY Slotted, <1>1
    <3>3. Cardinality(Allocating(x)') = IF x = d THEN Cardinality(Allocating(x)) - 1
                                        ELSE Cardinality(Allocating(x))
      BY <2>4
    <3>4. "a" \in Owners /\ "b" \in Owners /\ "none" \in Owners /\ o \in {"a", "b", "none"}
      BY <1>2 DEF Owners, Slots
    <3>5. /\ live'[x]["a"] = IF x = d /\ "a" = o THEN live[x]["a"] + 1 ELSE live[x]["a"]
          /\ live'[x]["b"] = IF x = d /\ "b" = o THEN live[x]["b"] + 1 ELSE live[x]["b"]
          /\ live'[x]["none"] = IF x = d /\ "none" = o THEN live[x]["none"] + 1 ELSE live[x]["none"]
      BY <3>4, <1>5
    <3> HIDE DEF IInv, SwitchTypeOK
    <3> QED
      BY <3>1, <3>2, <3>3, <3>4, <3>5
  <2>7. elvpriv' = live'["sync"]["a"] + live'["sync"]["b"] + live'["async"]["a"] + live'["async"]["b"]
                     + Cardinality(AllocatingPriv')
    <3>1. elvpriv' = live["sync"]["a"] + live["sync"]["b"] + live["async"]["a"] + live["async"]["b"]
                      + Cardinality(AllocatingPriv)
      BY <1>1 DEF CountsExact
    <3>2. /\ "sync" \in Dirs /\ "async" \in Dirs /\ "a" \in Owners /\ "b" \in Owners
          /\ d \in {"sync", "async"}
      BY <1>2 DEF Dirs, Owners, Slots
    <3>3. /\ live["sync"]["a"] \in Nat /\ live["sync"]["b"] \in Nat
          /\ live["async"]["a"] \in Nat /\ live["async"]["b"] \in Nat
          /\ Cardinality(AllocatingPriv) \in Nat
      BY <3>2, Slotted
    <3> HIDE DEF IInv, SwitchTypeOK
    <3>4. CASE priv
      <4>1. Cardinality(AllocatingPriv') = Cardinality(AllocatingPriv) - 1
        BY <3>4, <2>5
      <4>2. o \in {"a", "b"}
        BY <3>4, <1>2, <1>a DEF Owners, Slots
      <4>3. /\ live'["sync"]["a"] = IF "sync" = d /\ "a" = o THEN live["sync"]["a"] + 1 ELSE live["sync"]["a"]
            /\ live'["sync"]["b"] = IF "sync" = d /\ "b" = o THEN live["sync"]["b"] + 1 ELSE live["sync"]["b"]
            /\ live'["async"]["a"] = IF "async" = d /\ "a" = o THEN live["async"]["a"] + 1 ELSE live["async"]["a"]
            /\ live'["async"]["b"] = IF "async" = d /\ "b" = o THEN live["async"]["b"] + 1 ELSE live["async"]["b"]
        BY <3>2, <1>5
      <4> QED
        BY <4>1, <4>2, <4>3, <3>1, <3>2, <3>3
    <3>5. CASE ~priv
      <4>1. Cardinality(AllocatingPriv') = Cardinality(AllocatingPriv)
        BY <3>5, <2>5
      <4>2. o = "none"
        BY <3>5, <1>a
      <4>3. /\ live'["sync"]["a"] = live["sync"]["a"]
            /\ live'["sync"]["b"] = live["sync"]["b"]
            /\ live'["async"]["a"] = live["async"]["a"]
            /\ live'["async"]["b"] = live["async"]["b"]
        BY <4>2, <3>2, <1>5
      <4> QED
        BY <4>1, <4>3, <3>1, <3>3
    <3> QED
      BY <3>4, <3>5
  <2> QED
    BY <2>6, <2>7 DEF CountsExact
<1>9. FlagsExact'
  BY <1>1 DEF FlagsExact, CongestionOn, CongestionOff
<1>10. WaitersQueued'
  <2>1. \A x \in Dirs : \A i \in DOMAIN wait[x] : wait[x][i] \in Threads /\ wait[x][i] # t
    BY <1>1 DEF WaitersQueued, TypeOK
  <2> QED
    BY <2>1, <1>1, <1>6 DEF WaitersQueued
<1>11. NoIdleSlot'
  <2>1. \A x \in Dirs : Awake(x)' = Awake(x)
    BY <1>1, <1>6 DEF Awake
  <2> QED
    BY <2>1, <1>1 DEF NoIdleSlot
<1>12. PrivMatches'
  <2>1. \A x \in Dirs, s \in Slots : live'[x][s] = live[x][s] \/ s = elevator
    BY <1>2, <1>3, <1>a, <1>5 DEF Owners, Slots
  <2> QED
    BY <2>1, <1>1 DEF PrivMatches
<1>13. SwitchState'
  BY <1>1 DEF SwitchState, Spare
<1> QED
  BY <1>7, <1>8, <1>9, <1>10, <1>11, <1>12, <1>13

\* The clock and a task that comes back from io_schedule.
LEMMA BatchInv ==
    ASSUME IInv, NEW t \in Threads, BatchTimeOver(t) \/ Resume(t), UNCHANGED <<sw, ops>>
    PROVE  IInv'
<1> USE DEF IInv, SwitchTypeOK
<1>1. /\ UNCHANGED <<nr, count, elvpriv, starved, full, congested, wait, call, live, elevator, elvswitch>>
      /\ pc' = pc \/ (pc[t] = "woken" /\ pc' = [pc EXCEPT ![t] = "retry"])
  BY DEF BatchTimeOver, Resume
<1>2. pc' \in [Threads -> {"run", "alloc", "sleep", "woken", "retry"}]
  BY <1>1 DEF TypeOK
<1>3. \A u \in Threads : /\ pc'[u] = "alloc" <=> pc[u] = "alloc"
                         /\ pc'[u] = "sleep" <=> pc[u] = "sleep"
                         /\ pc'[u] \in {"woken", "retry"} <=> pc[u] \in {"woken", "retry"}
  BY <1>1 DEF TypeOK
<1>4. ioc' \in [Threads -> [nr : 0 .. Batch, fresh : BOOLEAN]]
  <2>1. ioc[t] \in [nr : 0 .. Batch, fresh : BOOLEAN]
    BY DEF TypeOK
  <2>2. CASE BatchTimeOver(t)
    BY <2>1, <2>2 DEF BatchTimeOver, TypeOK
  <2>3. CASE Resume(t)
    <3>1. ioc_set_batching(ioc[t]) \in [nr : 0 .. Batch, fresh : BOOLEAN]
      BY <2>1, SetBatchingType
    <3>2. ioc' = [ioc EXCEPT ![t] = ioc_set_batching(@)]
      BY <2>3 DEF Resume
    <3> QED
      BY <3>1, <3>2 DEF TypeOK
  <2> QED
    BY <2>2, <2>3
<1>5. SwitchTypeOK'
  BY <1>1, <1>2, <1>4 DEF TypeOK
<1>6. \A x \in Dirs : Allocating(x)' = Allocating(x) /\ Awake(x)' = Awake(x)
  BY <1>1, <1>3 DEF Allocating, Awake
<1>7. AllocatingPriv' = AllocatingPriv
  BY <1>1, <1>3 DEF AllocatingPriv
<1>8. CountsExact' /\ NoIdleSlot'
  BY <1>1, <1>6, <1>7 DEF CountsExact, NoIdleSlot
<1>9. FlagsExact'
  BY <1>1 DEF FlagsExact, CongestionOn, CongestionOff
<1>10. WaitersQueued'
  <2>1. \A x \in Dirs : \A i \in DOMAIN wait[x] : wait[x][i] \in Threads
    BY DEF TypeOK
  <2> QED
    BY <2>1, <1>1, <1>3 DEF WaitersQueued
<1>11. PrivMatches' /\ SwitchState'
  BY <1>1 DEF PrivMatches, SwitchState, Spare
<1> QED
  BY <1>5, <1>8, <1>9, <1>10, <1>11

\* nr_requests is written: the flags fit the new limit.
LEMMA StoreInv ==
    ASSUME IInv, NEW n \in NrInputs, queue_requests_store(n), UNCHANGED <<sw, ops>>
    PROVE  IInv'
<1> USE DEF IInv, SwitchTypeOK
<1> DEFINE m == Resized(n)
           room == {d \in Dirs : count[d] + 1 <= m}
<1>1. m \in Nat /\ m >= BLKDEV_MIN_RQ /\ m >= 2 /\ BLKDEV_MIN_RQ \in Nat
  BY PoolAssumption DEF Resized
<1>2. /\ nr' = m
      /\ congested' = [d \in Dirs |-> \/ count[d] >= CongestionOn(m)
                                      \/ (congested[d] /\ count[d] >= CongestionOff(m))]
      /\ full' = [d \in Dirs |-> d \notin room]
      /\ wait' = Dequeued(room)
      /\ pc' = [t \in Threads |-> IF t \in WakeUp(room) THEN "woken" ELSE pc[t]]
      /\ UNCHANGED <<count, elvpriv, starved, call, ioc, live, elevator, elvswitch>>
  BY DEF queue_requests_store
<1>3. room \in SUBSET Dirs /\ \A d \in Dirs : d \in room <=> count[d] + 1 <= m
  OBVIOUS
<1> HIDE DEF m, room
<1>4. Woke(room, pc) /\ Places(pc)
  BY <1>2 DEF Woke, Places, TypeOK
<1>5. /\ WaitersQueued'
      /\ \A d \in Dirs : Cardinality(Awake(d)') \in Nat /\ Cardinality(Awake(d)') >= Cardinality(Awake(d))
      /\ wait' \in [Dirs -> Seq(Threads)]
      /\ pc' \in [Threads -> {"run", "alloc", "sleep", "woken", "retry"}]
      /\ \A t \in Threads : pc'[t] = "alloc" <=> pc[t] = "alloc"
  BY <1>2, <1>3, <1>4, WokeTasks, WokeQueues
<1>6. /\ CongestionOn(m) \in Nat /\ CongestionOff(m) \in Nat
      /\ CongestionOff(m) <= CongestionOn(m) /\ CongestionOn(m) <= m
  BY <1>1, Thresholds
<1>7. full' \in [Dirs -> BOOLEAN] /\ congested' \in [Dirs -> BOOLEAN]
  BY <1>2
<1>8. SwitchTypeOK'
  BY <1>1, <1>2, <1>5, <1>7 DEF TypeOK
<1>9. CountsExact'
  <2>1. \A x \in Dirs : Allocating(x)' = Allocating(x)
    BY <1>2, <1>5 DEF Allocating
  <2>2. AllocatingPriv' = AllocatingPriv
    BY <1>2, <1>5 DEF AllocatingPriv
  <2> QED
    BY <2>1, <2>2, <1>2 DEF CountsExact
<1>10. FlagsExact'
  <2> SUFFICES ASSUME NEW x \in Dirs
               PROVE  /\ full'[x] <=> count[x] >= m
                      /\ congested'[x] => count[x] >= CongestionOff(m)
                      /\ ~congested'[x] => count[x] < CongestionOn(m)
    BY <1>2 DEF FlagsExact, CongestionOn, CongestionOff
  <2>1. count[x] \in Nat
    BY Slotted
  <2>2. full'[x] <=> x \notin room
    BY <1>2
  <2>3. congested'[x] <=> count[x] >= CongestionOn(m) \/ (congested[x] /\ count[x] >= CongestionOff(m))
    BY <1>2
  <2>4. x \notin room <=> count[x] >= m
    BY <2>1, <1>1, <1>3
  <2> QED
    BY <2>1, <2>2, <2>3, <2>4, <1>6
<1>11. NoIdleSlot'
  <2> SUFFICES ASSUME NEW x \in Dirs, wait'[x] # << >>
               PROVE  count[x] + Cardinality(Awake(x)') >= BLKDEV_MIN_RQ
    BY <1>2 DEF NoIdleSlot
  <2>1. wait[x] # << >>
    BY <1>2, <1>3, DequeuedSeq
  <2>2. count[x] + Cardinality(Awake(x)) >= BLKDEV_MIN_RQ /\ Cardinality(Awake(x)) \in Nat
        /\ count[x] \in Nat
    BY <2>1, Slotted DEF NoIdleSlot
  <2> QED
    BY <2>2, <1>1, <1>5
<1>12. PrivMatches' /\ SwitchState'
  BY <1>2 DEF PrivMatches, SwitchState, Spare
<1> QED
  BY <1>5, <1>8, <1>9, <1>10, <1>11, <1>12
-----------------------------------------------------------------------------
(* The steps of the switch *)

\* No private data is left when the counter says so.
LEMMA Drained ==
    ASSUME TypeOK, CountsExact, elvpriv = 0
    PROVE  \A d \in Dirs, s \in Slots : ~(live[d][s] > 0)
<1>1. \A s \in Slots : s \in Owners /\ s # "none"
  BY DEF Slots, Owners
<1> QED
  BY <1>1, Counted

\* A step of the switch leaves the pool alone.
LEMMA SwitchInv ==
    ASSUME IInv, elevator_switch \/ SwitchStep
    PROVE  IInv'
<1> USE DEF IInv, SwitchTypeOK
<1>1. UNCHANGED pool
  BY DEF elevator_switch, SwitchStep, elevator_attach, ExitOld, ExitNew, Reattach, elv_quiesce_end
<1>2. UNCHANGED <<nr, count, elvpriv, starved, full, congested, wait, pc, call, ioc, live>>
  BY <1>1 DEF pool
<1>3. CountsExact' /\ WaitersQueued' /\ NoIdleSlot'
  <2>1. \A x \in Dirs : Allocating(x)' = Allocating(x) /\ Awake(x)' = Awake(x)
    BY <1>2 DEF Allocating, Awake
  <2>2. AllocatingPriv' = AllocatingPriv
    BY <1>2 DEF AllocatingPriv
  <2> QED
    BY <2>1, <2>2, <1>2 DEF CountsExact, WaitersQueued, NoIdleSlot
<1>4. FlagsExact'
  BY <1>2 DEF FlagsExact, CongestionOn, CongestionOff
<1>5. elevator \in Slots /\ elvswitch \in BOOLEAN /\ Slots = {"a", "b"} /\ Spare(elevator) \in Slots
      /\ Spare(elevator) # elevator /\ Spare(Spare(elevator)) = elevator
  BY DEF TypeOK, Slots, Spare
<1>6. elvpriv = 0 => \A d \in Dirs, s \in Slots : ~(live'[d][s] > 0)
  BY <1>2, Drained
<1>7. /\ elevator' \in Slots /\ elvswitch' \in BOOLEAN
      /\ sw' \in {"idle", "drain", "attached", "undo", "end"} /\ ops' \subseteq Slots
      /\ PrivMatches' /\ SwitchState'
  <2>1. CASE elevator_switch
    <3>1. sw = "idle" /\ ops' = Slots /\ elvswitch' = TRUE
      BY <2>1, <1>5 DEF elevator_switch, elv_quiesce_start, SwitchState
    <3>2. CASE elvpriv = 0
      BY <2>1, <3>1, <3>2, <1>2, <1>5, <1>6
         DEF elevator_switch, elv_quiesce_start, PrivMatches, SwitchState
    <3>3. CASE elvpriv # 0
      BY <2>1, <3>1, <3>3, <1>2, <1>5
         DEF elevator_switch, elv_quiesce_start, PrivMatches, SwitchState
    <3> QED
      BY <3>2, <3>3
  <2>2. CASE elevator_attach
    BY <2>2, <1>2, <1>5, <1>6 DEF elevator_attach, PrivMatches, SwitchState
  <2>3. CASE ExitOld
    BY <2>3, <1>2, <1>5 DEF ExitOld, PrivMatches, SwitchState
  <2>4. CASE ExitNew
    BY <2>4, <1>2, <1>5 DEF ExitNew, PrivMatches, SwitchState
  <2>5. CASE Reattach
    BY <2>5, <1>2, <1>5, <1>6 DEF Reattach, PrivMatches, SwitchState
  <2>6. CASE elv_quiesce_end
    BY <2>6, <1>2, <1>5 DEF elv_quiesce_end, PrivMatches, SwitchState
  <2> QED
    BY <2>1, <2>2, <2>3, <2>4, <2>5, <2>6 DEF SwitchStep
<1>8. SwitchTypeOK'
  BY <1>2, <1>7 DEF TypeOK
<1> QED
  BY <1>3, <1>4, <1>7, <1>8
-----------------------------------------------------------------------------
(* The theorems *)

\* Every step of a task, of the device, of sysfs and of the switch keeps it.
LEMMA NextInv == IInv /\ [Next]_vars => IInv'
<1> SUFFICES ASSUME IInv, [Next]_vars PROVE IInv'
  OBVIOUS
<1>1. ASSUME NEW t \in Threads, NEW d \in Dirs, NEW w \in BOOLEAN,
             blk_get_request(t, d, w), UNCHANGED <<sw, ops>>
      PROVE  IInv'
  BY <1>1, GrantedInv, RefusedInv DEF blk_get_request, get_request
<1>2. ASSUME NEW t \in Threads, TaskStep(t), UNCHANGED <<sw, ops>>
      PROVE  IInv'
  <2>1. CASE Retry(t)
    <3>1. call[t].dir \in Dirs
      BY DEF IInv, SwitchTypeOK, TypeOK
    <3> QED
      BY <3>1, <2>1, <1>2, GrantedInv, RefusedInv DEF Retry, get_request
  <2> QED
    BY <2>1, <1>2, AllocatedInv, AllocFailedInv, BatchInv DEF TaskStep
<1>3. ASSUME NEW t \in Threads, BatchTimeOver(t), UNCHANGED <<sw, ops>>
      PROVE  IInv'
  BY <1>3, BatchInv
<1>4. ASSUME NEW d \in Dirs, NEW o \in Owners, __blk_put_request(d, o), UNCHANGED <<sw, ops>>
      PROVE  IInv'
  BY <1>4, PutInv
<1>5. ASSUME PoolNext, UNCHANGED <<sw, ops>>
      PROVE  IInv'
  BY <1>1, <1>2, <1>3, <1>4, <1>5 DEF PoolNext
<1>6. ASSUME NEW n \in NrInputs, queue_requests_store(n), UNCHANGED <<sw, ops>>
      PROVE  IInv'
  BY <1>6, StoreInv
<1>7. ASSUME UNCHANGED vars
      PROVE  IInv'
  <2>1. UNCHANGED <<nr, count, elvpriv, starved, full, congested, wait, pc, call, ioc, live,
                    elevator, elvswitch, sw, ops>>
    BY <1>7 DEF vars, pool
  <2>2. \A x \in Dirs : Allocating(x)' = Allocating(x) /\ Awake(x)' = Awake(x)
    BY <2>1 DEF Allocating, Awake
  <2>3. AllocatingPriv' = AllocatingPriv
    BY <2>1 DEF AllocatingPriv
  <2>4. SwitchTypeOK' /\ PrivMatches' /\ SwitchState'
    BY <2>1 DEF IInv, SwitchTypeOK, TypeOK, PrivMatches, SwitchState, Spare
  <2>5. CountsExact' /\ WaitersQueued' /\ NoIdleSlot'
    BY <2>1, <2>2, <2>3 DEF IInv, CountsExact, WaitersQueued, NoIdleSlot
  <2>6. FlagsExact'
    BY <2>1 DEF IInv, FlagsExact, CongestionOn, CongestionOff
  <2> QED
    BY <2>4, <2>5, <2>6 DEF IInv
<1> QED
  BY <1>5, <1>6, <1>7, SwitchInv DEF Next

\* The inductive invariant holds in every behaviour, whatever the tasks, the
\* limits written to nr_requests and the workload are.
THEOREM PoolInvariant == Safety => []IInv
BY InitInv, NextInv, PTL DEF Safety

\* The type invariant: in particular elvpriv and rl->count never wrap below
\* zero, which freed_request and blk_alloc_request's failure path rely on.
THEOREM PoolTypeCorrect == Safety => []SwitchTypeOK
<1>1. IInv => SwitchTypeOK
  BY DEF IInv
<1> QED
  BY <1>1, PoolInvariant, PTL

\* rl->count and rl->elvpriv are exactly the requests there are and the
\* allocations under way.
THEOREM PoolCountsExact == Safety => []CountsExact
<1>1. IInv => CountsExact
  BY DEF IInv
<1> QED
  BY <1>1, PoolInvariant, PTL

\* The full and congested flags are in step with the limits.
THEOREM PoolFlagsExact == Safety => []FlagsExact
<1>1. IInv => FlagsExact
  BY DEF IInv
<1> QED
  BY <1>1, PoolInvariant, PTL

\* The wait queues hold exactly the sleepers, each once, in the queue of its
\* direction: what prepare_to_wait_exclusive and wake_up keep in step.
THEOREM PoolWaitersQueued == Safety => []WaitersQueued
<1>1. IInv => WaitersQueued
  BY DEF IInv
<1> QED
  BY <1>1, PoolInvariant, PTL

\* While a task sleeps some request or woken task is left to wake the next:
\* no wakeup of __freed_request or queue_requests_store is lost.
THEOREM PoolNoLostWakeup == Safety => []NoIdleSlot
<1>1. IInv => NoIdleSlot
  BY DEF IInv
<1> QED
  BY <1>1, PoolInvariant, PTL

\* No request is ever handed to a scheduler that did not set it up, across
\* any number of elevator_switch calls.
THEOREM PoolPrivMatches == Safety => []PrivMatches
<1>1. IInv => PrivMatches
  BY DEF IInv
<1> QED
  BY <1>1, PoolInvariant, PTL

\* The queue points at a live scheduler but in the window of a failed
\* switch, and elevator_switch leaks none.
THEOREM PoolElevatorLife == Safety => []ElevatorLife
<1>1. IInv => ElevatorLife
  <2> SUFFICES ASSUME IInv PROVE ElevatorLife
    OBVIOUS
  <2>1. elevator \in Slots /\ sw \in {"idle", "drain", "attached", "undo", "end"}
    BY DEF IInv, SwitchTypeOK, TypeOK
  <2> QED
    BY <2>1 DEF IInv, SwitchState, ElevatorLife
<1> QED
  BY <1>1, PoolInvariant, PTL
=============================================================================
