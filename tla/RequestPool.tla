----------------------------- MODULE RequestPool -----------------------------
(***************************************************************************)
(* The request pool of a queue (struct request_list, block/blk-core.c):    *)
(* how tasks get request structures, sleep when the queue is full, batch   *)
(* after they were woken, and how a freed request is handed on.  The two   *)
(* directions, sync and async, have counters, flags and wait queues of     *)
(* their own.  What is done under q->queue_lock is one action; get_request *)
(* drops the lock to allocate, so an allocation is two.                    *)
(*                                                                         *)
(* Requests are counted, not named: live[d][o] of direction d exist whose  *)
(* private data was set up by scheduler instance o, or has no private data *)
(* (o = "none").  No scheduler in scope has a may_queue or set_request     *)
(* method, so elv_may_queue answers ELV_MQUEUE_MAY and only mempool_alloc  *)
(* without __GFP_WAIT can fail.                                            *)
(***************************************************************************)
EXTENDS Integers, Sequences, FiniteSets

CONSTANTS
    BLKDEV_MIN_RQ, BLKDEV_MAX_RQ,   \* least limit, and what a queue starts with
    Threads,    \* tasks that submit requests, each with an io_context
    Batch,      \* q->nr_batching, BLK_BATCH_REQ
    NrInputs,   \* numbers written to /sys/block/*/queue/nr_requests
    Calls,      \* the calls each task makes: direction, and whether it may sleep
    MaxHeld     \* workload bound: callers ask while count[d] is below MaxHeld[d]

Dirs == {"sync", "async"}
Slots == {"a", "b"}             \* a queue has at most two scheduler instances
Owners == Slots \cup {"none"}
Other(d) == IF d = "sync" THEN "async" ELSE "sync"

ASSUME PoolAssumption ==
    /\ BLKDEV_MIN_RQ \in Nat /\ BLKDEV_MIN_RQ > 1
    /\ BLKDEV_MAX_RQ \in Nat /\ BLKDEV_MAX_RQ >= BLKDEV_MIN_RQ
    /\ IsFiniteSet(Threads)
    /\ Batch \in Nat \ {0}
    /\ NrInputs \subseteq Nat
    /\ Calls \in [Threads -> SUBSET (Dirs \X BOOLEAN)]
    /\ MaxHeld \in [Dirs -> Nat]

VARIABLES
    nr,         \* q->nr_requests
    count,      \* rl->count
    elvpriv,    \* rl->elvpriv
    starved,    \* rl->starved
    full,       \* QUEUE_FLAG_SYNCFULL, QUEUE_FLAG_ASYNCFULL
    congested,  \* BDI_sync_congested, BDI_async_congested
    wait,       \* rl->wait: the tasks asleep, in the order they will be woken
    pc,         \* where each task is in get_request_wait
    call,       \* the arguments and locals of the call a task is in
    ioc,        \* nr_batch_requests and, while it is not 0, whether the task
                \* is still within BLK_BATCH_TIME
    live,       \* requests handed out and not put
    elevator,   \* q->elevator
    elvswitch   \* QUEUE_FLAG_ELVSWITCH

pool == <<nr, count, elvpriv, starved, full, congested, wait, pc, call, ioc, live>>

\* blk_queue_congestion_threshold
CongestionOn(n) == LET x == n - n \div 8 + 1 IN IF x > n THEN n ELSE x
CongestionOff(n) == LET x == n - n \div 8 - n \div 16 - 1 IN IF x < 1 THEN 1 ELSE x

NoCall == [dir |-> "sync", wait |-> FALSE, priv |-> FALSE, ioc |-> FALSE]

PoolInit ==
    /\ nr = BLKDEV_MAX_RQ
    /\ count = [d \in Dirs |-> 0]
    /\ elvpriv = 0
    /\ starved = [d \in Dirs |-> FALSE]
    /\ full = [d \in Dirs |-> FALSE]
    /\ congested = [d \in Dirs |-> FALSE]
    /\ wait = [d \in Dirs |-> << >>]
    /\ pc = [t \in Threads |-> "run"]
    /\ call = [t \in Threads |-> NoCall]
    /\ ioc = [t \in Threads |-> [nr |-> 0, fresh |-> FALSE]]
    /\ live = [d \in Dirs |-> [o \in Owners |-> 0]]

-----------------------------------------------------------------------------
(* Batching *)

ioc_batching(c) == c.nr = Batch \/ (c.nr > 0 /\ c.fresh)

ioc_set_batching(c) == IF ioc_batching(c) THEN c ELSE [nr |-> Batch, fresh |-> TRUE]

\* jiffies passes last_waited + BLK_BATCH_TIME.
BatchTimeOver(t) ==
    /\ ioc[t].fresh
    /\ ioc' = [ioc EXCEPT ![t].fresh = FALSE]
    /\ UNCHANGED <<nr, count, elvpriv, starved, full, congested, wait, pc, call, live,
                   elevator, elvswitch>>

-----------------------------------------------------------------------------
(* Freeing *)

\* The directions __freed_request looks at when one of direction d is freed,
\* those of them with room, and the tasks that are woken, one of each.
Checked(d) == {d} \cup {x \in {Other(d)} : starved[x]}
RoomyLate(c, d) == {x \in Checked(d) : c[x] + 1 < nr}  \* faulty variant
Roomy(c, d) == {x \in Checked(d) : c[x] + 1 <= nr}
WakeUp(D) == {Head(wait[x]) : x \in {y \in D : wait[y] # << >>}}
Dequeued(D) == [x \in Dirs |-> IF x \in D /\ wait[x] # << >> THEN Tail(wait[x]) ELSE wait[x]]

\* freed_request, with __freed_request for d and, when it is starved, the
\* other direction; p is the place of every task but the ones it wakes.
freed_request(d, priv, p) ==
    LET c == [count EXCEPT ![d] = @ - 1]
    IN /\ count' = c
       /\ elvpriv' = elvpriv - (IF priv THEN 1 ELSE 0)
       /\ congested' = [x \in Dirs |-> /\ congested[x]
                                       /\ x \in Checked(d) => c[x] >= CongestionOff(nr)]
       /\ full' = [x \in Dirs |-> full[x] /\ x \notin Roomy(c, d)]
       /\ wait' = Dequeued(Roomy(c, d))
       /\ pc' = [t \in Threads |-> IF t \in WakeUp(Roomy(c, d)) THEN "woken" ELSE p[t]]

\* __blk_put_request of a request from the pool, its private data freed by
\* elv_put_request of the scheduler that is attached now.
__blk_put_request(d, o) ==
    /\ live[d][o] > 0
    /\ live' = [live EXCEPT ![d][o] = @ - 1]
    /\ freed_request(d, o # "none", pc)
    /\ UNCHANGED <<nr, starved, call, ioc, elevator, elvswitch>>

-----------------------------------------------------------------------------
(* Getting a request *)

Fills(d) == count[d] + 1 >= nr
TurnedAway(t, d) == Fills(d) /\ full[d] /\ ~ioc_batching(ioc[t])
OverLimit(d) == count[d] >= (3 * nr) \div 2

\* The flags that get_request sets on its way, whether it succeeds or not.
MarkFlags(t, d) ==
    /\ full' = [full EXCEPT ![d] = @ \/ (Fills(d) /\ ~TurnedAway(t, d))]
    /\ congested' = [congested EXCEPT
                        ![d] = @ \/ (count[d] + 1 >= CongestionOn(nr) /\ ~TurnedAway(t, d))]
    /\ ioc' = [ioc EXCEPT ![t] = IF Fills(d) /\ ~full[d] THEN ioc_set_batching(@) ELSE @]

\* Faulty variant: the flag ELVSWITCH is not looked at.
GrantedAlwaysPriv(t, d, w) ==
    /\ ~TurnedAway(t, d)
    /\ ~OverLimit(d)
    /\ count' = [count EXCEPT ![d] = @ + 1]
    /\ starved' = [starved EXCEPT ![d] = FALSE]
    /\ elvpriv' = elvpriv + 1
    /\ pc' = [pc EXCEPT ![t] = "alloc"]
    /\ call' = [call EXCEPT ![t] = [dir |-> d, wait |-> w, priv |-> TRUE, ioc |-> Fills(d)]]
    /\ UNCHANGED wait

\* The request is accounted for; the lock is dropped to allocate it.
Granted(t, d, w) ==
    /\ ~TurnedAway(t, d)
    /\ ~OverLimit(d)
    /\ count' = [count EXCEPT ![d] = @ + 1]
    /\ starved' = [starved EXCEPT ![d] = FALSE]
    /\ elvpriv' = elvpriv + (IF elvswitch THEN 0 ELSE 1)
    /\ pc' = [pc EXCEPT ![t] = "alloc"]
    /\ call' = [call EXCEPT ![t] = [dir |-> d, wait |-> w, priv |-> ~elvswitch, ioc |-> Fills(d)]]
    /\ UNCHANGED wait

\* get_request returns NULL: get_request_wait goes to sleep, a caller that
\* does not wait returns.
Refused(t, d, w) ==
    /\ TurnedAway(t, d) \/ OverLimit(d)
    /\ pc' = [pc EXCEPT ![t] = IF w THEN "sleep" ELSE "run"]
    /\ wait' = IF w THEN [wait EXCEPT ![d] = Append(@, t)] ELSE wait
    /\ call' = [call EXCEPT ![t] = IF w THEN [NoCall EXCEPT !.dir = d, !.wait = TRUE] ELSE NoCall]
    /\ UNCHANGED <<count, elvpriv, starved>>

\* get_request under the lock.
get_request(t, d, w) ==
    /\ MarkFlags(t, d)
    /\ Granted(t, d, w) \/ Refused(t, d, w)
    /\ UNCHANGED <<nr, live, elevator, elvswitch>>

\* __make_request or blk_get_request with __GFP_WAIT (w), blk_get_request
\* without.
blk_get_request(t, d, w) ==
    /\ pc[t] = "run"
    /\ <<d, w>> \in Calls[t]
    /\ count[d] < MaxHeld[d]
    /\ get_request(t, d, w)

\* Faulty variant: a batcher does not use up its batch.
AllocatedFree(t) ==
    LET c == call[t]
        o == IF c.priv THEN elevator ELSE "none"
    IN /\ pc[t] = "alloc"
       /\ live' = [live EXCEPT ![c.dir][o] = @ + 1]
       /\ pc' = [pc EXCEPT ![t] = "run"]
       /\ call' = [call EXCEPT ![t] = NoCall]
       /\ UNCHANGED <<nr, count, elvpriv, starved, full, congested, wait, ioc, elevator, elvswitch>>

\* blk_alloc_request succeeds; with private data elv_set_request is called
\* on the scheduler attached at this moment.
Allocated(t) ==
    LET c == call[t]
        o == IF c.priv THEN elevator ELSE "none"
    IN /\ pc[t] = "alloc"
       /\ live' = [live EXCEPT ![c.dir][o] = @ + 1]
       /\ ioc' = [ioc EXCEPT ![t] = IF c.ioc /\ ioc_batching(@)
                                     THEN [nr |-> @.nr - 1, fresh |-> @.fresh /\ @.nr > 1]
                                     ELSE @]
       /\ pc' = [pc EXCEPT ![t] = "run"]
       /\ call' = [call EXCEPT ![t] = NoCall]
       /\ UNCHANGED <<nr, count, elvpriv, starved, full, congested, wait, elevator, elvswitch>>

\* Faulty variant: the failure only returns.
AllocFailedKeepsCount(t) ==
    /\ pc[t] = "alloc"
    /\ ~call[t].wait
    /\ pc' = [pc EXCEPT ![t] = "run"]
    /\ call' = [call EXCEPT ![t] = NoCall]
    /\ UNCHANGED <<nr, count, elvpriv, starved, full, congested, wait, ioc, live, elevator, elvswitch>>

\* blk_alloc_request fails, which mempool_alloc does only when it may not
\* wait: what get_request has accounted for is undone.
AllocFailed(t) ==
    LET d == call[t].dir
    IN /\ pc[t] = "alloc"
       /\ ~call[t].wait
       /\ freed_request(d, call[t].priv, [pc EXCEPT ![t] = "run"])
       /\ starved' = [starved EXCEPT ![d] = @ \/ count[d] = 1]
       /\ call' = [call EXCEPT ![t] = NoCall]
       /\ UNCHANGED <<nr, ioc, live, elevator, elvswitch>>

\* After io_schedule: the task becomes a batcher before it takes the lock.
Resume(t) ==
    /\ pc[t] = "woken"
    /\ ioc' = [ioc EXCEPT ![t] = ioc_set_batching(@)]
    /\ pc' = [pc EXCEPT ![t] = "retry"]
    /\ UNCHANGED <<nr, count, elvpriv, starved, full, congested, wait, call, live,
                   elevator, elvswitch>>

\* The next turn of the loop of get_request_wait.
Retry(t) ==
    /\ pc[t] = "retry"
    /\ get_request(t, call[t].dir, TRUE)

-----------------------------------------------------------------------------
(* Resizing *)

Resized(n) == IF n < BLKDEV_MIN_RQ THEN BLKDEV_MIN_RQ ELSE n

\* Faulty variant: the flags are left as they were.
queue_requests_storeKeepsFull(n) ==
    /\ nr' = Resized(n)
    /\ UNCHANGED <<count, elvpriv, starved, full, congested, wait, pc, call, ioc, live, elevator, elvswitch>>

\* queue_requests_store: new limits; the flags are set again and one task of
\* each direction with room is woken.
queue_requests_store(n) ==
    LET m == Resized(n)
        room == {d \in Dirs : count[d] + 1 <= m}
    IN /\ nr' = m
       /\ congested' = [d \in Dirs |-> \/ count[d] >= CongestionOn(m)
                                       \/ (congested[d] /\ count[d] >= CongestionOff(m))]
       /\ full' = [d \in Dirs |-> d \notin room]
       /\ wait' = Dequeued(room)
       /\ pc' = [t \in Threads |-> IF t \in WakeUp(room) THEN "woken" ELSE pc[t]]
       /\ UNCHANGED <<count, elvpriv, starved, call, ioc, live, elevator, elvswitch>>

TaskStep(t) == Allocated(t) \/ AllocFailed(t) \/ Resume(t) \/ Retry(t)

PoolNext ==
    \/ \E t \in Threads : \/ \E d \in Dirs, w \in BOOLEAN : blk_get_request(t, d, w)
                          \/ TaskStep(t)
                          \/ BatchTimeOver(t)
    \/ \E d \in Dirs, o \in Owners : __blk_put_request(d, o)

-----------------------------------------------------------------------------
(* Properties *)

\* The type invariant of the pool; elvpriv and the counters never go below
\* zero.
TypeOK ==
    /\ nr \in Nat /\ nr >= BLKDEV_MIN_RQ
    /\ count \in [Dirs -> Nat]
    /\ elvpriv \in Nat
    /\ starved \in [Dirs -> BOOLEAN]
    /\ full \in [Dirs -> BOOLEAN]
    /\ congested \in [Dirs -> BOOLEAN]
    /\ wait \in [Dirs -> Seq(Threads)]
    /\ pc \in [Threads -> {"run", "alloc", "sleep", "woken", "retry"}]
    /\ call \in [Threads -> [dir : Dirs, wait : BOOLEAN, priv : BOOLEAN, ioc : BOOLEAN]]
    /\ ioc \in [Threads -> [nr : 0 .. Batch, fresh : BOOLEAN]]
    /\ live \in [Dirs -> [Owners -> Nat]]
    /\ elevator \in Slots
    /\ elvswitch \in BOOLEAN

\* Tasks between accounting for a request and having it.
Allocating(d) == {t \in Threads : pc[t] = "alloc" /\ call[t].dir = d}
AllocatingPriv == {t \in Threads : pc[t] = "alloc" /\ call[t].priv}

\* The counters of the request list never drift from the requests there are,
\* through failed allocations, frees and changes of the scheduler: count is
\* what the limits are compared with, elvpriv is what elv_quiesce_start waits
\* for.
CountsExact ==
    /\ \A d \in Dirs : count[d] = live[d]["none"] + live[d]["a"] + live[d]["b"]
                                    + Cardinality(Allocating(d))
    /\ elvpriv = live["sync"]["a"] + live["sync"]["b"] + live["async"]["a"] + live["async"]["b"]
                   + Cardinality(AllocatingPriv)

\* Three code paths set and clear the flags and each does it at its own
\* moment; together they keep "full" exactly in step with the limit and
\* "congested" within its two thresholds, also when the limit is changed.
FlagsExact ==
    \A d \in Dirs : /\ full[d] <=> count[d] >= nr
                    /\ congested[d] => count[d] >= CongestionOff(nr)
                    /\ ~congested[d] => count[d] < CongestionOn(nr)

\* A task sleeps in exactly one place of the wait queue of its direction.
WaitersQueued ==
    \A d \in Dirs :
        /\ \A i \in DOMAIN wait[d] : pc[wait[d][i]] = "sleep" /\ call[wait[d][i]].dir = d
        /\ \A i, j \in DOMAIN wait[d] : wait[d][i] = wait[d][j] => i = j
        /\ \A t \in Threads : pc[t] = "sleep" /\ call[t].dir = d => \E i \in DOMAIN wait[d] : wait[d][i] = t

Awake(d) == {t \in Threads : pc[t] \in {"woken", "retry"} /\ call[t].dir = d}

\* No wakeup is lost: while tasks sleep, the requests outstanding and the
\* tasks woken for one together use up the smallest limit a queue can have,
\* so there is always someone whose progress wakes the next sleeper
\* (exclusive wakeups of __freed_request, barging and expiring batchers).
NoIdleSlot == \A d \in Dirs : wait[d] # << >> => count[d] + Cardinality(Awake(d)) >= BLKDEV_MIN_RQ
=============================================================================
