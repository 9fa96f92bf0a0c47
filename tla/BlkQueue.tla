------------------------------ MODULE BlkQueue ------------------------------
(***************************************************************************)
(* A request queue of the block layer (block/blk-core.c, elevator.c,       *)
(* blk-merge.c, blk-exec.c) with the LOOK elevator, driven by virtio_blk.  *)
(* Everything below happens with q->queue_lock held; between two           *)
(* acquisitions anything else may run.  A critical section that loops or   *)
(* calls back is a list cs of calls still to make: while it is not empty   *)
(* its owner has the lock, one step is one pass of one of those calls.     *)
(*                                                                         *)
(* A request of the file system is named after the bio it was allocated    *)
(* for; a packet command (an ioctl) is a request without a bio.            *)
(***************************************************************************)
EXTENDS LookPick, SequencesExt

CONSTANTS
    Bios,           \* bios, each submitted once
    Pcs,            \* packet commands, each executed once
    Workloads,      \* what the bios may be: functions from Bios to BioInfo
    Sent(_),        \* the packet commands that come with a workload; the
                    \* others have completed before it
    Capacity,       \* sectors of the device
    MaxSectors,     \* queue_max_sectors()
    UnplugThresh,   \* q->unplug_thresh
    Depth,          \* requests the virtqueue has room for
    HashBlock,      \* sectors per hash key, 1 << 3 in ELV_HASH_BLOCK
    HashEntries,    \* ELV_HASH_ENTRIES
    NULL            \* no request

BioInfo == {x \in [sector : 0 .. Capacity - 1, size : 1 .. Capacity,
                   rw : {"read", "write"}, unplug : BOOLEAN] :
               x.sector + x.size <= Capacity}

ASSUME QueueAssumption ==
    /\ Capacity \in Nat \ {0} /\ MaxSectors \in Nat \ {0}
    /\ UnplugThresh \in Nat \ {0} /\ Depth \in Nat \ {0}
    /\ HashBlock \in Nat \ {0} /\ HashEntries \in Nat \ {0}
    /\ Workloads \subseteq [Bios -> BioInfo]
    /\ NULL \notin Bios \cup Pcs /\ Bios \cap Pcs = {}

Reqs == Bios \cup Pcs

VARIABLES
    bio,            \* the bios of this run
    st,             \* where each bio or packet command is with its submitter
    rqs,            \* the allocated requests
    look,           \* nd->queue, cur_pos and dir of the elevator
    cur_pos,
    dir,
    queue_head,     \* the dispatch queue
    inflight,       \* requests in the virtqueue
    hash,           \* e->hash as one chain, newest entry first
    last_merge,
    nr_sorted,
    end_sector,
    plugged,        \* QUEUE_FLAG_PLUGGED
    stopped,        \* QUEUE_FLAG_STOPPED
    timer,          \* unplug_timer is armed
    work,           \* unplug_work is queued on kblockd
    kblockd,        \* kblockd has seen the plug and waits for the lock
    cs,             \* the calls the owner of the queue lock still has to make
    before          \* history: the bios queued before a packet command that
                    \* was inserted at the back; NULL for the others

sched == <<look, cur_pos, dir>>
merging == <<hash, last_merge, nr_sorted>>
plugging == <<plugged, stopped, timer, work, kblockd>>
vars == <<bio, st, rqs, look, cur_pos, dir, queue_head, inflight, hash, last_merge,
          nr_sorted, end_sector, plugged, stopped, timer, work, kblockd, cs, before>>

\* struct request: its bios, __sector, __data_len and the flags that matter.
NoRq == [bios |-> << >>, pos |-> 0, len |-> 0, rw |-> "read", flags |-> {"free"}]
RqEnd(rq) == rq.pos + rq.len

\* blk_rq_init() leaves __sector at -1, the largest sector number; that is
\* what rq_end_sector() of a packet command without data returns.
MaxSector == Capacity + 1

allocated == {r \in Reqs : rqs[r] # NoRq}

Init ==
    /\ bio \in Workloads
    /\ st = [x \in Reqs |-> IF x \in Bios \cup Sent(bio) THEN "new" ELSE "done"]
    /\ rqs = [x \in Reqs |-> NoRq]
    /\ look = << >> /\ cur_pos = 0 /\ dir = Up
    /\ queue_head = << >> /\ inflight = {}
    /\ hash = << >> /\ last_merge = NULL /\ nr_sorted = 0
    /\ end_sector = 0
    /\ plugged = FALSE /\ stopped = FALSE /\ timer = FALSE
    /\ work = FALSE /\ kblockd = "idle"
    /\ cs = << >>
    /\ before = [p \in Pcs |-> NULL]

elv_queue_empty == queue_head = << >> /\ look = << >>

rq_mergeable(rq) == rq.flags \cap {"nomerge", "started", "soft", "pc"} = {}
-----------------------------------------------------------------------------
(* The merge hash. *)

\* hash_long() spreads the blocks over the chains; any function of the block
\* that makes some of them share a chain will do.
ELV_HASH_FN(sec) == (sec \div HashBlock) % HashEntries

\* The list s without the entries that are in T.
Without(s, T) ==
    LET F[n \in 0 .. Len(s)] == IF n = 0 THEN << >>
                                ELSE IF s[n] \in T THEN F[n - 1]
                                ELSE Append(F[n - 1], s[n])
    IN  F[Len(s)]

elv_rqhash_del(h, r) == Without(h, {e \in ToSet(h) : e.rq = r})

\* At the head of the chain its end sector selects.
elv_rqhash_add(h, r, rq) == <<[rq |-> r, slot |-> ELV_HASH_FN(RqEnd(rq))]>> \o h

elv_rqhash_reposition(h, r, rq) == elv_rqhash_add(elv_rqhash_del(h, r), r, rq)

\* The places of the chain where a request ends at sector off.
HashHits(off) ==
    {i \in DOMAIN hash : /\ hash[i].slot = ELV_HASH_FN(off)
                         /\ rq_mergeable(rqs[hash[i].rq])
                         /\ RqEnd(rqs[hash[i].rq]) = off}

\* elv_rqhash_find(): the first of them, and the chain without the requests
\* it met on its way that can no longer be merged.
elv_rqhash_find(off) ==
    LET hits == HashHits(off)
        Met(i) == hash[i].slot = ELV_HASH_FN(off) /\ \A j \in hits : i <= j
        stale == {hash[i].rq : i \in {k \in DOMAIN hash :
                                        Met(k) /\ ~rq_mergeable(rqs[hash[k].rq])}}
    IN  [rq    |-> IF hits = {} THEN NULL ELSE hash[Min(hits)].rq,
         chain |-> Without(hash, {e \in ToSet(hash) : e.rq \in stale})]

elv_rq_merge_ok(r, b) == rq_mergeable(rqs[r]) /\ rqs[r].rw = bio[b].rw

elv_try_merge(r, b) ==
    IF ~elv_rq_merge_ok(r, b)                         THEN "none"
    ELSE IF RqEnd(rqs[r]) = bio[b].sector             THEN "back"
    ELSE IF rqs[r].pos = bio[b].sector + bio[b].size  THEN "front"
    ELSE "none"

\* elv_merge(): the one-hit cache, then the hash.  LOOK has no
\* elevator_merge_fn, so a front merge is only found through the cache.
elv_merge(b) ==
    LET cached == IF last_merge = NULL THEN "none" ELSE elv_try_merge(last_merge, b)
        found  == elv_rqhash_find(bio[b].sector)
    IN  IF cached # "none"
        THEN [type |-> cached, rq |-> last_merge, chain |-> hash]
        ELSE IF found.rq # NULL /\ elv_rq_merge_ok(found.rq, b)
        THEN [type |-> "back", rq |-> found.rq, chain |-> found.chain]
        ELSE [type |-> "none", rq |-> NULL, chain |-> found.chain]
-----------------------------------------------------------------------------
(* __make_request(), first critical section: merge the bio or get a request. *)

\* The list neighbours LOOK offers for a second merge.
NeighbourAt(r, d) ==
    LET near == {look[k] : k \in {j \in DOMAIN look : j - d \in DOMAIN look /\ look[j - d] = r}}
    IN  IF near = {} THEN NULL ELSE CHOOSE x \in near : TRUE

look_former_request(r) == NeighbourAt(r, -1)
look_latter_request(r) == NeighbourAt(r, 1)

\* Faulty variant: neighbours on the list are taken for neighbours on the disk.
MayJoinAnywhere(m, r, next) ==
    /\ r # NULL /\ next # NULL
    /\ rq_mergeable(m[r]) /\ rq_mergeable(m[next])
    /\ m[r].rw = m[next].rw
    /\ m[r].len + m[next].len <= MaxSectors

\* The conditions of attempt_merge() on the requests m[r] and m[next].
MayJoin(m, r, next) ==
    /\ r # NULL /\ next # NULL
    /\ rq_mergeable(m[r]) /\ rq_mergeable(m[next])
    /\ RqEnd(m[r]) = m[next].pos
    /\ m[r].rw = m[next].rw
    /\ m[r].len + m[next].len <= MaxSectors

\* list_del_init(): the list s when x has left it.
Unlinked(s, x) == RemoveAt(s, CHOOSE k \in DOMAIN s : s[k] = x)

\* Faulty variants: next is freed but stays linked; its bios are dropped.
JoinRequestsStillLinked(m, chain, r, next) ==
    LET joined == [m[r] EXCEPT !.bios = @ \o m[next].bios, !.len = @ + m[next].len]
    IN  /\ rqs' = [m EXCEPT ![r] = joined, ![next] = NoRq]
        /\ hash' = elv_rqhash_del(elv_rqhash_reposition(chain, r, joined), next)
        /\ nr_sorted' = nr_sorted - 1
        /\ last_merge' = r
        /\ UNCHANGED look

JoinRequestsLosesBios(m, chain, r, next) ==
    LET joined == [m[r] EXCEPT !.len = @ + m[next].len]
    IN  /\ rqs' = [m EXCEPT ![r] = joined, ![next] = NoRq]
        /\ look' = Unlinked(look, next)
        /\ hash' = elv_rqhash_del(elv_rqhash_reposition(chain, r, joined), next)
        /\ nr_sorted' = nr_sorted - 1
        /\ last_merge' = r

\* attempt_merge() and elv_merge_requests(): next gives its bios to r, leaves
\* LOOK's list and the hash, and is freed.
JoinRequests(m, chain, r, next) ==
    LET joined == [m[r] EXCEPT !.bios = @ \o m[next].bios, !.len = @ + m[next].len]
    IN  /\ rqs' = [m EXCEPT ![r] = joined, ![next] = NoRq]
        /\ look' = Unlinked(look, next)
        /\ hash' = elv_rqhash_del(elv_rqhash_reposition(chain, r, joined), next)
        /\ nr_sorted' = nr_sorted - 1
        /\ last_merge' = r

\* Faulty variant: the hash keeps the request under its old end.
MergedRequestNoReposition(m, chain, r, type) ==
    /\ rqs' = m
    /\ hash' = chain
    /\ last_merge' = r
    /\ UNCHANGED <<look, nr_sorted>>

\* elv_merged_request() when there was nothing to join with.
MergedRequest(m, chain, r, type) ==
    /\ rqs' = m
    /\ hash' = IF type = "back" THEN elv_rqhash_reposition(chain, r, m[r]) ELSE chain
    /\ last_merge' = r
    /\ UNCHANGED <<look, nr_sorted>>

\* A bio with BIO_RW_UNPLUG ends the section with __generic_unplug_device().
OutCalls(b) == IF bio[b].unplug THEN <<"unplug">> ELSE << >>

Fits(r, b) == rqs[r].len + bio[b].size <= MaxSectors

BackMerge(b) ==
    LET m     == elv_merge(b)
        grown == [rqs EXCEPT ![m.rq].bios = Append(@, b), ![m.rq].len = @ + bio[b].size]
        next  == look_latter_request(m.rq)
    IN  /\ cs = << >> /\ st[b] = "new" /\ ~elv_queue_empty
        /\ m.type = "back" /\ Fits(m.rq, b)
        /\ IF MayJoin(grown, m.rq, next) THEN JoinRequests(grown, m.chain, m.rq, next)
                                         ELSE MergedRequest(grown, m.chain, m.rq, "back")
        /\ st' = [st EXCEPT ![b] = "queued"]
        /\ cs' = OutCalls(b)
        /\ UNCHANGED <<bio, cur_pos, dir, queue_head, inflight, end_sector, plugging, before>>

FrontMerge(b) ==
    LET m     == elv_merge(b)
        grown == [rqs EXCEPT ![m.rq].bios = <<b>> \o @, ![m.rq].pos = bio[b].sector,
                             ![m.rq].len = @ + bio[b].size]
        prev  == look_former_request(m.rq)
    IN  /\ cs = << >> /\ st[b] = "new" /\ ~elv_queue_empty
        /\ m.type = "front" /\ Fits(m.rq, b)
        /\ IF MayJoin(grown, prev, m.rq) THEN JoinRequests(grown, m.chain, prev, m.rq)
                                         ELSE MergedRequest(grown, m.chain, m.rq, "front")
        /\ st' = [st EXCEPT ![b] = "queued"]
        /\ cs' = OutCalls(b)
        /\ UNCHANGED <<bio, cur_pos, dir, queue_head, inflight, end_sector, plugging, before>>

\* get_request() and init_request_from_bio(): the submitter owns a request
\* and has dropped the lock.
BioRequest(b) ==
    [bios |-> <<b>>, pos |-> bio[b].sector, len |-> bio[b].size, rw |-> bio[b].rw,
     flags |-> {}]

\* No merge: the queue is empty, or nothing fits the bio.  A request that
\* would become too large is not offered again (ll_back_merge_fn).
get_request(b) ==
    LET m   == elv_merge(b)
        big == ~elv_queue_empty /\ m.type # "none" /\ ~Fits(m.rq, b)
        full == IF big THEN [rqs EXCEPT ![m.rq].flags = @ \cup {"nomerge"}] ELSE rqs
    IN  /\ cs = << >> /\ st[b] = "new"
        /\ elv_queue_empty \/ m.type = "none" \/ big
        /\ rqs' = [full EXCEPT ![b] = BioRequest(b)]
        /\ hash' = IF elv_queue_empty THEN hash ELSE m.chain
        /\ last_merge' = IF big /\ m.rq = last_merge THEN NULL ELSE last_merge
        /\ st' = [st EXCEPT ![b] = "getrq"]
        /\ UNCHANGED <<bio, sched, queue_head, inflight, nr_sorted, end_sector, plugging,
                       cs, before>>
-----------------------------------------------------------------------------
(* Plugging. *)

\* Faulty variant: the timer is not armed.
blk_plug_deviceNoTimer ==
    /\ plugged' = (plugged \/ ~stopped)
    /\ UNCHANGED <<stopped, timer, work, kblockd>>

\* blk_plug_device(): a stopped queue is not plugged.
blk_plug_device ==
    /\ plugged' = (plugged \/ ~stopped)
    /\ timer' = (timer \/ (~stopped /\ ~plugged))
    /\ UNCHANGED <<stopped, work, kblockd>>

\* blk_remove_plug()
blk_remove_plug ==
    /\ plugged' = FALSE
    /\ timer' = (timer /\ ~plugged)

\* __make_request(), second critical section, after get_request_wait():
\* plug an empty queue, then elv_insert() with ELEVATOR_INSERT_SORT.
add_request(b) ==
    /\ cs = << >> /\ st[b] = "getrq"
    /\ IF elv_queue_empty THEN blk_plug_device ELSE UNCHANGED plugging
    /\ nr_sorted' = nr_sorted + 1
    /\ hash' = elv_rqhash_add(hash, b, rqs[b])
    /\ last_merge' = IF last_merge = NULL THEN b ELSE last_merge
    /\ look' = Append(look, b)
    /\ st' = [st EXCEPT ![b] = "queued"]
    /\ cs' = <<"thresh">> \o OutCalls(b)
    /\ UNCHANGED <<bio, rqs, cur_pos, dir, queue_head, inflight, end_sector, before>>

\* blk_get_request() for a packet command.
blk_get_request(p) ==
    /\ cs = << >> /\ st[p] = "new"
    /\ st' = [st EXCEPT ![p] = "getrq"]
    /\ rqs' = [rqs EXCEPT ![p] = [bios |-> << >>, pos |-> MaxSector, len |-> 0,
                                  rw |-> "read", flags |-> {"pc"}]]
    /\ UNCHANGED <<bio, sched, queue_head, inflight, merging, end_sector, plugging, cs,
                   before>>

\* blk_execute_rq_nowait(): the queue is plugged, the command is inserted as
\* a soft barrier at the head, or at the back after a forced drain.
blk_execute_rq_nowait(p, at_head) ==
    /\ cs = << >> /\ st[p] = "getrq"
    /\ blk_plug_device
    /\ rqs' = [rqs EXCEPT ![p].flags = @ \cup {"soft"}]
    /\ IF at_head
       THEN /\ queue_head' = <<p>> \o queue_head
            /\ st' = [st EXCEPT ![p] = "queued"]
            /\ cs' = <<"thresh", "unplug">>
            /\ UNCHANGED before
       ELSE /\ st' = [st EXCEPT ![p] = "insert"]
            /\ cs' = <<"drain", "addtail", "run", "thresh", "unplug">>
            /\ before' = [before EXCEPT ![p] = {b \in Bios : st[b] \in {"queued", "done"}}]
            /\ UNCHANGED queue_head
    /\ UNCHANGED <<bio, sched, inflight, merging, end_sector>>
-----------------------------------------------------------------------------
(* Steps of the owner of the lock. *)

\* Faulty variant: soft barriers do not stop the insertion sort.
StopsAtStartedOnly(r, k) ==
    LET rq  == rqs[r]
        pos == rqs[queue_head[k]]
    IN  \/ rq.rw # pos.rw
        \/ "started" \in pos.flags
        \/ rq.pos < end_sector /\ pos.pos >= end_sector
        \/ rq.pos >= pos.pos /\ ~(rq.pos >= end_sector /\ pos.pos < end_sector)

\* Where elv_dispatch_sort(), walking back from the tail, stops for r.
StopsAt(r, k) ==
    LET rq  == rqs[r]
        pos == rqs[queue_head[k]]
    IN  \/ rq.rw # pos.rw
        \/ pos.flags \cap {"soft", "started"} # {}
        \/ rq.pos < end_sector /\ pos.pos >= end_sector
        \/ rq.pos >= pos.pos /\ ~(rq.pos >= end_sector /\ pos.pos < end_sector)

\* Faulty variant: the request stays in the merge caches.
elv_dispatch_sortKeepsCaches(r) ==
    LET stops == {k \in DOMAIN queue_head : StopsAt(r, k)}
    IN  /\ queue_head' = InsertAt(queue_head, Max(stops \cup {0}) + 1, r)
        /\ nr_sorted' = nr_sorted - 1
        /\ UNCHANGED <<last_merge, hash>>

elv_dispatch_sort(r) ==
    LET stops == {k \in DOMAIN queue_head : StopsAt(r, k)}
    IN  /\ queue_head' = InsertAt(queue_head, Max(stops \cup {0}) + 1, r)
        /\ last_merge' = IF last_merge = r THEN NULL ELSE last_merge
        /\ hash' = elv_rqhash_del(hash, r)
        /\ nr_sorted' = nr_sorted - 1

\* The requests LOOK finds on its list: where they start, how long they and
\* their first bios are.
LookQueue ==
    [i \in DOMAIN look |->
        [rq |-> look[i], pos |-> rqs[look[i]].pos,
         first |-> bio[Head(rqs[look[i]].bios)].size, len |-> rqs[look[i]].len]]

\* look_dispatch(): LOOK moves one request to the dispatch queue.
look_dispatch ==
    \E i \in DOMAIN look :
        LET r == look[i] IN
        /\ IsNext(LookQueue, cur_pos, dir, i)
        /\ dir' = NextDir(LookQueue, cur_pos, dir)
        /\ cur_pos' = bio[Head(rqs[r].bios)].sector + bio[Head(rqs[r].bios)].size
        /\ look' = RemoveAt(look, i)
        /\ elv_dispatch_sort(r)

Calling(c) == cs # << >> /\ Head(cs) = c
Return == cs' = Tail(cs)

\* elv_drain_elevator(): one pass of the loop, or its end.
DrainPass ==
    /\ Calling("drain") /\ look # << >>
    /\ look_dispatch
    /\ UNCHANGED <<bio, st, rqs, inflight, end_sector, plugging, cs, before>>

DrainEnd ==
    /\ Calling("drain") /\ look = << >>
    /\ Return
    /\ UNCHANGED <<bio, st, rqs, sched, queue_head, inflight, merging, end_sector, plugging,
                   before>>

\* list_add_tail() of the command whose insertion drained the elevator.
AddTail ==
    /\ Calling("addtail")
    /\ \E p \in Pcs : /\ st[p] = "insert"
                      /\ queue_head' = Append(queue_head, p)
                      /\ st' = [st EXCEPT ![p] = "queued"]
    /\ Return
    /\ UNCHANGED <<bio, rqs, sched, inflight, merging, end_sector, plugging, before>>

\* __blk_run_queue().  virtio_blk never drops the lock in its request
\* function, so QUEUE_FLAG_REENTER is never found set.
__blk_run_queue ==
    /\ Calling("run")
    /\ blk_remove_plug
    /\ cs' = IF stopped \/ elv_queue_empty THEN Tail(cs) ELSE <<"request_fn">> \o Tail(cs)
    /\ UNCHANGED <<bio, st, rqs, sched, queue_head, inflight, merging, end_sector, stopped,
                   work, kblockd, before>>

\* The end of elv_insert(): unplug when enough requests have gathered.
UnplugThreshold ==
    LET nrq == Cardinality(allocated) - Cardinality(inflight \cap Bios)
    IN  /\ Calling("thresh")
        /\ cs' = IF plugged /\ nrq >= UnplugThresh THEN <<"unplug">> \o Tail(cs) ELSE Tail(cs)
        /\ UNCHANGED <<bio, st, rqs, sched, queue_head, inflight, merging, end_sector,
                       plugging, before>>

\* __generic_unplug_device() of a rotational device.
__generic_unplug_device ==
    /\ Calling("unplug")
    /\ IF stopped \/ ~plugged
       THEN Return /\ UNCHANGED <<plugged, timer>>
       ELSE blk_remove_plug /\ cs' = <<"request_fn">> \o Tail(cs)
    /\ UNCHANGED <<bio, st, rqs, sched, queue_head, inflight, merging, end_sector, stopped,
                   work, kblockd, before>>
-----------------------------------------------------------------------------
(* virtio_blk: do_virtblk_request() and blk_done(). *)

\* __elv_next_request() asks LOOK for more when the dispatch queue is empty.
PeekAsksLook ==
    /\ Calling("request_fn") /\ queue_head = << >> /\ look # << >>
    /\ look_dispatch
    /\ UNCHANGED <<bio, st, rqs, inflight, end_sector, plugging, cs, before>>

\* blk_peek_request() marks the request started and moves the boundary;
\* do_req() has a slot and memory for it; blk_start_request() dequeues it.
IssueRequest ==
    LET r == Head(queue_head) IN
    /\ Calling("request_fn") /\ queue_head # << >>
    /\ Cardinality(inflight) < Depth
    /\ end_sector' = RqEnd(rqs[r])
    /\ rqs' = [rqs EXCEPT ![r].flags = @ \cup {"started"}]
    /\ queue_head' = Tail(queue_head)
    /\ inflight' = inflight \cup {r}
    /\ UNCHANGED <<bio, st, sched, merging, plugging, cs, before>>

\* do_req() fails for want of a slot or of memory: the queue is stopped with
\* the request peeked at, not dequeued.  The pool keeps one virtblk_req in
\* reserve, so it does not fail when nothing is in flight.
DoReqFails == inflight # {}

StopQueue ==
    LET r == Head(queue_head) IN
    /\ Calling("request_fn") /\ queue_head # << >>
    /\ DoReqFails
    /\ end_sector' = RqEnd(rqs[r])
    /\ rqs' = [rqs EXCEPT ![r].flags = @ \cup {"started"}]
    /\ blk_remove_plug
    /\ stopped' = TRUE
    /\ Return
    /\ UNCHANGED <<bio, st, sched, queue_head, inflight, merging, work, kblockd, before>>

RequestFnEnd ==
    /\ Calling("request_fn") /\ elv_queue_empty
    /\ Return
    /\ UNCHANGED <<bio, st, rqs, sched, queue_head, inflight, merging, end_sector, plugging,
                   before>>

\* __blk_end_request_all(): every bio of the request ends, it is freed.
EndRequest(r) ==
    /\ inflight' = inflight \ {r}
    /\ st' = [x \in Reqs |-> IF x \in ToSet(rqs[r].bios) \cup ({r} \cap Pcs) THEN "done"
                             ELSE st[x]]
    /\ rqs' = [rqs EXCEPT ![r] = NoRq]

\* The interrupt finds a used buffer, then any others that are there.
blk_done(r) ==
    /\ cs = << >> \/ Calling("blk_done")
    /\ r \in inflight
    /\ EndRequest(r)
    /\ cs' = <<"blk_done">>
    /\ UNCHANGED <<bio, sched, queue_head, merging, end_sector, plugging, before>>

\* Faulty variant: the queue is no longer stopped but nobody runs it.
BlkDoneEndNoRun ==
    /\ Calling("blk_done")
    /\ stopped' = FALSE
    /\ cs' = << >>
    /\ UNCHANGED <<bio, st, rqs, sched, queue_head, inflight, merging, end_sector, plugged,
                   timer, work, kblockd, before>>

\* blk_start_queue() after the last of them.
BlkDoneEnd ==
    /\ Calling("blk_done")
    /\ stopped' = FALSE
    /\ cs' = <<"run">>
    /\ UNCHANGED <<bio, st, rqs, sched, queue_head, inflight, merging, end_sector, plugged,
                   timer, work, kblockd, before>>
-----------------------------------------------------------------------------
(* The unplug timer, kblockd and the processes that wait for their I/O. *)

\* blk_unplug_timeout(), in the timer interrupt, without the lock.
blk_unplug_timeout ==
    /\ timer
    /\ timer' = FALSE /\ work' = TRUE
    /\ UNCHANGED <<bio, st, rqs, sched, queue_head, inflight, merging, end_sector, plugged,
                   stopped, kblockd, cs, before>>

\* blk_unplug_work(): generic_unplug_device() looks at the flag before it
\* takes the lock.
blk_unplug_work ==
    /\ work /\ kblockd = "idle"
    /\ work' = FALSE
    /\ kblockd' = IF plugged THEN "lock" ELSE "idle"
    /\ UNCHANGED <<bio, st, rqs, sched, queue_head, inflight, merging, end_sector, plugged,
                   stopped, timer, cs, before>>

generic_unplug_device ==
    /\ kblockd = "lock" /\ cs = << >>
    /\ kblockd' = "idle"
    /\ cs' = <<"unplug">>
    /\ UNCHANGED <<bio, st, rqs, sched, queue_head, inflight, merging, end_sector, plugged,
                   stopped, timer, work, before>>

\* blk_unplug() by a process that is about to wait for a page or a buffer.
\* If the plug is gone by the time it has the lock nothing happens.
blk_unplug ==
    /\ plugged /\ cs = << >>
    /\ cs' = <<"unplug">>
    /\ UNCHANGED <<bio, st, rqs, sched, queue_head, inflight, merging, end_sector, plugging,
                   before>>

\* Every bio and every command has completed and nothing is left to run.
Finished ==
    /\ \A x \in Reqs : st[x] = "done"
    /\ cs = << >> /\ ~timer /\ ~work /\ kblockd = "idle"
    /\ UNCHANGED vars

Submitter(x) ==
    \/ x \in Bios /\ (BackMerge(x) \/ FrontMerge(x) \/ get_request(x) \/ add_request(x))
    \/ x \in Pcs /\ (blk_get_request(x) \/ \E h \in BOOLEAN : blk_execute_rq_nowait(x, h))

LockOwner ==
    \/ DrainPass \/ DrainEnd \/ AddTail
    \/ __blk_run_queue \/ UnplugThreshold \/ __generic_unplug_device
    \/ PeekAsksLook \/ IssueRequest \/ StopQueue \/ RequestFnEnd
    \/ BlkDoneEnd

Next ==
    \/ \E x \in Reqs : Submitter(x)
    \/ LockOwner
    \/ \E r \in inflight : blk_done(r)
    \/ blk_unplug_timeout
    \/ blk_unplug_work
    \/ generic_unplug_device
    \/ blk_unplug
    \/ Finished

Safety == Init /\ [][Next]_vars

\* A critical section ends; a process that has been given a request goes on
\* to add it; the device answers; the timer expires; kblockd runs.
Fairness ==
    /\ WF_vars(LockOwner)
    /\ \A x \in Reqs : WF_vars(st[x] = "getrq" /\ Submitter(x))
    /\ \A r \in Reqs : WF_vars(blk_done(r))
    /\ WF_vars(blk_unplug_timeout)
    /\ WF_vars(blk_unplug_work)
    /\ WF_vars(generic_unplug_device)

Spec == Safety /\ Fairness
-----------------------------------------------------------------------------
Calls == {"drain", "addtail", "run", "thresh", "unplug", "request_fn", "blk_done"}

TypeOK ==
    /\ bio \in Workloads
    /\ st \in [Reqs -> {"new", "getrq", "insert", "queued", "done"}]
    /\ \A r \in Reqs : /\ rqs[r].bios \in Seq(Bios)
                       /\ rqs[r].pos \in 0 .. MaxSector /\ rqs[r].len \in 0 .. Capacity
                       /\ rqs[r].flags \subseteq {"free", "pc", "nomerge", "started", "soft"}
    /\ look \in Seq(Bios) /\ cur_pos \in 0 .. Capacity /\ dir \in {Up, Down}
    /\ queue_head \in Seq(Reqs) /\ inflight \subseteq Reqs
    /\ hash \in Seq([rq : Bios, slot : 0 .. HashEntries - 1])
    /\ last_merge \in Bios \cup {NULL} /\ nr_sorted \in Nat /\ end_sector \in 0 .. MaxSector
    /\ {plugged, stopped, timer, work} \subseteq BOOLEAN /\ kblockd \in {"idle", "lock"}
    /\ cs \in Seq(Calls)
    /\ \A p \in Pcs : before[p] = NULL \/ before[p] \subseteq Bios

\* An allocated request is in exactly one place: with its submitter, on
\* LOOK's list, on the dispatch queue or in the virtqueue; a freed one is
\* nowhere, not in the merge hash nor in the last_merge cache either
\* (the BUG_ONs of blk_dequeue_request and __blk_put_request).
OnePlace ==
    LET places(r) == Cardinality({i \in DOMAIN look : look[i] = r})
                     + Cardinality({i \in DOMAIN queue_head : queue_head[i] = r})
                     + Cardinality(inflight \cap {r})
                     + Cardinality({r} \cap {x \in Reqs : st[x] \in {"getrq", "insert"}})
    IN  /\ TypeOK
        /\ \A r \in Reqs : places(r) = IF r \in allocated THEN 1 ELSE 0
        /\ {hash[i].rq : i \in DOMAIN hash} \cup {last_merge} \subseteq allocated \cup {NULL}

\* No bio is lost or completed twice by a merge: one that has been queued and
\* is not done is carried by one request, once; the others by none but the
\* request their submitter holds.
BiosConserved ==
    \A b \in Bios :
        LET carried == UNION {{<<r, i>> : i \in {k \in DOMAIN rqs[r].bios : rqs[r].bios[k] = b}} :
                                 r \in Reqs}
        IN  Cardinality(carried) = IF st[b] \in {"getrq", "queued"} THEN 1 ELSE 0

\* The sectors a request will transfer are those of its bios, in order and
\* without a gap, after any mixture of back, front and request merges, and
\* all of them go the same way.
RequestsAreContiguous ==
    \A r \in allocated \ Pcs :
        LET bs == rqs[r].bios IN
        /\ rqs[r].pos = bio[Head(bs)].sector
        /\ RqEnd(rqs[r]) = bio[Last(bs)].sector + bio[Last(bs)].size
        /\ \A i \in 1 .. Len(bs) - 1 : bio[bs[i]].sector + bio[bs[i]].size = bio[bs[i + 1]].sector
        /\ \A i \in DOMAIN bs : bio[bs[i]].rw = rqs[r].rw

\* Whatever is merged, in whatever order: the bios of the block layer are
\* carried by its requests exactly once, and each request is one stretch of
\* sectors.
MergesSound == BiosConserved /\ RequestsAreContiguous

\* The merge caches never lead a bio to a request that has left LOOK: the
\* hash holds requests of the list only, all that may still grow, each in
\* the chain of its present end; the counter of sorted requests is exact, so
\* a forced drain is complete.
MergeCachesFresh ==
    /\ {hash[i].rq : i \in DOMAIN hash} \subseteq ToSet(look)
    /\ {r \in ToSet(look) : rq_mergeable(rqs[r])} \subseteq {hash[i].rq : i \in DOMAIN hash}
    /\ \A i \in DOMAIN hash : hash[i].slot = ELV_HASH_FN(RqEnd(rqs[hash[i].rq]))
    /\ last_merge \in ToSet(look) \cup {NULL}
    /\ nr_sorted = Len(look)

\* Whenever the lock is free and requests wait, somebody will come for them:
\* the plug with its timer or kblockd on the way, or a completion.  In
\* particular a stopped queue has a request in flight to restart it.
NoStall ==
    cs = << >> /\ ~elv_queue_empty =>
        \/ inflight # {}
        \/ plugged /\ ~stopped /\ (timer \/ work \/ kblockd = "lock")

\* A packet command inserted at the back is a barrier: it is issued after
\* every bio queued before it and before every bio queued after it, although
\* LOOK and elv_dispatch_sort reorder and bios merge.
Issued == {b \in Bios : st[b] = "done" \/ \E r \in inflight : b \in ToSet(rqs[r].bios)}

BackInsertIsBarrier ==
    \A p \in Pcs : before[p] # NULL =>
        /\ st[p] = "done" \/ p \in inflight => before[p] \subseteq Issued
        /\ st[p] \in {"insert", "queued"} /\ p \notin inflight => Issued \subseteq before[p]

\* A request that has left LOOK keeps its bios and its extent until it is
\* freed: nothing merges into what the driver may be looking at.
DispatchedIsFrozen ==
    [][\A r \in ToSet(queue_head) \cup inflight :
          rqs'[r] # NoRq => /\ rqs'[r].bios = rqs[r].bios
                            /\ rqs'[r].pos = rqs[r].pos /\ rqs'[r].len = rqs[r].len]_vars

\* Every bio and command that is submitted completes.  Each is submitted at
\* most once, and st never leaves "done".
EverythingCompletes ==
    <>[](\A x \in Reqs : st[x] \in {"new", "done"})

\* The elevator inside the block layer behaves as Look says.
LookOut == Bios \cap (ToSet(queue_head) \cup inflight)
LookPriv == Bios \cap (ToSet(look) \cup ToSet(queue_head) \cup inflight)

L == INSTANCE Look WITH
    Requests <- Bios,
    BioSizes <- 1 .. Capacity,
    live <- TRUE,
    queue <- LookQueue,
    out <- LookOut,
    elvpriv <- LookPriv
ImplementsLook == L!Safety
=============================================================================
