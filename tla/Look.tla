-------------------------------- MODULE Look --------------------------------
(***************************************************************************)
(* The LOOK elevator (block/look-iosched.c) and the block layer's calls    *)
(* into it.  Every entry point runs with q->queue_lock held, so each is    *)
(* one action.  A request in the list is a record: rq names the structure, *)
(* pos is blk_rq_pos(), len is blk_rq_sectors() and first is               *)
(* bio_sectors(rq->bio), the length of its first bio only.                 *)
(***************************************************************************)
EXTENDS LookPick, SequencesExt

CONSTANTS
    Requests,    \* request structures
    Capacity,    \* sectors of the device: bio_check_eod() keeps bios below it
    BioSizes,    \* the sizes of the bios that are submitted, in sectors
    MaxSectors   \* queue_max_sectors(), the largest merged request

ASSUME LookAssumption ==
    /\ Capacity \in Nat \ {0}
    /\ MaxSectors \in Nat \ {0}
    /\ BioSizes \subseteq 1 .. Capacity

VARIABLES
    live,     \* q->elevator->elevator_data is allocated
    queue,    \* nd->queue
    cur_pos,  \* nd->cur_pos
    dir,      \* nd->dir
    out,      \* requests handed to elv_dispatch_sort and not freed yet
    elvpriv   \* requests that q->rq.elvpriv counts: given to LOOK, not freed

vars == <<live, queue, cur_pos, dir, out, elvpriv>>

\* What a list entry may be.
Entry == {e \in [rq : Requests, pos : 0 .. Capacity, first : 1 .. Capacity,
                 len : 1 .. Capacity] :
             e.first <= e.len /\ e.pos + e.len <= Capacity}

End(e) == e.pos + e.len

Queued == {queue[i].rq : i \in DOMAIN queue}

Init ==
    /\ live = TRUE
    /\ queue = << >>
    /\ cur_pos = 0
    /\ dir = Up
    /\ out = {}
    /\ elvpriv = {}

\* A fresh look_data; on failure of kmalloc_node nothing is attached.
look_init_queue ==
    /\ ~live
    /\ live' = TRUE
    /\ queue' = << >>
    /\ cur_pos' = 0
    /\ dir' = Up
    /\ UNCHANGED <<out, elvpriv>>

\* elevator_exit(), which elevator_switch() reaches when elv_quiesce_start()
\* has seen elvpriv at 0.  A list that is not empty here is the BUG_ON; queue
\* keeps what the structure held when it was freed.
look_exit_queue ==
    /\ live
    /\ elvpriv = {}
    /\ live' = FALSE
    /\ UNCHANGED <<queue, cur_pos, dir, out, elvpriv>>

\* A request structure that is free is taken for one bio and added at the tail.
look_add_request(r, p, n) ==
    /\ live
    /\ r \notin elvpriv
    /\ p + n <= Capacity
    /\ queue' = Append(queue, [rq |-> r, pos |-> p, first |-> n, len |-> n])
    /\ elvpriv' = elvpriv \cup {r}
    /\ UNCHANGED <<live, cur_pos, dir, out>>

\* Faulty variants: the request stays on the list; the head stays at the
\* start of the request.
look_dispatchNoDel(i) ==
    /\ live
    /\ IsNext(queue, cur_pos, dir, i)
    /\ dir' = NextDir(queue, cur_pos, dir)
    /\ cur_pos' = queue[i].pos + queue[i].first
    /\ out' = out \cup {queue[i].rq}
    /\ UNCHANGED <<live, queue, elvpriv>>

look_dispatchHeadAtStart(i) ==
    /\ live
    /\ IsNext(queue, cur_pos, dir, i)
    /\ dir' = NextDir(queue, cur_pos, dir)
    /\ cur_pos' = queue[i].pos
    /\ queue' = RemoveAt(queue, i)
    /\ out' = out \cup {queue[i].rq}
    /\ UNCHANGED <<live, elvpriv>>

\* The whole of look_dispatch when the list is not empty: the head position
\* becomes the end of the first bio of the request that leaves.
look_dispatch(i) ==
    /\ live
    /\ IsNext(queue, cur_pos, dir, i)
    /\ dir' = NextDir(queue, cur_pos, dir)
    /\ cur_pos' = queue[i].pos + queue[i].first
    /\ queue' = RemoveAt(queue, i)
    /\ out' = out \cup {queue[i].rq}
    /\ UNCHANGED <<live, elvpriv>>

\* The list neighbours of entry i, NULLRQ at the ends.
look_former_request(i) == IF i = 1 THEN NULLRQ ELSE i - 1
look_latter_request(q, i) == IF i = Len(q) THEN NULLRQ ELSE i + 1

\* Faulty variant: the other request of a back merge is unlinked.
look_merged_requestsOfRq(q, next) == RemoveAt(q, IF next = 1 THEN 2 ELSE next - 1)

\* list_del_init(&next->queuelist)
look_merged_requests(q, next) == RemoveAt(q, next)

\* What a bio of n sectors at its end or its start, and a request f that
\* follows it, make of request e.
GrowBack(e, n) == [e EXCEPT !.len = @ + n]
GrowFront(e, n) == [rq |-> e.rq, pos |-> e.pos - n, first |-> n, len |-> e.len + n]
Join(e, f) == [e EXCEPT !.len = @ + f.len]

\* attempt_merge() joins entry nx of q to entry i when it starts where i ends
\* and the result is not too large.  alike stands for the comparisons of data
\* direction, device, flags and segments.
Joins(q, i, nx, alike) ==
    /\ i # NULLRQ /\ nx # NULLRQ
    /\ alike
    /\ End(q[i]) = q[nx].pos
    /\ q[i].len + q[nx].len <= MaxSectors

\* The list after attempt_merge(), and the request that it puts.
attempt_merge(q, i, nx, alike) ==
    IF Joins(q, i, nx, alike)
    THEN look_merged_requests([q EXCEPT ![i] = Join(@, q[nx])], nx)
    ELSE q

MergePuts(q, i, nx, alike) == IF Joins(q, i, nx, alike) THEN {q[nx].rq} ELSE {}

\* __make_request() with ELEVATOR_BACK_MERGE: a bio of n sectors at the end
\* of entry i, then attempt_back_merge().
BackMerge(i, n, alike) ==
    LET grown == [queue EXCEPT ![i] = GrowBack(@, n)]
    IN  /\ live
        /\ i \in DOMAIN queue
        /\ End(queue[i]) + n <= Capacity
        /\ queue[i].len + n <= MaxSectors
        /\ queue' = attempt_merge(grown, i, look_latter_request(grown, i), alike)
        /\ elvpriv' = elvpriv \ MergePuts(grown, i, look_latter_request(grown, i), alike)
        /\ UNCHANGED <<live, cur_pos, dir, out>>

\* __make_request() with ELEVATOR_FRONT_MERGE: the bio becomes the first one
\* of entry i, then attempt_front_merge().
FrontMerge(i, n, alike) ==
    LET grown == [queue EXCEPT ![i] = GrowFront(@, n)]
    IN  /\ live
        /\ i \in DOMAIN queue
        /\ n <= queue[i].pos
        /\ queue[i].len + n <= MaxSectors
        /\ queue' = attempt_merge(grown, look_former_request(i), i, alike)
        /\ elvpriv' = elvpriv \ MergePuts(grown, look_former_request(i), i, alike)
        /\ UNCHANGED <<live, cur_pos, dir, out>>

\* __blk_put_request() of a completed request: the structure is free again.
put_request(r) ==
    /\ r \in out
    /\ out' = out \ {r}
    /\ elvpriv' = elvpriv \ {r}
    /\ UNCHANGED <<live, queue, cur_pos, dir>>

Dispatch == \E i \in DOMAIN queue : look_dispatch(i)

Next ==
    \/ look_init_queue
    \/ look_exit_queue
    \/ \E r \in Requests, p \in 0 .. Capacity - 1, n \in BioSizes : look_add_request(r, p, n)
    \/ Dispatch
    \/ \E i \in DOMAIN queue, n \in BioSizes, alike \in BOOLEAN : BackMerge(i, n, alike)
    \/ \E i \in DOMAIN queue, n \in BioSizes, alike \in BOOLEAN : FrontMerge(i, n, alike)
    \/ \E r \in out : put_request(r)

\* The driver's request function keeps calling elevator_dispatch_fn while
\* the scheduler has requests.
Fairness == WF_vars(Dispatch)

Safety == Init /\ [][Next]_vars

Spec == Safety /\ Fairness
-----------------------------------------------------------------------------
TypeOK ==
    /\ live \in BOOLEAN
    /\ queue \in Seq(Entry)
    /\ cur_pos \in 0 .. Capacity
    /\ dir \in {Up, Down}
    /\ out \subseteq Requests /\ elvpriv \subseteq Requests

\* No request structure is linked twice, on the list or on the list and in
\* the dispatch queue: list_del_init() and list_add() share queuelist.  None
\* is freed while it is linked or lost before it is freed.  And so, when
\* elevator_switch() has waited for elvpriv, look_exit_queue finds an empty
\* list (its BUG_ON).
LinkedOnce ==
    /\ \A i, j \in DOMAIN queue : queue[i].rq = queue[j].rq => i = j
    /\ Queued \cap out = {}
    /\ elvpriv = Queued \cup out
    /\ ~live => queue = << >>

\* The entries look_dispatch hands over in this step.
Served == {i \in DOMAIN queue : queue[i].rq \in out' \ out}

\* In an up sweep every request that leaves starts at or above the head and
\* the head ends up above its start, so the sectors served strictly increase
\* until the head turns, whatever is added or merged meanwhile.
UpSweepAscends ==
    [][\A i \in Served : dir = Up /\ dir' = Up =>
          cur_pos <= queue[i].pos /\ queue[i].pos < cur_pos']_vars

\* The head never moves over a waiting request without serving it, except,
\* going up, one that overlaps the request being served: going up the new
\* head position is inside it, going down nothing waits between.
NothingSkipped ==
    [][\A i \in Served : \A j \in DOMAIN queue \ {i} :
          /\ dir' = Up /\ cur_pos <= queue[j].pos /\ queue[j].pos < cur_pos' =>
                queue[i].pos <= queue[j].pos /\ queue[j].pos < End(queue[i])
          /\ dir' = Down /\ queue[j].pos <= cur_pos =>
                queue[j].pos <= queue[i].pos]_vars

\* An up sweep ends, even if requests keep arriving ahead of the head: one
\* that waits while the head moves up is served or sees the head turn.
UpSweepEnds ==
    \A r \in Requests :
        (live /\ dir = Up /\ r \in Queued) ~> (r \notin Queued \/ dir = Down)

\* A request that waits while the head moves down is served or sees the head
\* turn: "If the highest or lowest block number is reached, the head reverses
\* direction."
DownSweepEnds ==
    \A r \in Requests :
        (live /\ dir = Down /\ r \in Queued) ~> (r \notin Queued \/ dir = Up)

\* LOOK is an I/O scheduler: the list, as a set of extents, behaves as the
\* contract of elevator.c asks.
Sched == INSTANCE IoSched WITH
    held <- {[rq |-> queue[i].rq, pos |-> queue[i].pos, len |-> queue[i].len] :
                i \in DOMAIN queue}
ImplementsIoSched == Sched!Safety
=============================================================================
