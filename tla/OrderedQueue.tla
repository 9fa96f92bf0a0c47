---------------------------- MODULE OrderedQueue ----------------------------
(***************************************************************************)
(* Barriers: the ordered sequence of block/blk-barrier.c and the parts of  *)
(* block/elevator.c that colour requests, drain the queue for a barrier    *)
(* and put requeued requests in their place.  All of it runs under         *)
(* q->queue_lock.  Request r is the r-th that is submitted; in the queue a *)
(* barrier is replaced by up to three proxies, the numbers below zero.     *)
(*                                                                         *)
(* The driver is external: whenever it has the lock it may fetch the next  *)
(* request, complete or put back one it has, or leave things as they are.  *)
(* The scheduler is any scheduler: it dispatches the requests it holds in  *)
(* any order.                                                              *)
(***************************************************************************)
EXTENDS Integers, SequencesExt, FiniteSets

CONSTANTS
    MaxRequests,   \* bound: requests that are submitted
    Kinds,         \* kinds of requests: "fs", "barrier", "empty" (barrier), "pc"
    Modes,         \* values of q->next_ordered
    MaxRequeues    \* bound: requests the driver puts back

Requests == 1 .. MaxRequests

\* A way of ordering: by is "drain", "tag" or "none", the others say which
\* parts a barrier has.
Mode(by, pre, bar, post) == [by |-> by, pre |-> pre, bar |-> bar, post |-> post]

\* The modes blk_queue_ordered accepts: QUEUE_ORDERED_NONE, and by draining
\* or by tag without a write cache, with flushes on both sides, and with a
\* flush before and FUA.
blk_queue_ordered ==
    {Mode("none", FALSE, FALSE, FALSE)}
    \cup {m \in [by : {"drain", "tag"}, pre : BOOLEAN, bar : {TRUE}, post : BOOLEAN] : m.post => m.pre}

ASSUME OrderedAssumption ==
    /\ MaxRequests \in Nat \ {0}
    /\ MaxRequeues \in Nat
    /\ Kinds \subseteq {"fs", "barrier", "empty", "pc"}
    /\ Modes \subseteq blk_queue_ordered

pre_flush_rq == -3
bar_rq == -2
post_flush_rq == -1
Proxies == {pre_flush_rq, bar_rq, post_flush_rq}

\* The bits of q->ordseq by number; ordseq is the set of those that are set.
STARTED == 0
DRAIN == 1
PREFLUSH == 2
BAR == 3
POSTFLUSH == 4
DONE == 5

VARIABLES
    kind,          \* what each request is
    submitted,     \* how many have been submitted
    color,         \* REQ_ORDERED_COLOR of each
    ordcolor,      \* q->ordcolor
    sched,         \* requests the I/O scheduler holds
    queue,         \* q->queue_head
    flight,        \* what the driver has, in the order it got it
    overtaken,     \* history: what of it has seen a later one end
    next_ordered,  \* q->next_ordered
    ordered,       \* q->ordered
    ordseq,        \* q->ordseq
    orig,          \* q->orig_bar_rq
    orderr,        \* q->orderr is not 0
    result,        \* how each request ended: "none" (not yet), "ok", "error"
    failed,        \* history: barriers of which the driver failed a part
    requeues       \* requests put back so far

vars == <<kind, submitted, color, ordcolor, sched, queue, flight, overtaken, next_ordered,
          ordered, ordseq, orig, orderr, result, failed, requeues>>

IsBarrier(x) == x \in Requests /\ kind[x] \in {"barrier", "empty"}
IsFs(x) == x = bar_rq \/ (x \in Requests /\ kind[x] # "pc")

Init ==
    /\ kind \in [Requests -> Kinds]
    /\ submitted = 0
    /\ color = [r \in Requests |-> FALSE]
    /\ ordcolor = FALSE
    /\ sched = {}
    /\ queue = << >>
    /\ flight = << >>
    /\ overtaken = {}
    /\ next_ordered \in Modes
    /\ ordered = next_ordered
    /\ ordseq = {}
    /\ orig = 0
    /\ orderr = FALSE
    /\ result = [r \in Requests |-> "none"]
    /\ failed = {}
    /\ requeues = 0

-----------------------------------------------------------------------------
(* The ordered sequence *)

\* The first stage that is not complete: the first zero bit of ordseq.
blk_ordered_cur_seq(seq) ==
    IF seq = {} THEN 0
    ELSE CHOOSE n \in 0 .. DONE : n \notin seq /\ 0 .. n - 1 \subseteq seq

\* The stage in which an entry of the queue has its turn.
blk_ordered_req_seq(x) ==
    CASE x = pre_flush_rq -> PREFLUSH
      [] x = bar_rq -> BAR
      [] x = post_flush_rq -> POSTFLUSH
      [] x \in Requests -> IF kind[x] = "pc" \/ color[x] = color[orig] THEN DRAIN ELSE DONE

\* Complete the stages s of the sequence of barrier b, of which seq were
\* complete: err says that one failed, before that one had failed.  When the
\* last stage is complete, b itself ends.  done is how requests have ended.
blk_ordered_complete_seq(b, seq, s, err, before, done) ==
    LET over == blk_ordered_cur_seq(seq \cup s) = DONE
    IN /\ orderr' = (before \/ err)
       /\ ordseq' = IF over THEN {} ELSE seq \cup s
       /\ result' = IF ~over THEN done
                    ELSE [done EXCEPT ![b] = IF before \/ err THEN "error" ELSE "ok"]

\* The list s when x has left it.
Unlinked(s, x) == RemoveAt(s, CHOOSE k \in DOMAIN s : s[k] = x)

queue_in_flight == {y \in Range(flight) : IsFs(y)}

\* What start_ordered makes of q->next_ordered for barrier b: an empty
\* barrier has no data and no flush after it, and without any command left
\* tags cannot order it.
OrderedFor(b) ==
    IF kind[b] # "empty" THEN next_ordered
    ELSE Mode(IF next_ordered.pre THEN next_ordered.by ELSE "drain", next_ordered.pre, FALSE, FALSE)

\* The parts of a barrier in the order they are to be served.
Parts(o) ==
    (IF o.pre THEN <<pre_flush_rq>> ELSE << >>) \o (IF o.bar THEN <<bar_rq>> ELSE << >>)
    \o (IF o.post THEN <<post_flush_rq>> ELSE << >>)

\* Faulty variant: the flush before the data is taken to be complete.
SkippedPreFlush(o) ==
    (IF o.by = "drain" /\ queue_in_flight # {} THEN {PREFLUSH} ELSE {DRAIN, PREFLUSH})
    \cup (IF o.bar THEN {} ELSE {BAR}) \cup (IF o.post THEN {} ELSE {POSTFLUSH})

\* The stages that are complete from the start.
Skipped(o) ==
    (IF o.by = "drain" /\ queue_in_flight # {} THEN {} ELSE {DRAIN})
    \cup (IF o.pre THEN {} ELSE {PREFLUSH}) \cup (IF o.bar THEN {} ELSE {BAR})
    \cup (IF o.post THEN {} ELSE {POSTFLUSH})

\* Faulty variant: the error of the sequence before is not forgotten.
start_orderedErrorKept ==
    /\ queue # << >>
    /\ ordseq = {}
    /\ IsBarrier(Head(queue))
    /\ next_ordered.by # "none"
    /\ ordered' = OrderedFor(Head(queue))
    /\ orig' = Head(queue)
    /\ queue' = Parts(ordered') \o Tail(queue)
    /\ blk_ordered_complete_seq(Head(queue), {STARTED}, Skipped(ordered'), FALSE, orderr, result)
    /\ UNCHANGED <<kind, submitted, color, ordcolor, sched, flight, overtaken, next_ordered,
                   failed, requeues>>

\* Faulty variant: the barrier stays in the queue.
start_orderedStillQueued ==
    /\ queue # << >>
    /\ ordseq = {}
    /\ IsBarrier(Head(queue))
    /\ next_ordered.by # "none"
    /\ ordered' = OrderedFor(Head(queue))
    /\ orig' = Head(queue)
    /\ queue' = Parts(ordered') \o queue
    /\ blk_ordered_complete_seq(Head(queue), {STARTED}, Skipped(ordered'), FALSE, FALSE, result)
    /\ UNCHANGED <<kind, submitted, color, ordcolor, sched, flight, overtaken, next_ordered,
                   failed, requeues>>

\* The barrier at the head of the queue starts its sequence: it is taken off
\* and its parts are put in front.
start_ordered ==
    /\ queue # << >>
    /\ ordseq = {}
    /\ IsBarrier(Head(queue))
    /\ next_ordered.by # "none"
    /\ ordered' = OrderedFor(Head(queue))
    /\ orig' = Head(queue)
    /\ queue' = Parts(ordered') \o Tail(queue)
    /\ blk_ordered_complete_seq(Head(queue), {STARTED}, Skipped(ordered'), FALSE, FALSE, result)
    /\ UNCHANGED <<kind, submitted, color, ordcolor, sched, flight, overtaken, next_ordered,
                   failed, requeues>>

\* blk_do_ordered on a queue that cannot order: the barrier ends with
\* -EOPNOTSUPP.
NotSupported ==
    /\ queue # << >>
    /\ ordseq = {}
    /\ IsBarrier(Head(queue))
    /\ next_ordered.by = "none"
    /\ queue' = Tail(queue)
    /\ result' = [result EXCEPT ![Head(queue)] = "error"]
    /\ UNCHANGED <<kind, submitted, color, ordcolor, sched, flight, overtaken, next_ordered, ordered,
                   ordseq, orig, orderr, failed, requeues>>

\* Faulty variant: with tags the next barrier does not wait.
blk_do_orderedAllTags(x) ==
    IF ordseq = {} THEN ~IsBarrier(x)
    ELSE \/ x \in Requests /\ kind[x] = "pc"
         \/ ordered.by = "tag"
         \/ ordered.by # "tag" /\ blk_ordered_req_seq(x) <= blk_ordered_cur_seq(ordseq)

\* blk_do_ordered lets the entry x at the head of the queue go.
blk_do_ordered(x) ==
    IF ordseq = {} THEN ~IsBarrier(x)
    ELSE \/ x \in Requests /\ kind[x] = "pc"
         \/ ordered.by = "tag" /\ ~IsBarrier(x)
         \/ ordered.by # "tag" /\ blk_ordered_req_seq(x) <= blk_ordered_cur_seq(ordseq)

-----------------------------------------------------------------------------
(* Submitting: __elv_add_request and elv_insert *)

\* A request gets the colour of the queue; a barrier changes the colour for
\* those after it.
__elv_add_request(r) ==
    /\ submitted' = r
    /\ color' = [color EXCEPT ![r] = ordcolor]
    /\ ordcolor' = (ordcolor # IsBarrier(r))
    /\ UNCHANGED <<kind, flight, overtaken, next_ordered, ordered, ordseq, orig, orderr, result,
                   failed, requeues>>

\* ELEVATOR_INSERT_SORT: a file system request goes to the scheduler.
InsertSort(r) ==
    /\ kind[r] = "fs"
    /\ sched' = sched \cup {r}
    /\ UNCHANGED queue
    /\ __elv_add_request(r)

\* ELEVATOR_INSERT_BACK, where barriers and packet commands go and, while
\* another scheduler is put in place, the requests without REQ_ELVPRIV: first
\* elv_drain_elevator moves what the scheduler holds to the queue.
InsertBack(r) ==
    /\ \E s \in SetToSeqs(sched) : queue' = Append(queue \o s, r)
    /\ sched' = {}
    /\ __elv_add_request(r)

\* ELEVATOR_INSERT_FRONT: a packet command to be executed at the head.
InsertFront(r) ==
    /\ kind[r] = "pc"
    /\ queue' = <<r>> \o queue
    /\ UNCHANGED sched
    /\ __elv_add_request(r)

Submit ==
    /\ submitted < MaxRequests
    /\ \/ InsertSort(submitted + 1)
       \/ InsertBack(submitted + 1)
       \/ InsertFront(submitted + 1)

-----------------------------------------------------------------------------
(* The driver *)

\* __elv_next_request with an empty queue: the scheduler dispatches one.
Dispatch ==
    /\ queue = << >>
    /\ \E r \in sched : queue' = <<r>> /\ sched' = sched \ {r}
    /\ UNCHANGED <<kind, submitted, color, ordcolor, flight, overtaken, next_ordered, ordered,
                   ordseq, orig, orderr, result, failed, requeues>>

\* The driver takes the head of the queue.
blk_fetch_request ==
    /\ queue # << >>
    /\ blk_do_ordered(Head(queue))
    /\ queue' = Tail(queue)
    /\ flight' = Append(flight, Head(queue))
    /\ UNCHANGED <<kind, submitted, color, ordcolor, sched, overtaken, next_ordered, ordered,
                   ordseq, orig, orderr, result, failed, requeues>>

\* Faulty variant: the end of draining goes unnoticed before a flush.
DrainedUnnoticed(x) ==
    /\ ordseq # {}
    /\ queue_in_flight \subseteq {x}
    /\ blk_ordered_cur_seq(ordseq) = DRAIN
    /\ queue = << >> \/ blk_ordered_req_seq(Head(queue)) > PREFLUSH

\* Faulty variant: the queue is taken to be drained while others are in
\* flight.
DrainedTooEarly(x) ==
    /\ ordseq # {}
    /\ blk_ordered_cur_seq(ordseq) = DRAIN
    /\ queue = << >> \/ blk_ordered_req_seq(Head(queue)) > DRAIN

\* What elv_completed_request finds when x, which leaves the driver, was the
\* last that the sequence waited for.
Drained(x) ==
    /\ ordseq # {}
    /\ queue_in_flight \subseteq {x}
    /\ blk_ordered_cur_seq(ordseq) = DRAIN
    /\ queue = << >> \/ blk_ordered_req_seq(Head(queue)) > DRAIN

\* What of the driver's requests has seen a later one end when x ends: the
\* device serves a barrier sent with an ordered tag in its turn, but the
\* notifications may come in any order (Documentation/block/barrier.txt:190).
Overtaken(x) ==
    (overtaken \cup {flight[i] : i \in {i \in DOMAIN flight : \E k \in DOMAIN flight :
                                            i < k /\ flight[k] = x}}) \ {x}

\* A request ends and elv_completed_request looks for the end of draining.
elv_completed_request(r) ==
    LET ended == [result EXCEPT ![r] = "ok"]
    IN /\ r \in Requests \cap Range(flight)
       /\ flight' = Unlinked(flight, r)
       /\ overtaken' = Overtaken(r)
       /\ IF Drained(r) THEN blk_ordered_complete_seq(orig, ordseq, {DRAIN}, FALSE, orderr, ended)
          ELSE result' = ended /\ UNCHANGED <<ordseq, orderr>>
       /\ UNCHANGED <<kind, submitted, color, ordcolor, sched, queue, next_ordered, ordered, orig,
                      failed, requeues>>

\* pre_flush_end_io, bar_end_io and post_flush_end_io: a part of the barrier
\* ends, with an error or without.  No part leaves before the queue is
\* drained (PartsInTurn), so elv_completed_request finds nothing to do.
PartEnds(x, err) ==
    /\ x \in Proxies \cap Range(flight)
    /\ flight' = Unlinked(flight, x)
    /\ overtaken' = Overtaken(x)
    /\ blk_ordered_complete_seq(orig, ordseq, {blk_ordered_req_seq(x)}, err, orderr, result)
    /\ failed' = IF err THEN failed \cup {orig} ELSE failed
    /\ UNCHANGED <<kind, submitted, color, ordcolor, sched, queue, next_ordered, ordered, orig,
                   requeues>>

\* Where ELEVATOR_INSERT_REQUEUE puts x: at the front, or during a sequence
\* before the first entry whose stage is not earlier.
Requeued(x) ==
    IF ordseq = {} THEN <<x>> \o queue
    ELSE LET later == {i \in DOMAIN queue :
                          blk_ordered_req_seq(x) <= blk_ordered_req_seq(queue[i])}
         IN InsertAt(queue, IF later = {} THEN Len(queue) + 1 ELSE Min(later), x)

\* The driver puts back a request it has: blk_requeue_request.  Drivers may do
\* so with any request (Documentation/block/barrier.txt:197), but one that
\* orders by tag "must not requeue preceding requests while completing latter
\* requests" (204): of what it has, the latest goes back first, and none goes
\* back of which a later one has ended.
elv_requeue_request(x) ==
    /\ x \in Range(flight)
    /\ next_ordered.by = "tag" => x = Last(flight) /\ x \notin overtaken
    /\ requeues < MaxRequeues
    /\ requeues' = requeues + 1
    /\ flight' = Unlinked(flight, x)
    /\ queue' = Requeued(x)
    /\ overtaken' = overtaken \ {x}
    /\ UNCHANGED <<kind, submitted, color, ordcolor, sched, next_ordered, ordered, ordseq, orig,
                   orderr, result, failed>>

-----------------------------------------------------------------------------
blk_peek_request == Dispatch \/ start_ordered \/ NotSupported \/ blk_fetch_request

Next ==
    \/ Submit
    \/ blk_peek_request
    \/ \E r \in Requests : elv_completed_request(r)
    \/ \E x \in Proxies, err \in BOOLEAN : PartEnds(x, err)
    \/ \E x \in Requests \cup Proxies : elv_requeue_request(x)

\* The driver runs the queue again after each completion and the device
\* answers every command.
Fairness ==
    /\ WF_vars(blk_peek_request)
    /\ \A r \in Requests : WF_vars(elv_completed_request(r))
    /\ \A x \in Proxies : WF_vars(\E err \in BOOLEAN : PartEnds(x, err))

Spec == Init /\ [][Next]_vars /\ Fairness

-----------------------------------------------------------------------------
(* Properties *)

Ended(r) == result[r] # "none"
InSequence(r) == ordseq # {} /\ r = orig

\* Each request that was submitted is in exactly one place: with the
\* scheduler, in the queue once, with the driver, replaced by its parts, or
\* ended.
TypeOK ==
    /\ kind \in [Requests -> Kinds]
    /\ submitted \in 0 .. MaxRequests
    /\ color \in [Requests -> BOOLEAN] /\ ordcolor \in BOOLEAN
    /\ sched \subseteq Requests
    /\ queue \in Seq(Requests \cup Proxies)
    /\ flight \in Seq(Requests \cup Proxies) /\ overtaken \subseteq Range(flight)
    /\ next_ordered \in Modes
    /\ ordseq \subseteq STARTED .. POSTFLUSH
    /\ orig \in 0 .. MaxRequests
    /\ orderr \in BOOLEAN
    /\ result \in [Requests -> {"none", "ok", "error"}]
    /\ requeues \in 0 .. MaxRequeues
    /\ IsInjective(queue) /\ IsInjective(flight)
    /\ \A r \in Requests :
          Cardinality({p \in 1 .. 6 : \/ p = 1 /\ r > submitted
                                      \/ p = 2 /\ r \in sched
                                      \/ p = 3 /\ r \in Range(queue)
                                      \/ p = 4 /\ r \in Range(flight)
                                      \/ p = 5 /\ InSequence(r)
                                      \/ p = 6 /\ Ended(r)}) = 1

\* The stage of a part is open exactly as long as the part is in the queue
\* or with the driver, so no stage is completed twice: BUG_ON at
\* blk-barrier.c:99.
StagesOnce ==
    \A x \in Proxies :
       /\ ~(x \in Range(queue) /\ x \in Range(flight))
       /\ x \in Range(queue) \cup Range(flight)
             <=> ordseq # {} /\ blk_ordered_req_seq(x) \notin ordseq

\* By draining, the entry at the head of the queue is never one whose stage
\* is over: WARN_ON at blk-barrier.c:274.
HeadInTurn ==
    (ordseq # {} /\ ordered.by = "drain" /\ queue # << >> /\ (IsFs(Head(queue)) \/ Head(queue) \in Proxies))
       => blk_ordered_req_seq(Head(queue)) >= blk_ordered_cur_seq(ordseq)

\* By draining, the driver has one part of the barrier at a time, and no
\* part before its turn.
PartsInTurn ==
    (ordseq # {} /\ ordered.by = "drain")
       => \A x \in Proxies \cap Range(flight) : blk_ordered_req_seq(x) = blk_ordered_cur_seq(ordseq)

\* The stages of a sequence are gone through in turn, each once: the
\* assertions of blk-barrier.c hold in every order of completions and of
\* requests put back.
StagesInTurn == StagesOnce /\ HeadInTurn /\ PartsInTurn

Fs == {r \in Requests : kind[r] = "fs"}
Barriers == {r \in Requests : IsBarrier(r)}
Reached(r) == r \in Range(flight) \/ Ended(r)     \* it has been given to the driver

\* What a barrier is for, by draining: when a part of it is with the driver
\* or the barrier has ended, every file system request submitted before has
\* ended, and none submitted after has reached the driver before the barrier
\* ended.
DrainOrder ==
    next_ordered.by = "drain" =>
       \A b \in Barriers :
          /\ (Ended(b) \/ (InSequence(b) /\ Proxies \cap Range(flight) # {}))
                => \A r \in Fs : r < b => Ended(r)
          /\ \A r \in Fs : (r > b /\ Reached(r)) => Ended(b)

\* By tag, the driver gets everything in the order of submission around a
\* barrier: earlier requests before its first part, later ones after its
\* last.
TagOrder ==
    next_ordered.by = "tag" =>
       \A b \in Barriers :
          /\ (Ended(b) \/ (InSequence(b) /\ Proxies \cap Range(flight) # {}))
                => \A r \in Fs : r < b => Reached(r)
          /\ \A r \in Fs : (r > b /\ Reached(r))
                => Ended(b) \/ (InSequence(b) /\ Range(queue) \cap Proxies = {})

\* A barrier orders what is submitted around it, whichever way the queue does
\* it.
BarrierOrder == DrainOrder /\ TagOrder

\* No barrier ends before one that was submitted earlier, however the device
\* orders and whatever is put back.
BarriersInOrder == \A b, c \in Barriers : (b < c /\ Ended(c)) => Ended(b)

\* A barrier is reported as failed exactly if one of its own parts failed or
\* the queue cannot order.
ErrorReported ==
    \A b \in Barriers :
       Ended(b) => (result[b] = "error" <=> b \in failed \/ next_ordered.by = "none")

\* Every request that is submitted ends: no barrier waits for ever for its
\* stage, and nothing waits for ever behind a barrier.  (An ended request
\* stays so, and the requests are finitely many.)
EverythingEnds == []<>(\A r \in 1 .. submitted : Ended(r))

=============================================================================
