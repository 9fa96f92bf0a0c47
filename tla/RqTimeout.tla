------------------------------ MODULE RqTimeout ------------------------------
(***************************************************************************)
(* Request timeouts (block/blk-timeout.c) against completion by interrupt  *)
(* (block/blk-softirq.c), requeueing (block/blk-core.c) and a device that  *)
(* answers late or never.  The timeout handlers hold q->queue_lock from    *)
(* beginning to end; blk_complete_request does not take it, so it runs     *)
(* between any two of their steps.  What is done with requests that were   *)
(* taken by error handling is the driver's business (external).            *)
(*                                                                         *)
(* Times are relative to jiffies: an entry of the timeout list has the     *)
(* jiffies left to its deadline, 0 when it is reached.                     *)
(***************************************************************************)
EXTENDS Integers, SequencesExt

CONSTANTS
    Requests,
    HZ,          \* jiffies in a second, for round_jiffies_up
    Timeouts,    \* the values rq->timeout may have
    MaxResets    \* bound: how often a driver answers BLK_EH_RESET_TIMER for a request

ASSUME TimeoutAssumption ==
    /\ HZ \in Nat \ {0}
    /\ Timeouts \subseteq Nat \ {0}
    /\ MaxResets \in Nat

VARIABLES
    timeout,   \* rq->timeout of every request
    place,     \* where each request is
    complete,  \* REQ_ATOM_COMPLETE of its atomic_flags
    resets,    \* times the driver has asked for more time since the request was started
    hw,        \* the commands the hardware may still answer
    done,      \* blk_cpu_done, waiting for the softirq
    tlist,     \* q->timeout_list
    timer,     \* jiffies until q->timeout expires, -1 when it is not pending
    phase,     \* jiffies % HZ
    h,         \* the handler that holds the lock, and its locals
    bug        \* a BUG_ON of blk_add_timer has fired, the system has stopped

vars == <<timeout, place, complete, resets, hw, done, tlist, timer, phase, h, bug>>

None == "none"
Idle == [pc |-> "idle", rq |-> None, i |-> 1, last |-> FALSE, next |-> -1, local |-> << >>]

Listed(s) == {s[k].rq : k \in DOMAIN s}

Init ==
    /\ timeout \in [Requests -> Timeouts]
    /\ place = [r \in Requests |-> "free"]
    /\ complete = [r \in Requests |-> FALSE]
    /\ resets = [r \in Requests |-> 0]
    /\ hw = {}
    /\ done = << >>
    /\ tlist = << >>
    /\ timer = -1
    /\ phase = 0
    /\ h = Idle
    /\ bug = FALSE

\* The queue lock is free.
Unlocked == h.pc = "idle"

-----------------------------------------------------------------------------
(* Timers *)

\* round_jiffies_up: the next whole second after j, in jiffies from now.
round_jiffies_up(j) == j - ((phase + j) % HZ) + HZ

\* q->timeout after blk_add_timer(r), from its value tm before.
Armed(tm, r) ==
    LET expiry == round_jiffies_up(timeout[r])
    IN IF tm = -1 \/ expiry < tm THEN expiry ELSE tm

\* Faulty variant: the entry stays on the timeout list.
blk_delete_timerForgotten(s, r) == s

\* The timeout list s after blk_delete_timer(r): list_del_init does nothing
\* when r is not linked.
blk_delete_timer(s, r) ==
    IF r \in Listed(s) THEN RemoveAt(s, CHOOSE k \in DOMAIN s : s[k].rq = r) ELSE s

\* The two BUG_ONs of blk_add_timer.
BugOnAdd(r) == r \in Listed(tlist) \/ complete[r]

Added(s, r) == Append(s, [rq |-> r, left |-> timeout[r]])

\* One tick of the clock; a handler is over within a jiffy.
Tick ==
    /\ Unlocked
    /\ phase' = (phase + 1) % HZ
    /\ tlist' = [k \in DOMAIN tlist |->
                    [tlist[k] EXCEPT !.left = IF @ > 0 THEN @ - 1 ELSE 0]]
    /\ timer' = IF timer > 0 THEN timer - 1 ELSE timer
    /\ UNCHANGED <<timeout, place, complete, resets, hw, done, h, bug>>

-----------------------------------------------------------------------------
(* The life of a request *)

\* blk_rq_init of a request from the pool, and its way to the dispatch queue.
blk_rq_init(r) ==
    /\ Unlocked
    /\ place[r] = "free"
    /\ place' = [place EXCEPT ![r] = "queued"]
    /\ complete' = [complete EXCEPT ![r] = FALSE]
    /\ UNCHANGED <<timeout, resets, hw, done, tlist, timer, phase, h, bug>>

\* blk_start_request: the request goes to the hardware and its timer runs.
blk_start_request(r) ==
    /\ Unlocked
    /\ place[r] = "queued"
    /\ place' = [place EXCEPT ![r] = "driver"]
    /\ resets' = [resets EXCEPT ![r] = 0]
    /\ hw' = hw \cup {r}
    /\ bug' = BugOnAdd(r)
    /\ tlist' = Added(tlist, r)
    /\ timer' = Armed(timer, r)
    /\ UNCHANGED <<timeout, complete, done, phase, h>>

\* Faulty variant: the completion does not look who was first.
blk_complete_requestNoTest(r) ==
    /\ r \in hw
    /\ hw' = hw \ {r}
    /\ complete' = [complete EXCEPT ![r] = TRUE]
    /\ done' = Append(done, r)
    /\ place' = [place EXCEPT ![r] = "softirq"]
    /\ UNCHANGED <<timeout, resets, tlist, timer, phase, h, bug>>

\* The interrupt for r: blk_complete_request, without the lock.  It leaves
\* the request alone when a timeout was first.
blk_complete_request(r) ==
    /\ r \in hw
    /\ hw' = hw \ {r}
    /\ \/ /\ complete[r]
          /\ UNCHANGED <<place, complete, done>>
       \/ /\ ~complete[r]
          /\ complete' = [complete EXCEPT ![r] = TRUE]
          /\ done' = Append(done, r)
          /\ place' = [place EXCEPT ![r] = "softirq"]
    /\ UNCHANGED <<timeout, resets, tlist, timer, phase, h, bug>>

\* The hardware will not answer (or blk_should_fake_timeout drops the answer).
Lost(r) ==
    /\ r \in hw
    /\ hw' = hw \ {r}
    /\ UNCHANGED <<timeout, place, complete, resets, done, tlist, timer, phase, h, bug>>

\* blk_finish_request
blk_finish_request(r) ==
    /\ Unlocked
    /\ place' = [place EXCEPT ![r] = "free"]
    /\ tlist' = blk_delete_timer(tlist, r)
    /\ UNCHANGED <<timeout, complete, resets, timer, phase, h, bug>>

\* blk_requeue_request
blk_requeue_request(r) ==
    /\ Unlocked
    /\ place' = [place EXCEPT ![r] = "queued"]
    /\ tlist' = blk_delete_timer(tlist, r)
    /\ complete' = [complete EXCEPT ![r] = FALSE]
    /\ UNCHANGED <<timeout, resets, timer, phase, h, bug>>

\* blk_done_softirq: softirq_done_fn ends the request or puts it back.
blk_done_softirq ==
    /\ done # << >>
    /\ done' = Tail(done)
    /\ blk_finish_request(Head(done)) \/ blk_requeue_request(Head(done))
    /\ UNCHANGED hw

\* The error handler of the driver is through with a request it was given:
\* the hardware has forgotten the command.
ErrorHandled(r) ==
    /\ place[r] = "eh"
    /\ hw' = hw \ {r}
    /\ blk_finish_request(r) \/ blk_requeue_request(r)
    /\ UNCHANGED done

\* The hardware cannot accept the command of a request that was started: the
\* driver puts the request back on the queue itself.
Refused(r) ==
    /\ place[r] = "driver"
    /\ ~complete[r]
    /\ hw' = hw \ {r}
    /\ blk_requeue_request(r)
    /\ UNCHANGED done

-----------------------------------------------------------------------------
(* The timeout handlers *)

\* Faulty variant: the timer is not set for the requests that are left.
ProceedNoRearm(hh, tl, tm) ==
    \/ /\ hh.last
       /\ h' = Idle
       /\ tlist' = hh.local \o tl
       /\ timer' = tm
    \/ /\ ~hh.last
       /\ h' = [hh EXCEPT !.pc = "scan"]
       /\ tlist' = tl
       /\ timer' = tm

\* The end of one turn of a handler's loop, with the timeout list tl and the
\* timer tm so far: the next turn, or what follows the loop.
Proceed(hh, tl, tm) ==
    \/ /\ hh.last
       /\ h' = Idle
       /\ tlist' = hh.local \o tl
       /\ timer' = IF hh.next = -1 THEN tm ELSE round_jiffies_up(hh.next)
    \/ /\ ~hh.last
       /\ h' = [hh EXCEPT !.pc = "scan"]
       /\ tlist' = tl
       /\ timer' = tm

\* q->timeout expires: blk_rq_timed_out_timer begins.
blk_rq_timed_out_timer ==
    /\ Unlocked
    /\ timer = 0
    /\ timer' = -1
    /\ h' = IF tlist = << >> THEN Idle ELSE [Idle EXCEPT !.pc = "scan"]
    /\ UNCHANGED <<timeout, place, complete, resets, hw, done, tlist, phase, bug>>

\* One turn of its loop.  list_for_each_entry_safe has fetched the next entry
\* before: an entry added behind the last one is not visited.
ScanTimeouts ==
    LET e == tlist[h.i]
        hh == [h EXCEPT !.rq = e.rq, !.last = h.i = Len(tlist)]
    IN /\ h.pc = "scan"
       /\ h.local = << >>
       /\ \/ /\ e.left > 0
             /\ Proceed([hh EXCEPT !.i = @ + 1,
                                   !.next = IF @ = -1 \/ @ > e.left THEN e.left ELSE @],
                        tlist, timer)
             /\ UNCHANGED complete
          \/ /\ e.left = 0
             /\ complete[e.rq]
             /\ Proceed(hh, RemoveAt(tlist, h.i), timer)
             /\ UNCHANGED complete
          \/ /\ e.left = 0
             /\ ~complete[e.rq]
             /\ complete' = [complete EXCEPT ![e.rq] = TRUE]
             /\ tlist' = RemoveAt(tlist, h.i)
             /\ h' = [hh EXCEPT !.pc = "ask"]
             /\ UNCHANGED timer
       /\ UNCHANGED <<timeout, place, resets, hw, done, phase, bug>>

\* blk_abort_request, called by a driver for a request it was given.
blk_abort_request(r) ==
    /\ Unlocked
    /\ place[r] = "driver"
    /\ ~complete[r]
    /\ complete' = [complete EXCEPT ![r] = TRUE]
    /\ tlist' = blk_delete_timer(tlist, r)
    /\ h' = [Idle EXCEPT !.pc = "ask", !.rq = r, !.last = TRUE]
    /\ UNCHANGED <<timeout, place, resets, hw, done, timer, phase, bug>>

\* blk_abort_queue: elv_abort_queue starts and ends what is on the dispatch
\* queue, the timeout list moves to a local one.
blk_abort_queue ==
    LET queued == {r \in Requests : place[r] = "queued"}
    IN /\ Unlocked
       /\ queued \cup Listed(tlist) # {}
       /\ place' = [r \in Requests |-> IF r \in queued THEN "free" ELSE place[r]]
       /\ bug' = (\E r \in queued : BugOnAdd(r))
       /\ timer' = IF queued = {} THEN timer
                   ELSE Min({round_jiffies_up(timeout[r]) : r \in queued} \cup ({timer} \ {-1}))
       /\ h' = IF tlist = << >> THEN Idle ELSE [Idle EXCEPT !.pc = "scan", !.local = tlist]
       /\ tlist' = << >>
       /\ UNCHANGED <<timeout, complete, resets, hw, done, phase>>

\* One turn of its loop, which calls blk_abort_request.  Requests that are
\* complete stay on the local list and are spliced back.
ScanAborts ==
    LET e == h.local[h.i]
        hh == [h EXCEPT !.rq = e.rq, !.last = h.i = Len(h.local)]
    IN /\ h.pc = "scan"
       /\ h.local # << >>
       /\ \/ /\ complete[e.rq]
             /\ Proceed([hh EXCEPT !.i = @ + 1], tlist, timer)
             /\ UNCHANGED complete
          \/ /\ ~complete[e.rq]
             /\ complete' = [complete EXCEPT ![e.rq] = TRUE]
             /\ h' = [hh EXCEPT !.pc = "ask", !.local = RemoveAt(@, h.i)]
             /\ UNCHANGED <<tlist, timer>>
       /\ UNCHANGED <<timeout, place, resets, hw, done, phase, bug>>

\* blk_rq_timed_out: the driver has finished the request itself
\* (BLK_EH_HANDLED), or its error handler takes it (BLK_EH_NOT_HANDLED).
TimedOut ==
    /\ h.pc = "ask"
    /\ \/ /\ done' = Append(done, h.rq)
          /\ place' = [place EXCEPT ![h.rq] = "softirq"]
          /\ hw' = hw \ {h.rq}
       \/ /\ place' = [place EXCEPT ![h.rq] = "eh"]
          /\ UNCHANGED <<done, hw>>
    /\ Proceed(h, tlist, timer)
    /\ UNCHANGED <<timeout, complete, resets, phase, bug>>

\* It wants more time (BLK_EH_RESET_TIMER): the flag is cleared ...
ResetTimer ==
    /\ h.pc = "ask"
    /\ resets[h.rq] < MaxResets
    /\ resets' = [resets EXCEPT ![h.rq] = @ + 1]
    /\ complete' = [complete EXCEPT ![h.rq] = FALSE]
    /\ h' = [h EXCEPT !.pc = "readd"]
    /\ UNCHANGED <<timeout, place, hw, done, tlist, timer, phase, bug>>

\* ... and blk_add_timer puts the request back on the timeout list.
ReAdd ==
    /\ h.pc = "readd"
    /\ bug' = BugOnAdd(h.rq)
    /\ Proceed(h, Added(tlist, h.rq), Armed(timer, h.rq))
    /\ UNCHANGED <<timeout, place, complete, resets, hw, done, phase>>

HandlerStep == ScanTimeouts \/ ScanAborts \/ TimedOut \/ ResetTimer \/ ReAdd

Next ==
    /\ ~bug
    /\ \/ Tick
       \/ blk_done_softirq
       \/ blk_rq_timed_out_timer
       \/ blk_abort_queue
       \/ HandlerStep
       \/ \E r \in Requests :
             \/ blk_rq_init(r) \/ blk_start_request(r) \/ blk_complete_request(r) \/ Lost(r)
             \/ ErrorHandled(r) \/ Refused(r) \/ blk_abort_request(r)

\* Time passes, whatever the queue is busy with; the timer, the softirq and
\* error handling get the queue lock at last (ticket spinlocks serve in turn),
\* and a handler that has it goes on.  The hardware owes nothing.
Fairness ==
    /\ SF_vars(~bug /\ Tick)
    /\ SF_vars(~bug /\ blk_rq_timed_out_timer)
    /\ SF_vars(~bug /\ blk_done_softirq)
    /\ \A r \in Requests : SF_vars(~bug /\ ErrorHandled(r))
    /\ WF_vars(~bug /\ HandlerStep)

Safety == Init /\ [][Next]_vars
Spec == Safety /\ Fairness

-----------------------------------------------------------------------------
(* Properties *)

Entries == [rq : Requests, left : Nat]

\* The type invariant; a handler's loop stands on an entry of its list.
TypeOK ==
    /\ timeout \in [Requests -> Timeouts]
    /\ place \in [Requests -> {"free", "queued", "driver", "softirq", "eh"}]
    /\ complete \in [Requests -> BOOLEAN]
    /\ resets \in [Requests -> 0 .. MaxResets]
    /\ hw \subseteq Requests
    /\ done \in Seq(Requests)
    /\ tlist \in Seq(Entries)
    /\ timer \in Nat \cup {-1}
    /\ phase \in 0 .. HZ - 1
    /\ h \in [pc : {"idle", "scan", "ask", "readd"}, rq : Requests \cup {None}, i : Nat \ {0},
              last : BOOLEAN, next : Nat \cup {-1}, local : Seq(Entries)]
    /\ h.pc = "scan" => h.i \in DOMAIN (IF h.local = << >> THEN tlist ELSE h.local)
    /\ bug \in BOOLEAN

\* The interrupt and the timeouts never both get a request: whoever has set
\* REQ_ATOM_COMPLETE has it, on the softirq list once, or with the error
\* handler, or with the timeout handler that is asking the driver.
OneOwner ==
    /\ TypeOK
    /\ \A i, j \in DOMAIN done : done[i] = done[j] => i = j
    /\ \A r \in Requests : place[r] = "softirq" <=> \E i \in DOMAIN done : done[i] = r
    /\ \A r \in Requests : place[r] \in {"softirq", "eh"} => complete[r]
    /\ \A r \in Requests : place[r] = "driver" /\ complete[r] => h.pc = "ask" /\ h.rq = r
    /\ h.pc = "ask" => place[h.rq] = "driver"

\* No timer outlives the use of its request: what is on the timeout list is
\* with the driver or completed and not ended yet, and is there once, so a
\* timeout never hits a request that was freed, requeued or started again.
NoStaleTimer ==
    LET s == tlist \o h.local
    IN /\ \A i, j \in DOMAIN s : s[i].rq = s[j].rq => i = j
       /\ \A i \in DOMAIN s : place[s[i].rq] \in {"driver", "softirq"}

\* A request the driver has and nobody has completed is watched.
Watched ==
    \A r \in Requests : place[r] = "driver" /\ ~complete[r] =>
        r \in Listed(tlist \o h.local) \/ (h.pc = "readd" /\ h.rq = r)

\* The timeout list is what it should be, at every step of a handler that
\* the interrupt runs into.
TimersExact == NoStaleTimer /\ Watched

Uniform == \A r, s \in Requests : timeout[r] = timeout[s]

\* While the lock is free and a request is watched, the one timer of the
\* queue is running, and when all requests have the same timeout it expires
\* within a second of the earliest deadline.
TimerCovers ==
    Unlocked => \A i \in DOMAIN tlist : /\ timer >= 0
                                        /\ Uniform => timer <= tlist[i].left + HZ

\* What the code asserts: the BUG_ONs of blk_add_timer (blk-timeout.c:172-173)
\* never fire.
NoBugOn == ~bug

\* They fire in one race only: the hardware answers between
\* blk_clear_rq_complete and blk_add_timer (blk-timeout.c:90-91) of a request
\* whose driver has asked for more time.
BugOnlyInReset == [][bug' => h.pc = "readd" /\ complete[h.rq] /\ h.rq \notin Listed(tlist)]_vars

\* Whatever the hardware loses and however often it answers late, a request
\* that was started is ended or back on the queue at last, as long as its
\* driver asks for more time only finitely often (MaxResets) and no BUG_ON
\* stops the system (bug, see NoBugOn).
RequestsComeBack ==
    \A r \in Requests : place[r] = "driver" ~> place[r] \in {"free", "queued"} \/ bug
=============================================================================
