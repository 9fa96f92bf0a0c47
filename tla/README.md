# A verification of the team's block I/O scheduler and its surroundings

The repository is a Linux 2.6.34.7 tree in which a team replaced or added a few
parts: the LOOK I/O scheduler (`block/look-iosched.c`), a best-fit SLOB allocator
(`mm/slob.c`), the option that selects LOOK (`block/Kconfig.iosched`) and a
program that calls its two accounting system calls (`simple/simple.c`). Everything else is upstream. The project models the
team's code in detail, and the upstream code as far as the team's code depends on it
or is called by it. All paths below are relative to `src/linux-2.6.34.7/`.

## 1. Inventory

| part | state | operations | hard behaviour |
|---|---|---|---|
| LOOK (`block/look-iosched.c`) | `struct look_data`: a list of requests, `cur_pos`, `dir` | add, dispatch, former, latter, merged, empty, init, exit | which request is next; starvation; a head position computed from one bio of a merged request |
| elevator core (`block/elevator.c`) | merge hash, `last_merge`, `nr_sorted`, `queue_head`, `end_sector` | `elv_merge`, `elv_merged_request`, `elv_merge_requests`, `elv_dispatch_sort`, `elv_insert`, `elv_drain_elevator`, switch | caches that must follow requests as they grow, join and leave; barriers against reordering |
| request queue (`block/blk-core.c`, `blk-merge.c`, `blk-exec.c`) | requests, plug, timer, work, stopped flag | `__make_request`, plug and unplug, run, peek, dequeue, end | the lock is dropped between the merge attempt and the insertion; timer, kblockd and waiters race for the plug |
| driver (`drivers/block/virtio_blk.c`) | requests in the ring, a memory pool | request function, completion callback | a full ring or pool stops the queue; completions come in any order |
| request pool (`get_request`, `freed_request`) | counts, full and congested flags, wait queues | allocate, wait, free | limits, batching, exclusive wakeups |
| barriers (`block/blk-barrier.c`) | `ordseq`, proxy requests | start, complete | order of flushes and of the barrier |
| timeouts (`block/blk-timeout.c`, `blk-softirq.c`) | deadline list, `REQ_ATOM_COMPLETE` | add timer, time out, complete, abort | timeout against completion |
| scheduler choice (`elevator_init`, `elevator_switch`, `Kconfig.iosched`) | registered schedulers, `q->elevator`, `QUEUE_FLAG_ELVSWITCH` | register, init, switch | quiescing under load; undoing a failed switch |
| SLOB (`mm/slob.c`) | a list of pages, free blocks with headers in each page, page counter, `PageSlab` flags | kmalloc, kfree, caches with and without RCU, the two accounting system calls | best fit with alignment; coalescing; the lock is dropped before a new page is added and before an empty one is returned; counter and list walk without the lock |

How they interact. A process submits a bio to `__make_request`, which asks the
elevator for a request to merge it into (`elv_merge`), lets the scheduler offer list
neighbours for a second merge, or gets a request and inserts it, which calls
`look_add_request`. The queue is plugged while it is empty; a full plug, the timer
through kblockd, or a waiting process unplugs it and calls the driver's request
function, which peeks at requests. When the dispatch queue is empty that calls
`look_dispatch`, which moves one request with `elv_dispatch_sort`. The driver's
interrupt ends requests, restarts a stopped queue and runs it. All of it happens
under `q->queue_lock`, but not in one critical section.

Properties that make each part correct: a scheduler owns what it was given, hands each
request over once, and eventually; a sweep serves in order and passes over nothing;
each page of SLOB is divided exactly among free blocks
and objects, and each page frame has one owner;
no bio is lost, doubled or attached to the wrong request by a merge; merge caches refer
to requests that may still grow, under their present end; a driver's request does
not change; a barrier is one; the queue never sleeps with work in it; everything
completes. The counters of the request pool are exact, since its limits and the drain of
a scheduler switch rest on them, and no sleeper is forgotten. A request never meets a
scheduler other than the one that set it up. What is submitted before a barrier is
finished before it, and nothing submitted after it overtakes it, also when the driver puts
requests back. A request has one owner, its interrupt or its timeout, and comes back
whatever the hardware loses.

## 2. Modules

| module | models | state and actions |
|---|---|---|
| `LookPick` | the choice in `look_dispatch` | relations on a list: nearest at or above, at or below, the direction switch |
| `LookScan` | the loop of `look_dispatch`, one step per list entry | `pos`, `higher`, `lower` are the C variables; `Visit` is a pass, `Choose` the statements after the loop |
| `IoSched` | what `elevator.c` needs from any scheduler | `held`, `out`; `Add`, `Merge`, `Dispatch`, `Release`, `Exit`, `Start` |
| `Look` | LOOK under the calls of the block layer | `queue`, `cur_pos`, `dir` are the fields of `look_data`, `elvpriv` the requests that `q->rq.elvpriv` counts; one action per call made under the queue lock |
| `BlkQueue` | elevator core, request queue, plugging, LOOK and virtio_blk | see below |
| `SlobBlock` | headers of free blocks, the comparison in `find_best_fit_block` and the search that repeats it | operators on the words of a page |
| `Slob` | the allocator, its callers and the system calls, used by several threads | see below |
| `SlobWalk` | `Slob` with a history variable: which walks of `sys_get_slob_amt_free` have met no change of the heap | `calm` |
| `RequestPool` | `struct request_list`: `get_request`, `get_request_wait`, `freed_request`, batching, `queue_requests_store` | see below |
| `ElvSwitch` | `RequestPool` together with `elevator_switch` | `sw` is where the switch is, `ops` the schedulers that exist; one action per critical section |
| `OrderedQueue` | the ordered sequence of `blk-barrier.c` with the colouring, draining and requeueing of `elevator.c` | see below |
| `RqTimeout` | `blk-timeout.c` and `blk-softirq.c` | see below |
| `LookScanProofs`, `LookProofs`, `SlobProofs`, `PoolProofs`, `TimeoutProofs`, `OrderedProofs`, `BlkProofs` | theorems | |
| `ListLemmas` | lemmas about kernel lists that the proofs share: the least index, entries added in front, at the end, in the middle or unlinked, and which entry stands before which | |
| `MCLookScan`, `MCLook`, `MCBlkQueue`, `MCSlob`, `MCElvSwitch`, `MCOrderedQueue`, `MCRqTimeout` | instances for TLC | |

A request on LOOK's list is a record of its identity, its start, its length and the
length of its first bio, because `look_dispatch` computes `cur_pos` from the first
bio. Overlapping requests are allowed: nothing in the block layer forbids two bios for
one sector. `look_exit_queue` does not look at the list before its `BUG_ON`; in the model it is
enabled when `elvpriv` is empty, which is what `elevator_switch` waits for, and
`LinkedOnce` states that the list is empty then.

`BlkQueue` has one variable per field of the code that matters: LOOK's list holds
request names, `rqs` the requests with their bios, `queue_head`, `hash`,
`last_merge`, `nr_sorted` and `end_sector` are the elevator's, `plugged`, `stopped`,
`timer`, `work` and `kblockd` the plug's. The queue lock is the variable `cs`: the
calls its owner still has to make, in order. A short critical section is one action;
one that loops or calls back (a forced drain, a run of the request function, the
completion callback) puts its continuation in `cs` and is executed one pass at a time,
during which only the timer interrupt and kblockd's look at the plug flag can run, as in
the code. `__make_request` is two critical sections, with the request allocated in
between. A file system request is named after the bio it was allocated for. The
allocation of a request always succeeds. The hash is one chain with the slot
of each entry; the model's slot function is a modulus, chosen so that different ends
share a slot.

`Slob` keeps, for each page frame, `sp->units`, `sp->free` and the words of the page, in
which headers are encoded as `set_slob` does it: the chain of free blocks is what
`slob_next` reads, not a list of its own. Words that are no header are 0, since they
belong to owners of objects or are left over. `list` is the only list of pages the
team's version uses, `slab` the flags `kfree` looks at, `buddy` the page allocator
(external: it gives any free pages, or refuses at any time), `objs` what callers hold,
with the size they will be freed with. A critical section of `slob_lock` is one action. `slob_alloc` has
two, with `slob_new_pages` in between; `slob_free` returns an empty page after the lock is
dropped. `pages_alloc++` and `--` are a load and a store. `sys_get_slob_amt_free` walks
the list one page at a time without the lock. A free under RCU keeps the object until some thread
runs the callback. Sizes are in bytes, so the rounding of `SLOB_UNITS` and the comparisons
with `PAGE_SIZE` are the code's. `Search` is a recursive function
that passes `best` from block to block through `Improve`. `best.block_size` is a `slobidx_t`, 16 bits
with a sign on these pages, and starts as `PAGE_SIZE + 1` (line 426): `slobidx_t` in the model narrows it, and
`BlockSizeFits` holds for pages of up to 16K. The build is the one without NUMA; requests of size 0 do not reach the allocator.

`RequestPool` has one variable per field of `struct request_list` and per flag of the
queue; `pc` and `call` are where each task is in `get_request_wait` and its locals, `ioc`
its batch. `get_request` accounts for a request, drops the lock and allocates, so an
allocation is two actions, and a scheduler switch, a free or a resize may come in between.
Requests are counted by direction and by the scheduler that set up their private data. The
times of batching are abstracted to whether a batch has run out, which may happen at any
time. Allocating an io_context succeeds, and no scheduler in scope has a `may_queue` or
`set_request` method. `ElvSwitch` adds `elevator_switch`: each stretch it spends under the
queue lock is one action, and `Reattach` is the assignment that a failed registration makes
without it. Writes to sysfs hold `q->sysfs_lock`, hence one switch at a time, and no
resize during one.

`OrderedQueue` numbers requests in the order of submission. `queue`, `flight` and `sched` are
`q->queue_head`, what the driver has and what the scheduler holds; `ordseq`, `ordered`,
`orig`, `orderr` and `ordcolor` are the fields of `struct request_queue`, and the three proxy
requests are the numbers below zero. The driver is external: it fetches, completes, fails a part
of a barrier, or puts a request back. Completions come in any order, in every mode, as
`Documentation/block/barrier.txt:190-195` says they may. What a driver that orders by tag may put back is
restricted as that document restricts it: requests can be requeued (lines 197-202), but an earlier one not
while later ones are completed (204-206). The history variable `overtaken` holds the
requests in flight that have seen a later one end; these are not put back, and neither is one
behind which others are still in flight, since those may end next. Without
this an empty barrier can wait for ever for a drain that nobody notices. A request inserted during a
scheduler switch goes to the back of the queue whatever its kind (`elevator.c:725-727`).

`RqTimeout` has the timeout list with the jiffies left to each deadline, the one timer of the
queue, and the handler that holds the lock (`h`: the loop variables of
`blk_rq_timed_out_timer`, `blk_abort_queue` and `blk_abort_request`), which takes one turn
at a time. `blk_complete_request` does not take the lock, so it runs between any two of
those turns, and between `blk_clear_rq_complete` and `blk_add_timer`. The hardware (external)
answers or loses a command, or refuses it, and then the driver puts the request back itself
(`Refused`; `blk-core.c:942-945`, as in `scsi_lib.c:1586`); the driver answers a timeout in each of its three ways. The
done lists of the processors are one list. The offset that `round_jiffies_up` adds per
processor is left out.

Definitions whose comment begins with "Faulty variant" are not part of the model: each
is a plausible mistake in the code it stands for, and shows that a property would
notice it.

## 3. Runs

| run | checks | instance |
|---|---|---|
| `scan` | `ScanChoosesNext` | every list of 1 to 4 requests on 4 sectors, every head position and direction |
| `look` | `LinkedOnce`, `UpSweepAscends`, `NothingSkipped`, `ImplementsIoSched`, `UpSweepEnds` | 3 request structures, 4 sectors, bios of 1, requests of up to 3 |
| `look_starve` | `DownSweepEnds`, violated | 2 request structures, 5 sectors |
| `blk` | `NoStall`, `OnePlace`, `MergesSound`, `MergeCachesFresh`, `BackInsertIsBarrier`, `ImplementsLook`, `DispatchedIsFrozen`, `EverythingCompletes` | 3 bios side by side, one of them apart or two in one place, at most one of which is longer, a write or marked `BIO_RW_UNPLUG`; 2 packet commands when all are plain and two are in one place; at most 3 sectors in a request |
| `slob` | `HeapSound`, `PagesConserved`, `NoBug`, `FreeReported`, `NoNeedlessPage`, `BestFit` | 2 threads, one of which walks, 3 pages of 10 units, sizes on both sides of the page limit, a plain cache, one with RCU and one of two-page objects, up to 3 objects |
| `slob_aligned` | `BestFit`, violated | 1 thread, pages of 16 units, a cache aligned to 4 units |
| `slob_count` | `PagesCounted`, violated | 1 thread, a large object |
| `slob_lost` | `PagesCounted`, violated | 2 threads, small objects |
| `pool` | `CountsExact`, `FlagsExact`, `NoIdleSlot`, `PrivMatches`, `ElevatorLife`, `SleepersWoken`, `SwitchEnds` | 2 tasks, a limit changed between 2 and 3 at any time, batches of 1, both directions, switches that succeed and fail |
| `ordered` | `TypeOK`, `StagesInTurn`, `BarrierOrder`, `BarriersInOrder`, `ErrorReported`, `EverythingEnds` | every sequence of 4 requests (file system, barrier, empty barrier, packet command), 5 modes (none, draining with and without flushes, tags with and without a flush and FUA), two requests put back |
| `timeout` | `OneOwner`, `TimersExact`, `TimerCovers`, `RequestsComeBack` | 2 requests with equal and unequal timeouts of 1 and 3 jiffies, 2 jiffies in a second, one reset per start |
| `timeout_bug` | `NoBugOn`, violated | the same |

Several of these are conjunctions of named parts: `MergesSound` of `BiosConserved` and
`RequestsAreContiguous`, `HeapSound` of `PageSound` and `ListSound`, `StagesInTurn` of
`StagesOnce`, `HeadInTurn` and `PartsInTurn`, `BarrierOrder` of `DrainOrder` and `TagOrder`,
`TimersExact` of `NoStaleTimer` and `Watched`. `PagesConserved` includes `RightWayBack`, and `OnePlace`,
`PageSound` and `OneOwner` include the type invariants of their modules. `ScanInv`, the type
invariants of `Look` and `ElvSwitch`, `WaitersQueued` and `BugOnlyInReset` are proved and not listed in a run.

What they show.

* The loop of `look_dispatch` is right: it dereferences no NULL pointer, although it
  does not test for one, and it chooses the nearest request on the side the head moves
  to, the first in the list among equals.
* Up sweeps are in order and end. Down sweeps are not: because the head position is the
  end of the request served (of its first bio, even), a request that begins anywhere
  inside the one just served counts as lower and comes next, and a stream of such requests starves
  everything below (`look_starve`). It is recorded as a finding against the help text in
  `Kconfig.iosched`.
* Merging is sound in every interleaving of the instance, including a bio that finds
  a request too large, marks it unmergeable and is queued alone.
* A queue that the driver has stopped always has a request in flight, because the
  driver's pool keeps one structure in reserve: allocation does not fail when nothing is
  in flight. Without that reserve a stopped queue could sleep for ever.
* The pool's two counters are exact and its flags follow the limits although three code
  paths set and clear them. No wakeup is lost: wakeups are exclusive and a woken task may find
  its slot taken, but then whoever took it wakes the next. What is not true is what the comment at
  `blk-core.c:844` hopes for, that a woken batcher "will be able to allocate at least one
  request": other batchers can reach the 3/2 limit first, and it sleeps again. A write
  that raises `nr_requests` by several wakes one task only; the others wait for the next free.
* A scheduler switch drains exactly the requests that carry private data, and ends although
  requests keep coming. When the new scheduler cannot be registered, `elevator_exit` takes
  the operations from it while the queue still points at it, until the old one is
  attached again a few lines further down, without the queue lock (`elevator.c:1044`).
  `ElevatorLife` states that this is the only window.
* Barriers by draining separate what came before from what came after, in every order of
  completions, with parts that fail, and with requests put back into the middle of a
  sequence; the assertions of `blk-barrier.c` (lines 99 and 274) hold. By tag, barriers end in
  order and no stage comes out of its turn although the device reports completions in any order.
* A request belongs to its interrupt or to its timeout and never to both, and no timer
  outlives it. One assertion can be reached (`timeout_bug`, a finding): the hardware may answer between
  `blk_clear_rq_complete` (line 90 of `blk-timeout.c`) and `blk_add_timer` of a request whose driver
  asked for more time, and the second `BUG_ON` of `blk_add_timer` fires. `BugOnlyInReset`, which is
  proved, states that this is the only way. `RequestsComeBack` claims nothing once that has stopped the
  system, nor for a driver that asks for more time for ever. With unequal timeouts the timer can be late: the handler sets it for the
  earliest deadline among the requests it visited and not for one it has just put
  back at the end of the list; `TimerCovers` claims promptness for equal timeouts, which is what
  a queue has by default, and only that the timer is running otherwise.
* SLOB's pages are exact in every order of allocations and frees, with and without
  padding, and no page is lost when threads race between its critical sections. The search
  is a best fit as long as padding is at most one unit; with forced alignment it is not
  (`slob_aligned`): the 5-unit block at offset 1 fits an object aligned to 4 units with a
  rest of 1, but is replaced by the 7-unit block at offset 9 with a rest of 3, because 3 is
  compared with 5 - 1.
* The page counter is not right. Large objects are counted once and never uncounted
  (`slob_count`), and since it is changed outside the lock two threads can lose an update of it with
  small objects only (`slob_lost`). The amount free is short by exactly one unit per page on
  the list, as long as the heap does not change during the walk, whatever other threads do
  meanwhile (`FreeReported`); if it does change, the walk can follow the link of a page just taken off the list.
* With pages of 32K, which MIPS offers, the bound the search starts with wraps to a negative number and every block that
  is not an exact fit is overlooked (`WideSearchMisses`, a theorem: the words of such a page are
  beyond a run). No `BUG_ON` is reached, because the second attempt of `slob_alloc` (line 511) is
  `slob_page_alloc`, which takes the first block with room and does not use `best`.

Bounds. Three requests are the least with which a request between two others can
join both and with which one can arrive between two dispatches of others. Four or five
sectors leave room for a gap, for overlap and for adjacency. Three bios and two packet commands are the least
with which, in `blk`, one request is in flight, a second one waits for the stopped driver, a
forced drain puts a third, not started, behind it, and a bio looks for a merge or
is sorted against a command that waits there. The commands come with one workload, in which all bios
are plain (`Sent`); in the others they have completed before it. Bios arrive in every order, so the
workloads differ only in where the bios lie and in which one is odd. The hash has two slots of
two-sector blocks, so that different ends share a slot and a merge may or may not
change slot. `UnplugThresh` and `Depth` are reached by the instance. Bios and commands are
submitted once each. SLOB pages
have 8 to 16 units: with objects of 2 or more units, that is room for blocks of one unit (whose
header is one word), for a free block with a neighbour on each side, and for two
blocks that both have room. Two pages are the least with which the search compares pages, and three
let a two-page object and the heap exchange pages. `UIntMod` stands for 2^32; in
`slob`, which has no property about the counter, it is 1 so that the drift of the counter makes
no new states. `MaxSum` is the memory of the machine: it ends walks that a changing list keeps going round. In `pool` two tasks share a limit of 2, so that one can hold all
requests while the other sleeps; 8 outstanding requests are more than the limit of 3/2 ever lets
through. Batches of 1 already let a task past the limit; with batches of 2, of which a half may
run out of time, and a limit that is only raised, the run passes as well but takes long. Four requests are the least with which two barriers are each surrounded by others, and those
put back meet every stage of a sequence. In `timeout`, timeouts of 1 and 3 jiffies
with 2 in a second make deadlines fall in one rounded second and in different ones.

Symmetry is used over page frames and threads that do not walk, in `slob` only, which has no liveness
property; nothing orders them.

Fairness. In `Look`, a request function keeps calling the dispatch function while there
are requests: weak fairness of `Dispatch`. In `BlkQueue`: the owner of the lock goes
on; a process that has been given a request inserts it; the device answers; the
timer expires; kblockd runs its work and gets the lock. No fairness is assumed of
processes that may or may not unplug the queue because they wait. In `ElvSwitch`: tasks
go on, the device completes what it was given, a switch that has begun proceeds; new
requests, resizes and switches need not come. In `OrderedQueue`: the driver runs its queue
again after completions, and the device answers. In `RqTimeout` time passes, and the
timer, the softirq and the error handler get the lock at last although others take it again
and again (strong fairness: the spinlock serves in turn); the hardware owes nothing.

Deadlock is checked in every run except `scan`, whose algorithm terminates, `ordered`,
whose workload ends, and `timeout` and `timeout_bug`, in which a `BUG_ON` stops the system; in
`BlkQueue` the only state without a successor would be one in which work is left, as
`Finished` stutters when everything has completed.

## 4. Proofs

`LookScanProofs` proves, for every list of every length, every head position and
direction, that the two pointers are the answer for the part of the list visited
(`ScanInvariant`, by induction over the steps: the visited part grows by one entry) and
that the choice after the loop is `IsNext` (`ScanCorrect`). `ScanAssumption` says that
lists are not empty and hold sector numbers.

`LookProofs` proves about `Look`, for every set of requests, capacity, set of bio sizes
and merge limit (`LookAssumption`: positive, and no bio larger than the device):

* `Invariance`: `TypeOK /\ LinkedOnce` is inductive. Neither is by itself: that a
  dispatched request is not on the list any more needs that it was there once, and a
  merge keeps the list well formed only because requests lie on the device. That
  `elvpriv` counts exactly what is on the list or dispatched is what empties the list of a
  scheduler torn down; the restart of the scheduler needs it in the refinement.
* `TypeCorrect`, `NeverLinkedTwice`: its parts.
* `SweepAscends`, `SweepSkipsNothing`: action properties, from the invariant and
  `ServedByDispatch` (nothing but `look_dispatch` hands requests over).
* `Refinement`: `Look` implements `IoSched`, mapping the list to the set of its extents.
  The work is in `GrowAndMerge`: a bio merged at either end, followed or not by a join
  with a neighbour, replaces a set of extents by one that covers them.

`SlobProofs` proves about the operators of `SlobBlock`, for every page size that `slobidx_t`
admits (`PageAssumption`):

* `HeaderRoundTrip`: what `set_slob` writes for a block in the page is what `slob_units`,
  `slob_next` and `slob_last` read, and it writes in the block only. The case of one unit,
  with its negated offset, is the interesting one.
* `SearchFinds`: the search finds a block with room exactly if it visits one, for every
  sequence of blocks, object and alignment, if `BlockSizeFits`. That the first candidate is always accepted rests on
  `PAGE_SIZE + 1` being in bytes, twice what a page has in units. `WideSearchMisses` is the other case:
  the search finds nothing but exact fits.
* `SearchIsBestFit`: with alignments of at most two units a block that is found leaves least, on pages of every size.
  The invariant must carry that `best` is a block of the sequence and `block_size` its
  size; then a replacement has a rest below the old rest plus at most one unit of padding.

and about `Slob`, for every page size, finite set of pages, set of threads, set of `kmalloc` sizes and
of caches, and every minimal alignment of at least one unit (`SlobAssumption`):

* `PagesStaySound`, `HeapStaysSound`, `PagesStayConserved`, `NeverBug`: the four invariants of the
  heap, with any number of threads between the critical sections.
* `NoPageNeedlessly`, `AllocatesBestFit`: what the search promises, as action properties of the whole
  allocator. The first assumes `BlockSizeFits`. The second assumes `AlignsSmall`, alignments of at most two
  units; `slob_aligned` shows that it fails without.
* `FreeMemoryReported`: what a walk of the list returns, about `SlobWalk`, with any number of threads.

The argument has three layers. First, one page: `Exact(pg, F)` says that the words of a page are the
headers of the maximal runs of the set `F` of free units, in ascending order, each naming the next and the last
one the end of the page. `WalkVisits` shows that the chain read out of the words then visits the heads of these
runs and nothing else. `CarveExact` and `GiveBackExact` show that cutting an object out of a free block,
with or without a fragment on either side, and giving units back, with or without a free neighbour on
either side, turn `Exact(pg, F)` into `Exact` of `F` without, or with, those units; `TidyExact` that
words nobody reads do not matter. This is where the work is: each of the cases rewrites up to three headers, of
which those of one unit have another encoding.

Second, the heap: `HeapOK` says that every page that holds small objects is exact for the units no
object covers, that objects do not overlap and that the list is right. `PlaceHeap` and `FreeHeap` lift the page lemmas to
the two critical sections, and `CandidatesFacts` says that the blocks visited by the search are all free blocks of pages
with enough units.

Third, the threads: `OwnersOK` says that each page has one owner (the page allocator, the heap, one large object
or one thread) and that `PageSlab` is set from before a page joins the heap until after it
has left it. The inductive invariant `SlobInv` is the conjunction of the three with the types. No part of
it is inductive alone: a page that `slob_free` finds empty may be dropped only because the free units of an exact page
are counted right; `kfree` finds the way back only because of the flag; that `AddPage` does not
meet the page in use needs the owners; and that the second search succeeds needs that a request kept across the unlocked
window is smaller than a page: the second search is `slob_page_alloc`, so that `NeverBug` does not depend on how
`best` starts and holds for pages of every size. `WalkSum` adds how far an undisturbed walk has come and what it has summed up.

`PoolProofs` proves about `ElvSwitch`, for every set of tasks, initial limit and limits
written later, batch and workload (`PoolAssumption`: the least limit is above 1, as
`BLKDEV_MIN_RQ` is, and the tasks are finitely many), the five invariants of
the run, the type invariant and what the wait queues hold:
`PoolTypeCorrect`, `PoolCountsExact`, `PoolFlagsExact`, `PoolWaitersQueued`,
`PoolNoLostWakeup`, `PoolPrivMatches` and `PoolElevatorLife`. They are
proved together (`PoolInvariant`), because each needs others: a counter does not
go below zero because it is exact; it stays exact across a wakeup because who is woken was
asleep and not allocating, which is what the wait queues say; a refused task may sleep because
the full flag tells the truth; nothing of the old scheduler is left at
`elevator_attach` because `elvpriv` is exact, and nothing new comes because the flag
`ELVSWITCH` is set. `SwitchState` adds what the position of a switch says about the flag and the
schedulers that exist. The argument for `NoIdleSlot` is in `Freed`: freeing a request lowers
the count by one and, if it is below the limit, wakes one sleeper, which the sum counts
again; if it is not, the count alone is at least the least limit.

`TimeoutProofs` proves about `RqTimeout`, for every set of requests, every assignment of
timeouts and every number of jiffies in a second (`TimeoutAssumption`: positive), the three
invariants of the run and the action property `BugOnlyInReset`, which confines the failure of `timeout_bug` (`SafetyOneOwner`,
`SafetyTimersExact`, `SafetyTimerCovers`, `StepsBugOnlyInReset`). The inductive invariant has, beside the types,

* who has a request (`Owned`). `OneOwner` is not inductive: that a late answer of the
  hardware finds the flag set needs that the hardware can only answer for requests which are with
  the driver or the error handler;
* where a handler stands (`HandlerOK`): on an entry of the list it walks, with a request that
  is on neither list while the driver is asked and the timer is set again;
* what is on the two lists (`ListsOK`): the timeout list and the private list of an abort have no
  request in common, and together they hold what the driver has;
* what the timer owes (`Covered`, `Owes`). `TimerCovers` speaks of the lock being free; in
  between, the loop's local variable `next` must be at most the deadline of everything it
  has passed, or the timer itself must be early enough. That `round_jiffies_up` adds at most one second is `RoundUp`.

`OrderedProofs` proves about `OrderedQueue`, for every number of requests and of requeues, every
assignment of kinds and every mode that `blk_queue_ordered` accepts (`OrderedAssumption`), all
five invariants of the run: `SafetyTypeOK`, `SafetyStagesInTurn`, `SafetyBarrierOrder`,
`SafetyBarriersInOrder`, `SafetyErrorReported`. The proofs see a list as the set of its entries and the
relation `Prec` of standing before. The inductive invariant relates four things:

* `Behind(x, y)`, which entry may stand behind which, holds along the queue and, while a sequence
  runs, from the driver to the queue; with tags also among what the driver has. A part of a
  barrier stands behind what was submitted before the barrier and in front of what was submitted after.
* `Coloured` and `SameColour`, what one bit of colour says: between two requests of which the first is a
  barrier the colour changes, unless another barrier changes it back. Since two barriers are
  enough to bring the colour back, `blk_ordered_req_seq` may be wrong about a request in the middle of
  the queue; it is right about the head, about what is put back, and about what comes to
  stand before that, because of the barrier in between (`ColourInQueue`, `ColourInFlight`, `RequeuedBehind`).
* `Ahead` and `EndedAfter`: nothing has overtaken a barrier that waits, and a barrier that has ended
  came after all before it. `BarriersInOrder` follows from them; by itself it is not inductive.
* `Sequence`: a part is in the queue or with the driver as long as its stage is open; by draining, once
  `DRAIN` is complete everything before the barrier has ended, and a part is with the driver
  only when all stages before it are complete. That the end of draining
  means what it says is `DrainedMeans`. By tag, completions may come out of order: what is before an
  ended barrier has ended or is with the driver and has been overtaken (`Before`, `Passed`, `EndsBehind`), so
  that it can no longer be put back behind the barrier.

The restriction on what a driver that orders by tag puts back (section 2) is part of
the action `elv_requeue_request` and hence of these theorems.

`BlkProofs` proves about `BlkQueue`, for every set of bios and packet commands, every assignment of
extents and directions to the bios, every choice of the commands that come with it, every device size, merge limit, threshold, virtqueue depth and
hash (`QueueAssumption`: sizes are positive, bios lie on the device), all safety properties of its
run. The lists are handled as in `OrderedProofs`, by their entries and `Prec`; `WithoutEntries` shows what
the recursive function `Without` leaves of a list, by the least length at which it would go wrong.

* `SafetyNoStall` needs `Served` only. `NoStall` speaks of the lock being free, so the invariant
  must say what the owner of the lock still owes in between: `Shapes` lists the thirteen sequences of calls a critical
  section can still have to make, and a queue with requests has one in flight, a plug with
  somebody on the way to it, or a call that will look at the queue. That
  a stopped queue has a completion to come is where the reserve of the driver's pool enters.
* `Invariant`: `QInv` is inductive. Its parts need each other. `RqsOK`: a request's extent is that
  of its bios, in order and without a gap; a back merge keeps it because the hash found the
  request under its present end. `Carry`: a bio is carried once; that two requests can be joined
  without doubling a bio needs that no two of them share one. `Places`: which requests are
  where; a join frees a request that must not be anywhere else. `Caches`: `Fresh` is what makes a
  merge find only requests that are still on LOOK's list, and without it neither
  `Places` nor what follows holds.
* `SafetyOnePlace`, `SafetyCachesFresh` and `SafetyMergesSound` restate parts of `QInv` in the words of
  the run (the first one with the types, for which `SafetySwitches` adds the flags of the queue).
* `SafetyFrozen`: no step changes the bios or the extent of a request that is not on LOOK's list
  (`Frozen`), because merges only touch what `Caches` leads them to.
* `SafetyBarrier`: `BackInsertIsBarrier` compares what has been issued with what was queued when the
  command came, but is broken long before by a request that ends up on the wrong side. `Inserting` says
  that a command that is being inserted has the lock, and that LOOK's list is empty when it
  reaches the end of the queue. `Apart` says that a command on the dispatch queue stands between: what precedes
  it or is in flight carries bios from before, what follows it or is still with LOOK carries
  none of them. A dispatch keeps this because the insertion sort stops at the soft
  barrier (`LineDispatch`), a merge because it only touches LOOK's requests.
* `SafetyImplementsLook`: `BlkQueue` refines `Look` step by step. LOOK's list of names is mapped to the
  list of entries with their extents (`LookQueue`), what has been dispatched and not freed to
  `out`, and both together to `elvpriv` (`LookPriv`). `LookAdd`, `LookDispatched`, `LookBack`, `LookFront` and `LookEnded` match the steps that touch
  the elevator; the others change nothing `Look` can see (`LookStutter`). The one that needs work is a
  merge followed by a join, where the neighbour on the list, the request that is unlinked and the extent
  of the result must be the same on both sides (`JoinedQueue`). That a request has one bio when it is
  added is part of `InLine`. Together with `Refinement` of `LookProofs`, the elevator inside the queue meets the
  scheduler contract `IoSched`.

The inductive invariants were checked with TLC, on the instances of the runs or smaller ones, before they were proved.

Every invariant and every action property of the passing runs is stated by a theorem. Only
model-checked: liveness, which is out of the prover's reach (`EverythingCompletes`, `SleepersWoken`, `SwitchEnds`,
`EverythingEnds`, `RequestsComeBack`, `UpSweepEnds`); the violations. The library's
induction theorems cannot be instantiated, so what a recursive function computes is proved by way of a counterexample
of least length (`WithoutEntries`, `WalkVisits`, `SearchBest`, `FreeUnitsFacts`), and that it has a value at
all by `RecursionExists`, which builds the function from its finite beginnings.

## 5. Not modelled, and the plan

In the order in which they are worth doing:

1. `noop` and `deadline` as further implementations of `IoSched`.
2. Looking schedulers up by name (`elevator_init`, `elevator_get`, `elv_register`). One
   fact about it needs no model: `DEFAULT_LOOK` gives `CONFIG_DEFAULT_IOSCHED` no string in
   `Kconfig.iosched:87`, so a kernel configured for LOOK by default finds no scheduler of
   that name and falls back to noop.

Not planned: CFQ and block cgroups (upstream, unchanged), disk registration, sysfs, limits,
user mappings and ioctls (configuration and copying), `simple/simple.c` (a test program), the
rest of the kernel: with over eleven million lines of upstream code, the models cover only the small part of the
repository the team's work touches. Partial completion, bounce buffers, segments, integrity data, discard
requests and I/O priorities do not change which request a bio belongs to or the order of
requests here, and are abstracted; `blkdev_issue_flush` and `blkdev_issue_discard` are callers of
what is modelled. Constructors of SLOB caches are callers' code, and the walk of
`sys_get_slob_amt_free` beside a thread that frees is modelled but has no property, since
nothing in the code makes it safe.
