-------------------------------- MODULE Slob --------------------------------
(***************************************************************************)
(* The SLOB allocator with the team's best-fit search and accounting       *)
(* (mm/slob.c), used by kernel threads that run concurrently.  A critical  *)
(* section of slob_lock is one action; what a thread does outside the lock *)
(* (take a page, return one, update pages_alloc, walk the list of pages)   *)
(* is a step of its own, and pc says what the thread has left to do.       *)
(*                                                                         *)
(* The model is the build without NUMA.  Words of a page that are no       *)
(* header of a free block are 0: they belong to the owners of objects, or  *)
(* are leftovers nobody reads.                                             *)
(***************************************************************************)
EXTENDS SlobBlock, SequencesExt

CONSTANTS
    Threads,        \* kernel threads and the softirqs that run callbacks
    Pages,          \* the page frames of the machine
    MinAlign,       \* ARCH_KMALLOC_MINALIGN = ARCH_SLAB_MINALIGN, in bytes
    SLOB_ALIGN,     \* L1_CACHE_BYTES
    StructBytes,    \* sizeof(struct kmem_cache)
    RcuBytes,       \* sizeof(struct slob_rcu)
    KmallocSizes,   \* sizes kmalloc is called with
    Caches,         \* caches that may be created
    CacheSpec,      \* what kmem_cache_create is told of each of them
    Walkers,        \* threads that call sys_get_slob_amt_free
    UIntMod,        \* 2^32: the counter is an unsigned int
    MaxSum,         \* bound: where a walk stops, which on a changing list need not end
    MaxObjects      \* bound on objects alive and being allocated

ASSUME SlobAssumption ==
    /\ MinAlign \in Nat /\ MinAlign >= SLOB_UNIT /\ SLOB_ALIGN \in Nat
    /\ RcuBytes \in Nat /\ UIntMod \in Nat \ {0} /\ MaxSum \in Nat
    /\ IsFiniteSet(Pages)
    /\ \A c \in Caches : CacheSpec[c] \in
          [size : Nat \ {0}, align : Nat, hwcache : BOOLEAN, rcu : BOOLEAN]
    /\ Walkers \subseteq Threads
    /\ StructBytes \in 1 .. PageBytes - 1
    /\ KmallocSizes \subseteq Nat \ {0}

VARIABLES
    sp,             \* struct slob_page of each page, and its words
    list,           \* free_slob_small, the only list that is used
    slab,           \* pages whose PageSlab flag is set
    buddy,          \* pages that belong to the page allocator
    objs,           \* objects that have been handed out
    pages_alloc,    \* the team's page counter
    pc              \* what each thread has left to do

vars == <<sp, list, slab, buddy, objs, pages_alloc, pc>>

-----------------------------------------------------------------------------
(* Requests for memory. *)

NoCache == "none"

\* Page frames of a compound page: 1 << order.
Frames[order \in Nat] == IF order = 0 THEN 1 ELSE 2 * Frames[order - 1]

\* The order of the compound page that holds size bytes.
get_order(size) == CHOOSE k \in 0 .. size :
    /\ PageBytes * Frames[k] >= size
    /\ k > 0 => PageBytes * Frames[k - 1] < size

Largest(S) == CHOOSE x \in S : \A y \in S : y <= x

CacheSize(c) == CacheSpec[c].size + (IF CacheSpec[c].rcu THEN RcuBytes ELSE 0)

\* Alignment is ignored unless it is forced.
CacheAlign(c) == Largest({MinAlign, CacheSpec[c].align,
                          IF CacheSpec[c].hwcache THEN SLOB_ALIGN ELSE 0})

Request(kind, c, size, align, big) ==
    [kind |-> kind, cache |-> c, size |-> size, align |-> align, big |-> big]

\* Faulty variant: the header is left out of the comparison with PAGE_SIZE.
__kmalloc_nodeNoHeader(size) ==
    IF size < PageBytes
    THEN Request("kmalloc", NoCache, size + MinAlign, MinAlign, FALSE)
    ELSE Request("kmalloc", NoCache, size, MinAlign, TRUE)

\* A small object is preceded by MinAlign bytes that hold its size.
__kmalloc_node(size) ==
    IF size < PageBytes - MinAlign
    THEN Request("kmalloc", NoCache, size + MinAlign, MinAlign, FALSE)
    ELSE Request("kmalloc", NoCache, size, MinAlign, TRUE)

kmem_cache_alloc_node(c) ==
    Request("object", c, CacheSize(c), CacheAlign(c), CacheSize(c) >= PageBytes)

kmem_cache_create(c) ==
    Request("struct", c, StructBytes, MinAlign, FALSE)

\* An object at offset at of its page, or a run of pages.
Object(rq, ps, at) ==
    [kind |-> rq.kind, cache |-> rq.cache, size |-> rq.size,
     align |-> rq.align, big |-> rq.big, pages |-> ps, at |-> at]

HasCache(c) == \E o \in objs : o.kind = "struct" /\ o.cache = c

Pending == {t \in Threads : pc[t].at \in {"new", "count", "init"}}

\* What callers may ask for: an object of a cache that exists, a cache that
\* does not exist yet.
Requests ==
    {__kmalloc_node(n) : n \in KmallocSizes}
    \cup {kmem_cache_alloc_node(c) : c \in {d \in Caches : HasCache(d)}}
    \cup {kmem_cache_create(c) : c \in {d \in Caches :
            ~HasCache(d) /\ \A t \in Pending : pc[t].rq.cache # d}}

-----------------------------------------------------------------------------
(* Free blocks of a page. *)

Idle == [at |-> "idle"]

\* A page that SLOB does not use.
FreshPage == [units |-> 0, free |-> 0, words |-> [i \in Offsets |-> 0]]

\* The offsets of the free blocks of a page, in the order of the chain.  It
\* is cut off where it turns back, which PageSound shows it never does.
Chain(pg) ==
    LET walk[s \in Offsets] ==
            IF slob_last(pg.words, s) \/ slob_next(pg.words, s) \notin s + 1 .. PageUnits
            THEN <<s>> ELSE <<s>> \o walk[slob_next(pg.words, s)]
    IN  IF pg.units = 0 THEN << >> ELSE walk[pg.free]

\* The page with every word that is no header set to 0.
Tidy(pg) ==
    LET heads == ToSet(Chain(pg))
    IN  [pg EXCEPT !.words = [i \in Offsets |->
            IF i \in heads \/ (i - 1 \in heads /\ pg.words[i - 1] > 0)
            THEN pg.words[i] ELSE 0]]

\* The free blocks of page p, in state pg, as the two searches visit them.
BlocksOf(p, pg) ==
    LET chain == Chain(pg)
    IN  [i \in DOMAIN chain |->
            [page |-> p, cur |-> chain[i],
             prev |-> IF i = 1 THEN NULL ELSE chain[i - 1],
             avail |-> slob_units(pg.words, chain[i])]]

\* The blocks of the pages that have enough units, in the order of the list.
Candidates(units) ==
    FlattenSeq([i \in DOMAIN list |->
        IF sp[list[i]].units < units THEN << >> ELSE BlocksOf(list[i], sp[list[i]])])

find_best_fit_block(rq) ==
    LET units == SLOB_UNITS(rq.size)
    IN  Search(Candidates(units), units, rq.align \div SLOB_UNIT).blk

\* The page pg after units have been cut out of its free block b.  A head
\* fragment in front of the aligned object stays free, and so does a rest.
Carve(pg, b, units, align) ==
    LET delta == Delta(b.cur, align)
        cur   == b.cur + delta
        w1    == IF delta = 0 THEN pg.words
                 ELSE set_slob(set_slob(pg.words, cur, b.avail - delta,
                                        slob_next(pg.words, b.cur)),
                               b.cur, delta, cur)
        prev  == IF delta = 0 THEN b.prev ELSE b.cur
        avail == IF delta = 0 THEN b.avail ELSE slob_units(w1, cur)
        next  == slob_next(w1, cur)
        exact == avail = units
        link  == IF exact THEN next ELSE cur + units
        w2    == IF prev = NULL THEN w1
                 ELSE set_slob(w1, prev, slob_units(w1, prev), link)
        w3    == IF exact THEN w2
                 ELSE set_slob(w2, link, avail - units, next)
    IN  [units |-> pg.units - units, words |-> w3,
         free  |-> IF prev = NULL THEN link ELSE pg.free]

\* slob_page_alloc: the first block of the page that has room.
slob_page_alloc(p, pg, rq) ==
    LET blocks == BlocksOf(p, pg)
        i == SelectInSeq(blocks, LAMBDA b :
                Fits(b, SLOB_UNITS(rq.size), rq.align \div SLOB_UNIT))
    IN  IF i = 0 THEN NoBlock ELSE blocks[i]

\* Faulty variant: a block is not joined with the one behind it.
GiveBackNoForwardMerge(pg, b, units) ==
    LET w    == pg.words
        prev == CHOOSE s \in ToSet(Chain(pg)) : slob_next(w, s) >= b /\ s < b
        w1   == set_slob(w, b, units, slob_next(w, prev))
    IN  IF b < pg.free
        THEN [units |-> pg.units + units, free |-> b,
              words |-> set_slob(w, b, units, pg.free)]
        ELSE [units |-> pg.units + units, free |-> pg.free,
              words |-> set_slob(w1, prev, slob_units(w, prev), b)]

\* The page pg, already partially free, after the units at b came back: b is
\* put in address order and joined with the free blocks it touches.
GiveBack(pg, b, units) ==
    LET w      == pg.words
        chain  == Chain(pg)
        prev   == chain[SelectInSeq(chain, LAMBDA s : b <= slob_next(w, s))]
        next   == slob_next(w, prev)
        first  == b < pg.free
        touch  == b + units = pg.free
        w1     == IF ~slob_last(w, prev) /\ b + units = next
                  THEN set_slob(w, b, units + slob_units(w, next), slob_next(w, next))
                  ELSE set_slob(w, b, units, next)
    IN  [units |-> pg.units + units,
         free  |-> IF first THEN b ELSE pg.free,
         words |->
            CASE first /\ touch  -> set_slob(w, b, units + slob_units(w, pg.free),
                                             slob_next(w, pg.free))
              [] first /\ ~touch -> set_slob(w, b, units, pg.free)
              [] OTHER           ->
                 IF prev + slob_units(w1, prev) = b
                 THEN set_slob(w1, prev, slob_units(w1, b) + slob_units(w1, prev),
                               slob_next(w1, b))
                 ELSE set_slob(w1, prev, slob_units(w1, prev), b)]

list_del(l, p) == RemoveAt(l, SelectInSeq(l, LAMBDA q : q = p))

-----------------------------------------------------------------------------
(* slob_alloc. *)

Init ==
    /\ sp = [p \in Pages |-> FreshPage]
    /\ list = << >>
    /\ slab = {}
    /\ buddy = Pages
    /\ objs = {}
    /\ pages_alloc = 0
    /\ pc = [t \in Threads |-> Idle]

\* Faulty variant: a page stays on the list when its last unit is taken.
PlaceKeepsListed(rq, b, pg, onlist) ==
    LET units == SLOB_UNITS(rq.size)
        align == rq.align \div SLOB_UNIT
    IN  /\ sp' = [sp EXCEPT ![b.page] = Tidy(Carve(pg, b, units, align))]
        /\ list' = onlist
        /\ objs' = objs \cup {Object(rq, {b.page}, b.cur + Delta(b.cur, align))}

\* The object rq is cut out of block b of a page in state pg; a page without
\* a unit left leaves the list (clear_slob_page_free).
Place(rq, b, pg, onlist) ==
    LET units == SLOB_UNITS(rq.size)
        align == rq.align \div SLOB_UNIT
        new   == Carve(pg, b, units, align)
        p     == b.page
    IN  /\ sp' = [sp EXCEPT ![p] = Tidy(new)]
        /\ list' = IF new.units = 0 THEN list_del(onlist, p) ELSE onlist
        /\ objs' = objs \cup {Object(rq, {p}, b.cur + Delta(b.cur, align))}

\* A caller asks for memory.  A large object bypasses the heap.  For a small
\* one the first critical section of slob_alloc searches the pages on the
\* list; if nothing fits the thread will take a new page.
Allocate(t, rq) ==
    /\ pc[t] = Idle
    /\ Cardinality(objs) + Cardinality(Pending) < MaxObjects
    /\ IF rq.big \/ find_best_fit_block(rq) = NoBlock
       THEN /\ pc' = [pc EXCEPT ![t] = [at |-> "new", rq |-> rq]]
            /\ UNCHANGED <<sp, list, objs>>
       ELSE LET b == find_best_fit_block(rq)
            IN  Place(rq, b, sp[b.page], list) /\ UNCHANGED pc
    /\ UNCHANGED <<slab, buddy, pages_alloc>>

\* The page allocator refuses: kmalloc and its like return NULL.
OutOfMemory(t) ==
    /\ pc[t].at = "new"
    /\ pc' = [pc EXCEPT ![t] = Idle]
    /\ UNCHANGED <<sp, list, slab, buddy, objs, pages_alloc>>

\* slob_new_pages: pages for an object of their own, or one for the heap.
\* The increment of pages_alloc is a load, here, and a store.
slob_new_pages(t) ==
    /\ pc[t].at = "new"
    /\ LET rq    == pc[t].rq
           order == IF rq.big THEN get_order(rq.size) ELSE 0
       IN  \E ps \in SUBSET buddy :
              /\ Cardinality(ps) = Frames[order]
              /\ buddy' = buddy \ ps
              /\ pc' = [pc EXCEPT ![t] = [at |-> "count", rq |-> rq, pages |-> ps,
                                          old |-> pages_alloc]]
    /\ UNCHANGED <<sp, list, slab, objs, pages_alloc>>

\* The store.  Pages of a large object go to the caller; a page for the heap
\* is marked with set_slob_page.
CountPages(t) ==
    /\ pc[t].at = "count"
    /\ pages_alloc' = (pc[t].old + 1) % UIntMod
    /\ IF pc[t].rq.big
       THEN /\ objs' = objs \cup {Object(pc[t].rq, pc[t].pages, 0)}
            /\ pc' = [pc EXCEPT ![t] = Idle]
            /\ UNCHANGED slab
       ELSE /\ slab' = slab \cup pc[t].pages
            /\ pc' = [pc EXCEPT ![t] = [at |-> "init", rq |-> pc[t].rq,
                                        pages |-> pc[t].pages]]
            /\ UNCHANGED objs
    /\ UNCHANGED <<sp, list, buddy>>

\* The second critical section of slob_alloc: the new page is one free block,
\* joins the list at its head and is searched again, first fit.
AddPage(t) ==
    /\ pc[t].at = "init"
    /\ LET p     == CHOOSE q \in pc[t].pages : TRUE
           rq    == pc[t].rq
           pg    == [units |-> PageUnits, free |-> 0,
                     words |-> set_slob(FreshPage.words, 0, PageUnits, PageUnits)]
           b     == slob_page_alloc(p, pg, rq)
       IN  IF b = NoBlock
           THEN /\ pc' = [pc EXCEPT ![t] = [at |-> "BUG"]]
                /\ UNCHANGED <<sp, list, objs>>
           ELSE /\ Place(rq, b, pg, Cons(p, list))
                /\ pc' = [pc EXCEPT ![t] = Idle]
    /\ UNCHANGED <<slab, buddy, pages_alloc>>

-----------------------------------------------------------------------------
(* slob_free and its callers. *)

\* The critical section of slob_free.  A page without objects leaves the list
\* and is returned outside the lock; a full page joins the list at its head.
slob_free(t, o) ==
    LET p     == CHOOSE q \in o.pages : TRUE
        units == SLOB_UNITS(o.size)
        pg    == sp[p]
        onlist == p \in ToSet(list)
    IN  IF pg.units + units = PageUnits
        THEN /\ list' = IF onlist THEN list_del(list, p) ELSE list
             /\ pc' = [pc EXCEPT ![t] = [at |-> "drop", pages |-> {p}]]
             /\ UNCHANGED sp
        ELSE /\ UNCHANGED pc
             /\ IF onlist
                THEN /\ sp' = [sp EXCEPT ![p] = Tidy(GiveBack(pg, o.at, units))]
                     /\ UNCHANGED list
                ELSE /\ sp' = [sp EXCEPT ![p] = Tidy(
                            [units |-> units, free |-> o.at,
                             words |-> set_slob(pg.words, o.at, units, PageUnits)])]
                     /\ list' = Cons(p, list)

\* Pages of a large object go back to the page allocator, uncounted.
slob_free_pages(o) ==
    /\ buddy' = buddy \cup o.pages
    /\ UNCHANGED <<sp, list, pc>>

\* kfree tells the two kinds of objects apart by the flag of the page.
kfree(t, o) ==
    /\ pc[t] = Idle
    /\ o.kind = "kmalloc"
    /\ objs' = objs \ {o}
    /\ IF o.pages \cap slab # {}
       THEN slob_free(t, o) /\ UNCHANGED buddy
       ELSE slob_free_pages(o)
    /\ UNCHANGED <<slab, pages_alloc>>

__kmem_cache_free(t, o) ==
    IF o.size < PageBytes
    THEN slob_free(t, o) /\ UNCHANGED buddy
    ELSE slob_free_pages(o)

\* An object of a cache with SLAB_DESTROY_BY_RCU is only marked; it lives on,
\* with a struct slob_rcu at its end, until a grace period has passed.
kmem_cache_free(t, o) ==
    /\ pc[t] = Idle
    /\ o.kind = "object"
    /\ IF CacheSpec[o.cache].rcu
       THEN /\ objs' = (objs \ {o}) \cup {[o EXCEPT !.kind = "rcu"]}
            /\ UNCHANGED <<sp, list, buddy, pc>>
       ELSE /\ objs' = objs \ {o}
            /\ __kmem_cache_free(t, o)
    /\ UNCHANGED <<slab, pages_alloc>>

\* The callback, some time later, knows the object by its slob_rcu only.
kmem_rcu_free(t, o) ==
    /\ pc[t] = Idle
    /\ o.kind = "rcu"
    /\ objs' = objs \ {o}
    /\ __kmem_cache_free(t, o)
    /\ UNCHANGED <<slab, pages_alloc>>

\* Callers destroy a cache that is not in use; rcu_barrier waits for callbacks.
kmem_cache_destroy(t, o) ==
    /\ pc[t] = Idle
    /\ o.kind = "struct"
    /\ \A x \in objs : x.kind = "object" => x.cache # o.cache
    /\ \A u \in Pending : pc[u].rq.cache # o.cache
    /\ CacheSpec[o.cache].rcu => \A x \in objs : x.kind # "rcu"
    /\ objs' = objs \ {o}
    /\ slob_free(t, o)
    /\ UNCHANGED <<slab, buddy, pages_alloc>>

Free(t, o) ==
    \/ kfree(t, o)
    \/ kmem_cache_free(t, o)
    \/ kmem_rcu_free(t, o)
    \/ kmem_cache_destroy(t, o)

\* Faulty variant: the page is returned before slob_free is done with it.
DropPageEarly(t) ==
    /\ pc[t].at = "drop"
    /\ slab' = slab \ pc[t].pages
    /\ buddy' = buddy \cup pc[t].pages
    /\ pc' = [pc EXCEPT ![t] = [at |-> "uncount", pages |-> pc[t].pages,
                                old |-> pages_alloc]]
    /\ UNCHANGED <<sp, list, objs, pages_alloc>>

\* slob_free after the lock: the flag is cleared and pages_alloc is loaded.
DropPage(t) ==
    /\ pc[t].at = "drop"
    /\ slab' = slab \ pc[t].pages
    /\ pc' = [pc EXCEPT ![t] = [at |-> "uncount", pages |-> pc[t].pages,
                                old |-> pages_alloc]]
    /\ UNCHANGED <<sp, list, buddy, objs, pages_alloc>>

\* The store of pages_alloc--, and the page goes back.
UncountPage(t) ==
    /\ pc[t].at = "uncount"
    /\ pages_alloc' = (pc[t].old - 1) % UIntMod
    /\ buddy' = buddy \cup pc[t].pages
    /\ sp' = [p \in Pages |-> IF p \in pc[t].pages THEN FreshPage ELSE sp[p]]
    /\ pc' = [pc EXCEPT ![t] = Idle]
    /\ UNCHANGED <<list, slab, objs>>

-----------------------------------------------------------------------------
(* The system calls. *)

sys_get_slob_amt_claimed == (pages_alloc * PageBytes) % UIntMod

\* Faulty variant: one unit too many instead of one too few.
UNSLOB_UNITSPlus(units) == SLOB_UNIT * (units + SLOB_UNIT - 1)

UNSLOB_UNITS(units) == SLOB_UNIT * (units - SLOB_UNIT + 1)

END == "end"
POISON == "poison"

ASSUME LinkAssumption == END \notin Pages /\ POISON \notin Pages

\* The list_head behind page p: list_del leaves LIST_POISON1 in it.
LinkOf(p) ==
    IF p \notin ToSet(list) THEN POISON
    ELSE LET i == SelectInSeq(list, LAMBDA q : q = p)
         IN  IF i = Len(list) THEN END ELSE list[i + 1]

\* sys_get_slob_amt_free enters its loop, without slob_lock.  The loops over
\* the other two lists do nothing: nothing is ever put on them.
WalkStart(t) ==
    /\ t \in Walkers
    /\ pc[t] = Idle
    /\ pc' = [pc EXCEPT ![t] = [at |-> "walk", sum |-> 0,
                 next |-> IF list = << >> THEN END ELSE list[1]]]
    /\ UNCHANGED <<sp, list, slab, buddy, objs, pages_alloc>>

\* One pass: the units of the page are added and its link is followed.
WalkStep(t) ==
    /\ pc[t].at = "walk"
    /\ pc[t].next \in Pages
    /\ pc[t].sum < MaxSum
    /\ pc' = [pc EXCEPT ![t].sum = @ + UNSLOB_UNITS(sp[pc[t].next].units),
                        ![t].next = LinkOf(pc[t].next)]
    /\ UNCHANGED <<sp, list, slab, buddy, objs, pages_alloc>>

WalkReturn(t) ==
    /\ pc[t].at = "walk"
    /\ pc[t].next = END
    /\ pc' = [pc EXCEPT ![t] = Idle]
    /\ UNCHANGED <<sp, list, slab, buddy, objs, pages_alloc>>

-----------------------------------------------------------------------------

Next == \E t \in Threads :
    \/ \E rq \in Requests : Allocate(t, rq)
    \/ OutOfMemory(t)
    \/ slob_new_pages(t)
    \/ CountPages(t)
    \/ AddPage(t)
    \/ \E o \in objs : Free(t, o)
    \/ DropPage(t)
    \/ UncountPage(t)
    \/ WalkStart(t)
    \/ WalkStep(t)
    \/ WalkReturn(t)

Spec == Init /\ [][Next]_vars

-----------------------------------------------------------------------------
(* Properties. *)

UnitsOf(o) == o.at .. o.at + SLOB_UNITS(o.size) - 1

SmallObjects == {o \in objs : ~o.big}

\* Pages the heap has cut objects out of.
HeapPages == UNION {o.pages : o \in SmallObjects}

\* Pages in the hands of a thread that takes or returns them.
HandPages(t) == IF pc[t].at \in {"count", "init", "drop", "uncount"}
                THEN pc[t].pages ELSE {}

TypeOK ==
    /\ sp \in [Pages -> [units : 0 .. PageUnits, free : 0 .. PageUnits,
                         words : [Offsets -> -PageUnits .. PageUnits]]]
    /\ list \in Seq(Pages)
    /\ slab \subseteq Pages /\ buddy \subseteq Pages
    /\ \A o \in objs : o.pages \subseteq Pages /\ o.pages # {}
    /\ pages_alloc \in 0 .. UIntMod - 1
    /\ \A t \in Threads : pc[t].at \in
          {"idle", "new", "count", "init", "drop", "uncount", "walk", "BUG"}

\* slob_alloc and slob_free keep every page exact: the chain of free blocks
\* ascends, ends at the end of the page and is fully coalesced; free blocks
\* and objects divide the page among them, without overlap or gap, objects
\* on their alignment; and sp->units counts the units that are free.
PageSound == TypeOK /\ \A p \in HeapPages :
    LET chain == Chain(sp[p])
        w     == sp[p].words
        here  == {o \in SmallObjects : p \in o.pages}
        freeUnits == UNION {s .. s + slob_units(w, s) - 1 : s \in ToSet(chain)}
    IN  /\ \A i \in DOMAIN chain :
              IF i = Len(chain) THEN slob_next(w, chain[i]) = PageUnits
              ELSE chain[i] + slob_units(w, chain[i]) < chain[i + 1]
        /\ \A o \in here : o.at % (o.align \div SLOB_UNIT) = 0
        /\ \A o, x \in here : o # x => UnitsOf(o) \cap UnitsOf(x) = {}
        /\ freeUnits = Offsets \ UNION {UnitsOf(o) : o \in here}
        /\ UNION {UnitsOf(o) : o \in here} \subseteq Offsets
        /\ sp[p].units = Cardinality(freeUnits)

\* The list that slob_alloc searches holds, once each, the pages that contain
\* an object and have a unit left, whatever other threads do between the two
\* critical sections of slob_alloc or after that of slob_free.
ListSound ==
    /\ IsInjective(list)
    /\ ToSet(list) = {p \in HeapPages : sp[p].units > 0}

\* kfree sends an object the way it came: PageSlab is set on the page of every
\* small object and on no page of a large one.
RightWayBack == \A o \in objs :
    IF o.big THEN o.pages \cap slab = {} ELSE o.pages \subseteq slab

\* What concurrent threads leave of the heap is sound, its pages and its list
\* of partly free pages.
HeapSound == PageSound /\ ListSound

\* No page is leaked or has two owners: each is the page allocator's, or holds
\* objects of the heap, or belongs to one large object, or is in the hands of
\* one thread on its way in or out; and kfree can tell which from PageSlab.
PagesConserved == RightWayBack /\ \A p \in Pages :
    Cardinality({p} \cap buddy) + Cardinality({p} \cap HeapPages)
    + Cardinality({o \in objs : o.big /\ p \in o.pages})
    + Cardinality({t \in Threads : p \in HandPages(t)}) = 1

\* The second search of slob_alloc never fails on a new page (BUG_ON(!b)).
NoBug == \A t \in Threads : pc[t].at # "BUG"

\* The search of slob_alloc gives up, and a page is taken, only when no free
\* block of any page on the list has room for the object.
NoNeedlessPage == [][\A t \in Threads :
    (pc[t] = Idle /\ pc'[t].at = "new" /\ ~pc'[t].rq.big) =>
       \A p \in ToSet(list) : \A s \in ToSet(Chain(sp[p])) :
          ~Fits([cur |-> s, avail |-> slob_units(sp[p].words, s)],
                SLOB_UNITS(pc'[t].rq.size), pc'[t].rq.align \div SLOB_UNIT)]_vars

\* An object comes from a free block (of a page that was on the list) such
\* that no other free block with room is smaller and would leave less behind
\* it: `searches for the best fit block', mm/slob.c:5.
BestFit == [][\A o \in objs' \ objs :
    (o.kind # "rcu" /\ o.pages \subseteq ToSet(list)) =>
       LET units  == SLOB_UNITS(o.size)
           align  == o.align \div SLOB_UNIT
           blocks == {b \in ToSet(Candidates(0)) : Fits(b, units, align)}
           taken  == CHOOSE b \in blocks :
                        {b.page} = o.pages /\ o.at = b.cur + Delta(b.cur, align)
       IN  \A b \in blocks :
              ~(b.avail < taken.avail /\ Rest(b, units, align) < Rest(taken, units, align))
    ]_vars

\* While no thread is at work in the allocator, pages_alloc is `the number of
\* pages currently allocated' (mm/slob.c:157), in the unit the call returns.
PagesCounted ==
    (\A t \in Threads : pc[t] = Idle) =>
       sys_get_slob_amt_claimed = Cardinality(Pages \ buddy) * PageBytes
=============================================================================
