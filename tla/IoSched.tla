------------------------------- MODULE IoSched -------------------------------
(***************************************************************************)
(* What block/elevator.c needs of any I/O scheduler behind struct          *)
(* elevator_ops, whatever order it serves requests in: it owns what it was *)
(* given, hands each request over once, lets the block layer grow and join *)
(* the requests it owns, is torn down only when it owns nothing, and, when *)
(* asked again and again, does hand something over.                        *)
(***************************************************************************)
EXTENDS Naturals

CONSTANTS
    Requests,   \* request structures
    Capacity    \* sectors of the device

VARIABLES
    live,       \* elevator_data is allocated
    held,       \* the requests the scheduler owns, with their extents
    out         \* the requests it has handed over and that are not freed yet

vars == <<live, held, out>>

\* A request and the sectors it covers.
Extent == [rq : Requests, pos : 0 .. Capacity, len : 1 .. Capacity]
End(e) == e.pos + e.len

Ids == {e.rq : e \in held}

Init == live = TRUE /\ held = {} /\ out = {}

\* elevator_add_req_fn: a request of its own becomes the scheduler's.
Add(e) ==
    /\ live
    /\ End(e) <= Capacity
    /\ e.rq \notin Ids \cup out
    /\ held' = held \cup {e}
    /\ UNCHANGED <<live, out>>

\* A bio joins request e at its front or its back, and e may then join with
\* a request that is now next to it on the disk: old is the set of requests
\* that become the one request e2, whose sectors are theirs and the bio's.
Merge(old, e2) ==
    /\ live
    /\ old # {} /\ old \subseteq held
    /\ e2.rq \in {e.rq : e \in old}
    /\ End(e2) <= Capacity
    /\ \A e \in old : e2.pos <= e.pos /\ End(e) <= End(e2)
    /\ held' = (held \ old) \cup {e2}
    /\ UNCHANGED <<live, out>>

\* elevator_dispatch_fn returns 1: exactly one request changes hands.
Dispatch(e) ==
    /\ live
    /\ e \in held
    /\ held' = held \ {e}
    /\ out' = out \cup {e.rq}
    /\ UNCHANGED live

\* The block layer frees a completed request, which may then be used again.
Release(r) ==
    /\ r \in out
    /\ out' = out \ {r}
    /\ UNCHANGED <<live, held>>

\* elevator_exit_fn and a later elevator_init_fn.
Exit == live /\ held = {} /\ live' = FALSE /\ UNCHANGED <<held, out>>
Start == ~live /\ live' = TRUE /\ UNCHANGED <<held, out>>

Next ==
    \/ \E e \in Extent : Add(e)
    \/ \E old \in SUBSET held, e2 \in Extent : Merge(old, e2)
    \/ \E e \in held : Dispatch(e)
    \/ \E r \in out : Release(r)
    \/ Exit
    \/ Start

\* The driver keeps asking while the scheduler owns requests.
Fairness == WF_vars(\E e \in held : Dispatch(e))

Safety == Init /\ [][Next]_vars

Spec == Safety /\ Fairness
=============================================================================
