------------------------------ MODULE LookScan ------------------------------
(***************************************************************************)
(* The body of look_dispatch (block/look-iosched.c, lines 62-116), one     *)
(* step per pass of list_for_each and one for the statements after it.     *)
(* The queue lock is held throughout, so the list and the head position do *)
(* not change; the module is about what the loop computes, for every list, *)
(* head position and direction.                                            *)
(***************************************************************************)
EXTENDS LookPick

CONSTANTS
    Lists,      \* the lists the loop may be run on
    Positions   \* the values nd->cur_pos may have

\* Lists are sequences of requests with a sector number; list_empty() has
\* already been answered with no.
ASSUME ScanAssumption ==
    /\ \A q \in Lists : q \in Seq([pos : Nat]) /\ Len(q) > 0
    /\ Positions \subseteq Nat

VARIABLES
    queue,      \* nd->queue
    cur_pos,    \* nd->cur_pos
    dir,        \* nd->dir
    pos,        \* the list cursor: the entries before it have been seen
    higher,     \* the two candidate pointers
    lower,
    chosen,     \* the request the last statements dereference and hand over
    done        \* look_dispatch has returned

vars == <<queue, cur_pos, dir, pos, higher, lower, chosen, done>>

Init ==
    /\ queue \in Lists
    /\ cur_pos \in Positions
    /\ dir \in {Up, Down}
    /\ pos = 1
    /\ higher = NULLRQ
    /\ lower = NULLRQ
    /\ chosen = NULLRQ
    /\ done = FALSE

\* `Is this request the better higher one?'
BetterHigher(i) ==
    /\ queue[i].pos >= cur_pos
    /\ higher # NULLRQ => queue[i].pos < queue[higher].pos

\* `Is this request the better lower one?'
BetterLower(i) ==
    /\ queue[i].pos <= cur_pos
    /\ lower # NULLRQ => queue[i].pos > queue[lower].pos

\* One pass of list_for_each.
Visit ==
    /\ pos \in DOMAIN queue
    /\ higher' = IF BetterHigher(pos) THEN pos ELSE higher
    /\ lower' = IF BetterLower(pos) THEN pos ELSE lower
    /\ pos' = pos + 1
    /\ UNCHANGED <<queue, cur_pos, dir, chosen, done>>

\* Faulty variant: the candidate of the old direction is taken.
ChooseStaleDir ==
    /\ pos = Len(queue) + 1
    /\ ~done
    /\ dir' = SwitchDir(dir, higher = NULLRQ, lower = NULLRQ)
    /\ chosen' = IF dir = Up THEN higher ELSE lower
    /\ done' = TRUE
    /\ UNCHANGED <<queue, cur_pos, pos, higher, lower>>

\* `Switch directions if needed', then the request the direction selects.
Choose ==
    /\ pos = Len(queue) + 1
    /\ ~done
    /\ dir' = SwitchDir(dir, higher = NULLRQ, lower = NULLRQ)
    /\ chosen' = IF dir' = Up THEN higher ELSE lower
    /\ done' = TRUE
    /\ UNCHANGED <<queue, cur_pos, pos, higher, lower>>

Next == Visit \/ Choose

Spec == Init /\ [][Next]_vars
-----------------------------------------------------------------------------
TypeOK ==
    /\ queue \in Lists
    /\ cur_pos \in Positions
    /\ dir \in {Up, Down}
    /\ pos \in 1 .. Len(queue) + 1
    /\ higher \in 0 .. Len(queue)
    /\ lower \in 0 .. Len(queue)
    /\ chosen \in 0 .. Len(queue)
    /\ done \in BOOLEAN

\* The loop invariant: each pointer is the right answer for the part of the
\* list already visited, NULL exactly when that part has no candidate.
Seen == SubSeq(queue, 1, pos - 1)

HigherSoFar ==
    IF higher = NULLRQ THEN AtOrAbove(Seen, cur_pos) = {}
                       ELSE IsHigher(Seen, cur_pos, higher)

LowerSoFar ==
    IF lower = NULLRQ THEN AtOrBelow(Seen, cur_pos) = {}
                      ELSE IsLower(Seen, cur_pos, lower)

ScanInv == TypeOK /\ HigherSoFar /\ LowerSoFar

\* What look_dispatch relies on when it dereferences higher or lower without
\* a test (lines 103-114): after the two direction switches the pointer the
\* direction selects is never NULL; it is the nearest request on that side
\* of the head, first in the list among equals, and the head has turned only
\* if there was nothing on the other side.
ScanChoosesNext ==
    [][done' # done => /\ dir' = NextDir(queue, cur_pos, dir)
                       /\ IsNext(queue, cur_pos, dir, chosen')]_vars
=============================================================================
