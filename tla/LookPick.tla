------------------------------ MODULE LookPick ------------------------------
(***************************************************************************)
(* The choice look_dispatch makes (block/look-iosched.c, lines 55-124), as *)
(* relations on the scheduler's list.  A list is a sequence of records     *)
(* with a field pos, the value of blk_rq_pos(); an index of the sequence   *)
(* stands for a pointer to the request, and NULL is NULLRQ.  LookScan runs *)
(* the loop itself and is proved to compute exactly these relations.       *)
(***************************************************************************)
EXTENDS Naturals, Sequences

\* The direction flag of struct look_data: "1 for up, 0 for down".
Up == 1
Down == 0

\* An index that is in no list: the NULL the two pointers start from.
NULLRQ == 0

\* The two tests against nd->cur_pos.  A request that starts exactly at the
\* head passes both.
AtOrAbove(q, cur) == {i \in DOMAIN q : q[i].pos >= cur}
AtOrBelow(q, cur) == {i \in DOMAIN q : q[i].pos <= cur}

\* Faulty variant: the request farthest ahead instead of the nearest.
IsHigherFarthest(q, cur, i) ==
    /\ i \in AtOrAbove(q, cur)
    /\ \A j \in AtOrAbove(q, cur) : q[i].pos >= q[j].pos

\* i is the candidate `higher' (`lower') at the end of the loop: nearest to
\* the head on its side, and the first such request of the list, because the
\* inner comparisons are strict.
IsHigher(q, cur, i) ==
    /\ i \in AtOrAbove(q, cur)
    /\ \A j \in AtOrAbove(q, cur) :
          \/ q[i].pos < q[j].pos
          \/ q[i].pos = q[j].pos /\ i <= j

IsLower(q, cur, i) ==
    /\ i \in AtOrBelow(q, cur)
    /\ \A j \in AtOrBelow(q, cur) :
          \/ q[i].pos > q[j].pos
          \/ q[i].pos = q[j].pos /\ i <= j

\* The two `Switch directions if needed' statements, in their order: the
\* second one sees the direction the first one left.
SwitchDir(dir, noHigher, noLower) ==
    LET d == IF dir = Up /\ noHigher THEN Down ELSE dir
    IN  IF d = Down /\ noLower THEN Up ELSE d

NextDir(q, cur, dir) ==
    SwitchDir(dir, AtOrAbove(q, cur) = {}, AtOrBelow(q, cur) = {})

\* Faulty variant: first come, first served.
IsNextFifo(q, cur, dir, i) == q # << >> /\ i = 1

\* i is the request look_dispatch hands over.
IsNext(q, cur, dir, i) ==
    IF NextDir(q, cur, dir) = Up THEN IsHigher(q, cur, i)
                                 ELSE IsLower(q, cur, i)
=============================================================================
