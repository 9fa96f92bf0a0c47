------------------------------ MODULE SlobWalk ------------------------------
(***************************************************************************)
(* What sys_get_slob_amt_free returns (mm/slob.c, lines 847-870).  It adds *)
(* up the pages of the list without slob_lock, so while it runs other      *)
(* threads change the list and the pages.  The history variable calm says  *)
(* which walks have met no such change so far.                             *)
(***************************************************************************)
EXTENDS Slob

VARIABLE calm   \* walkers whose list and pages have not changed since they began

walkVars == <<vars, calm>>

WalkInit == Init /\ calm = {}

WalkNext ==
    /\ Next
    /\ calm' = {t \in Threads : /\ pc'[t].at = "walk"
                                /\ pc[t].at = "walk" => t \in calm
                                /\ UNCHANGED <<sp, list>>}

WalkSpec == WalkInit /\ [][WalkNext]_walkVars

\* The free units of the first n pages of the list.
FreeUnits(n) ==
    LET free[i \in 0 .. Len(list)] ==
            IF i = 0 THEN 0 ELSE free[i - 1] + sp[list[i]].units
    IN  free[n]

\* Whatever other threads are doing, if the heap does not change during a walk
\* then sys_get_slob_amt_free visits each page of the list once and returns
\* the free memory of the heap less one unit for each of these pages: that is
\* how UNSLOB_UNITS (mm/slob.c:212) counts.
FreeReported == \A t \in calm :
    pc[t].next = END => pc[t].sum = SLOB_UNIT * (FreeUnits(Len(list)) - Len(list))
=============================================================================
