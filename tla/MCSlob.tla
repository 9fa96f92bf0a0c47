------------------------------- MODULE MCSlob -------------------------------
(***************************************************************************)
(* Instances of SlobWalk.                                                  *)
(***************************************************************************)
EXTENDS SlobWalk

\* A cache with plain objects, one with RCU, one with forced alignment and
\* one whose objects are larger than a page.
MCCacheSpec == [c \in Caches |->
    CASE c = "plain"   -> [size |-> 5, align |-> 0, hwcache |-> FALSE, rcu |-> FALSE]
      [] c = "rcu"     -> [size |-> 2, align |-> 0, hwcache |-> FALSE, rcu |-> TRUE]
      [] c = "aligned" -> [size |-> 2, align |-> 0, hwcache |-> TRUE, rcu |-> FALSE]
      [] OTHER         -> [size |-> 2 * PageBytes, align |-> 0, hwcache |-> FALSE, rcu |-> FALSE]]

\* Threads that do not walk, and page frames, are interchangeable.
Symmetry == Permutations(Threads \ Walkers) \cup Permutations(Pages)
=============================================================================
