----------------------------- MODULE MCBlkQueue -----------------------------
(***************************************************************************)
(* A small request queue with three bios.  They arrive in every order, so  *)
(* a workload is told by where they are: side by side, so that they merge  *)
(* at either end and the one in the middle joins two requests, two of them *)
(* in the same place, or one of them apart.                                *)
(***************************************************************************)
EXTENDS BlkQueue

Plain(sector) == [sector |-> sector, size |-> 1, rw |-> "read", unplug |-> FALSE]

\* A bio that is longer, goes the other way or carries BIO_RW_UNPLUG.
Odd(sector) == {[Plain(sector) EXCEPT !.size = 2], [Plain(sector) EXCEPT !.rw = "write"],
                [Plain(sector) EXCEPT !.unplug = TRUE]}

\* At most one bio is odd.
MCWorkloads ==
    {w \in [Bios -> BioInfo] : \E s \in {<<0, 1, 2>>, <<0, 0, 1>>, <<0, 1, 3>>}, odd \in Bios :
        /\ w[odd] \in Odd(s[odd]) \cup {Plain(s[odd])}
        /\ \A b \in Bios \ {odd} : w[b] = Plain(s[b])}

\* Plain bios, two of them in the same place, come with two packet commands:
\* with a bio in the virtqueue, the next request peeked at and a command in
\* the dispatch queue, the other command drains a bio that is not started.
MCSent(w) == IF w = [b \in Bios |-> Plain(IF b = 3 THEN 1 ELSE 0)] THEN Pcs ELSE {}
=============================================================================
