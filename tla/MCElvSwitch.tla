----------------------------- MODULE MCElvSwitch -----------------------------
(***************************************************************************)
(* Every task submits sync requests and sleeps for them; drivers also ask  *)
(* for requests of both directions without sleeping.                       *)
(***************************************************************************)
EXTENDS ElvSwitch

CONSTANTS Writers, Drivers, MaxSync, MaxAsync

MCThreads == Writers \cup Drivers
MCCalls == [t \in MCThreads |-> IF t \in Writers THEN {<<"sync", TRUE>>}
                                ELSE {<<"sync", TRUE>>, <<"sync", FALSE>>, <<"async", FALSE>>}]
MCMaxHeld == [d \in Dirs |-> IF d = "sync" THEN MaxSync ELSE MaxAsync]
=============================================================================
