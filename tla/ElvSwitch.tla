------------------------------ MODULE ElvSwitch ------------------------------
(***************************************************************************)
(* Changing the scheduler of a queue that is in use (elevator_switch,      *)
(* block/elevator.c) together with the request pool it has to drain.       *)
(* Writes to sysfs hold q->sysfs_lock, so there is one switch at a time    *)
(* and nr_requests does not change during one.  The new instance uses the  *)
(* slot the attached one does not.                                         *)
(***************************************************************************)
EXTENDS RequestPool

VARIABLES
    sw,    \* where elevator_switch is
    ops    \* the scheduler instances that exist with ops not NULL

vars == <<pool, elevator, elvswitch, sw, ops>>

Spare(s) == IF s = "a" THEN "b" ELSE "a"

Init ==
    /\ PoolInit
    /\ elevator = "a"
    /\ elvswitch = FALSE
    /\ sw = "idle"
    /\ ops = {"a"}

\* Faulty variant: the scheduler is replaced without waiting for the requests
\* that have its private data.
elv_quiesce_startNoWait ==
    /\ elvswitch' = TRUE
    /\ elevator' = Spare(elevator)
    /\ sw' = "attached"

\* elv_quiesce_start and, in the same critical section when no request with
\* private data is left, elevator_attach.
elv_quiesce_start ==
    /\ elvswitch' = TRUE
    /\ \/ elvpriv = 0 /\ elevator' = Spare(elevator) /\ sw' = "attached"
       \/ elvpriv # 0 /\ UNCHANGED elevator /\ sw' = "drain"

\* elevator_switch up to there.  When elevator_alloc or elevator_init_queue
\* fails nothing has changed.
elevator_switch ==
    /\ sw = "idle"
    /\ ops' = ops \cup {Spare(elevator)}
    /\ elv_quiesce_start
    /\ UNCHANGED pool

\* The loop of elv_quiesce_start finds elvpriv zero; elevator_attach.
elevator_attach ==
    /\ sw = "drain"
    /\ elvpriv = 0
    /\ elevator' = Spare(elevator)
    /\ sw' = "attached"
    /\ UNCHANGED <<pool, elvswitch, ops>>

\* elv_register_queue has succeeded: elevator_exit of the old instance.
ExitOld ==
    /\ sw = "attached"
    /\ ops' = ops \ {Spare(elevator)}
    /\ sw' = "end"
    /\ UNCHANGED <<pool, elevator, elvswitch>>

\* Faulty variant: the old instance is exited in place of the new one.
ExitNewWrongOne ==
    /\ sw = "attached"
    /\ ops' = ops \ {Spare(elevator)}
    /\ sw' = "undo"
    /\ UNCHANGED <<pool, elevator, elvswitch>>

\* elv_register_queue has failed: elevator_exit of the new instance, which
\* the queue still points at.
ExitNew ==
    /\ sw = "attached"
    /\ ops' = ops \ {elevator}
    /\ sw' = "undo"
    /\ UNCHANGED <<pool, elevator, elvswitch>>

\* The old instance is attached again, without the queue lock.
Reattach ==
    /\ sw = "undo"
    /\ elevator' = Spare(elevator)
    /\ sw' = "end"
    /\ UNCHANGED <<pool, elvswitch, ops>>

\* elv_quiesce_end, and its copy on the way out of a failure.
elv_quiesce_end ==
    /\ sw = "end"
    /\ elvswitch' = FALSE
    /\ sw' = "idle"
    /\ UNCHANGED <<pool, elevator, ops>>

SwitchStep == elevator_attach \/ ExitOld \/ ExitNew \/ Reattach \/ elv_quiesce_end

Next ==
    \/ PoolNext /\ UNCHANGED <<sw, ops>>
    \/ \E n \in NrInputs : sw = "idle" /\ queue_requests_store(n) /\ UNCHANGED <<sw, ops>>
    \/ elevator_switch
    \/ SwitchStep

\* Tasks run on, the device completes what it was given, and a switch that
\* has begun goes on; new requests, timeouts of batches and switches need not
\* come.
Fairness ==
    /\ \A t \in Threads : WF_vars(TaskStep(t) /\ UNCHANGED <<sw, ops>>)
    /\ \A d \in Dirs, o \in Owners : WF_vars(__blk_put_request(d, o) /\ UNCHANGED <<sw, ops>>)
    /\ WF_vars(SwitchStep)

Safety == Init /\ [][Next]_vars
Spec == Safety /\ Fairness

-----------------------------------------------------------------------------
(* Properties *)

\* The type invariant of the pool and the switch.
SwitchTypeOK ==
    /\ TypeOK
    /\ sw \in {"idle", "drain", "attached", "undo", "end"}
    /\ ops \subseteq Slots

\* Every request that carries private data belongs to the scheduler that is
\* attached, so elv_put_request and the sort never hand it to another one:
\* get_request decides under the lock, allocates without it, and the switch
\* waits for elvpriv.
PrivMatches ==
    /\ \A d \in Dirs, s \in Slots : live[d][s] > 0 => s = elevator
    /\ sw \in {"attached", "undo", "end"} => elvpriv = 0

\* The queue points at an instance that exists and has its operations, but
\* for the moment in which a failed switch has exited the new instance and
\* not attached the old one yet; and a switch leaves no instance behind.
ElevatorLife ==
    /\ elevator \in ops \/ sw = "undo"
    /\ sw = "idle" => ops = {elevator} /\ ~elvswitch

\* Every sleeping task is woken: requests are returned, and batchers run out.
SleepersWoken == \A t \in Threads : pc[t] = "sleep" ~> pc[t] # "sleep"

\* A switch that has begun comes to its end although requests keep coming.
SwitchEnds == sw # "idle" ~> sw = "idle"
=============================================================================
