---------------------------- MODULE KernelChannel ----------------------------
(***************************************************************************)
(* The kernel's endpoints implement Rendezvous.  A parked task is a        *)
(* pending request; a task that was woken but has not run yet already has  *)
(* its result, in the fields its waker staged.                             *)
(***************************************************************************)
EXTENDS Kernel

\* The endpoint that has task t parked.
Waits(t) == CHOOSE o \in Oid : Parked(o, t)

RequestOf(t) ==
    LET o == Waits(t)
        e == endpoints[o]
    IN  IF ~blocked[t] THEN [op |-> "none"]
        ELSE IF e.state = "RecvWait" THEN [op |-> "recv", channel |-> o]
        ELSE [op |-> "send", channel |-> o, msg |-> e.msg0,
              grant |-> e.xfer_cptr # CPTR_NONE]

ResultOf(t) ==
    IF inKernel[t] /\ ~blocked[t] THEN staged[t] ELSE outcome[t]

R == INSTANCE Rendezvous WITH
        Caller   <- Task,
        Channel  <- Oid,
        Message  <- Word,
        Empty    <- {},
        Error    <- Status \ {"Ok"},
        Handle   <- Slot,
        NoHandle <- CPTR_NONE,
        Fresh    <- NoResult,
        request  <- [t \in Task |-> RequestOf(t)],
        result   <- [t \in Task |-> ResultOf(t)]

(***************************************************************************)
(* Endpoint IPC over parking, wakeups, preemption, faults, scrubbing and   *)
(* restarts is a synchronous rendezvous: a request ends only by meeting    *)
(* its opposite, the message is delivered exactly once and to the task     *)
(* that waited for it, and both ends see the same status.                  *)
(***************************************************************************)
ImplementsRendezvous == R!Spec

=============================================================================
