---------------------------- MODULE DurableRoot ----------------------------
(***************************************************************************)
(* What the object store promises (docs/PHASE3.md, "Crash-consistency"),   *)
(* without sectors, superblocks or sequence numbers: one root object in a  *)
(* write-back register.  A put may become visible, then durable, at any    *)
(* moment while it runs; it is acknowledged only once it is durable; a     *)
(* power loss takes back what was visible and not durable, and nothing     *)
(* else; recovery answers with the visible root, if the device answers.    *)
(***************************************************************************)
CONSTANTS
    Object,         \* contents
    EmptyObject,    \* the contents of length zero, which recovery ignores
    NoRoot          \* no root

VARIABLES
    durable,        \* the root that survives a power loss
    visible,        \* the root a mount would find now
    pending,        \* the object a put is writing
    answer          \* what the last call returned in this boot

Name(o) == IF o \in EmptyObject THEN NoRoot ELSE o

Init ==
    /\ durable = NoRoot
    /\ visible = NoRoot
    /\ pending = NoRoot
    /\ answer = [op |-> "none"]

Begin(o) ==
    /\ pending = NoRoot
    /\ pending' = o
    /\ UNCHANGED <<durable, visible, answer>>

\* The pending object, and no other, may become the visible root.
Show == visible' = visible \/ (pending # NoRoot /\ visible' = Name(pending))

\* Durability follows visibility.
Persist == durable' \in {durable, visible'}

Progress ==
    /\ Show /\ Persist
    /\ UNCHANGED <<pending, answer>>

Acknowledge ==
    /\ pending # NoRoot
    /\ durable' = Name(pending) /\ visible' = Name(pending)
    /\ answer' = [op |-> "put", root |-> pending]
    /\ pending' = NoRoot

\* A put that failed may or may not have replaced the root.
Fail ==
    /\ Show /\ Persist
    /\ answer' = [op |-> "failed"]
    /\ pending' = NoRoot

Recover ==
    /\ answer' = [op |-> "recover", root |-> visible]
    /\ UNCHANGED <<durable, visible, pending>>

\* The device cannot be read.
Unavailable ==
    /\ answer' = [op |-> "unavailable"]
    /\ UNCHANGED <<durable, visible, pending>>

\* A restart; a power loss if what was not durable goes.
Restart ==
    /\ visible' \in {durable, visible}
    /\ pending' = NoRoot
    /\ answer' = [op |-> "none"]
    /\ UNCHANGED durable

Next ==
    \/ \E o \in Object : Begin(o)
    \/ Progress
    \/ Acknowledge
    \/ Fail
    \/ Recover
    \/ Unavailable
    \/ Restart

Spec == Init /\ [][Next]_<<durable, visible, pending, answer>>

=============================================================================
