---------------------------- MODULE BlockDevice -----------------------------
(***************************************************************************)
(* What the virtio-blk driver promises its callers (the object store, the  *)
(* smoke test and DQ_SUBMIT): one call at a time takes effect between its  *)
(* begin and its return.  A call that succeeds did exactly what it says;   *)
(* one that the device failed may have had its effect or not.  A call that *)
(* is given up disables the device for the rest of the boot, and its       *)
(* effect may still come later, when no caller can see it any more.        *)
(* ObjStore takes this as its block layer.                                 *)
(***************************************************************************)
CONSTANTS Lba, Sector, Zero, NoSector

VARIABLES
    disk,       \* what survives a power loss
    cache,      \* the device's volatile write cache
    flush_ok,   \* the device has such a cache and can flush it
    up,         \* the device may be used
    call,       \* the call in progress
    answer,     \* what the last call returned
    late        \* the calls given up whose effect may still come

vars == <<disk, cache, flush_ok, up, call, answer, late>>

NoCall == [op |-> "none"]

Failed == [ok |-> FALSE, data |-> Zero]

\* What a read returns.
Seen == [l \in Lba |-> IF cache[l] = NoSector THEN disk[l] ELSE cache[l]]

Init ==
    /\ disk \in [Lba -> Sector]
    /\ cache = [l \in Lba |-> NoSector]
    /\ flush_ok \in BOOLEAN
    /\ up \in BOOLEAN
    /\ call = NoCall
    /\ answer = Failed
    /\ late = {}

Begin(op, lba, data) ==
    /\ up
    /\ call = NoCall
    /\ call' = [op |-> op, lba |-> lba, data |-> data, state |-> "pending"]
    /\ UNCHANGED <<disk, cache, flush_ok, up, answer, late>>

Refuse ==
    /\ ~up
    /\ call = NoCall
    /\ answer' = Failed
    /\ UNCHANGED <<disk, cache, flush_ok, up, call, late>>

\* A flush of a device without a cache.
FlushNothing ==
    /\ up
    /\ ~flush_ok
    /\ call = NoCall
    /\ answer' = [ok |-> TRUE, data |-> Zero]
    /\ UNCHANGED <<disk, cache, flush_ok, up, call, late>>

\* The effect of a call on the device.
Effect(c) ==
    \/ /\ c.op = "in"
       /\ UNCHANGED <<disk, cache>>
    \/ /\ c.op = "out" /\ flush_ok
       /\ cache' = [cache EXCEPT ![c.lba] = c.data]
       /\ UNCHANGED disk
    \/ /\ c.op = "out" /\ ~flush_ok
       /\ disk' = [disk EXCEPT ![c.lba] = c.data]
       /\ UNCHANGED cache
    \/ /\ c.op = "flush"
       /\ disk' = Seen
       /\ cache' = [l \in Lba |-> NoSector]

Perform ==
    /\ call # NoCall
    /\ call.state = "pending"
    /\ \/ Effect(call) /\ call' = [call EXCEPT !.state = "ok"]
       \/ Effect(call) /\ call' = [call EXCEPT !.state = "error"]
       \/ UNCHANGED <<disk, cache>> /\ call' = [call EXCEPT !.state = "error"]
    /\ UNCHANGED <<flush_ok, up, answer, late>>

Return ==
    /\ call # NoCall
    /\ call.state # "pending"
    /\ answer' = [ok   |-> call.state = "ok",
                  data |-> IF call.state = "ok" /\ call.op = "in"
                           THEN Seen[call.lba] ELSE Zero]
    /\ call' = NoCall
    /\ UNCHANGED <<disk, cache, flush_ok, up, late>>

GiveUp ==
    /\ call # NoCall
    /\ call.state = "pending"
    /\ up' = FALSE
    /\ answer' = Failed
    /\ late' = late \cup (IF call.op = "in" THEN {} ELSE {call})
    /\ call' = NoCall
    /\ UNCHANGED <<disk, cache, flush_ok>>

LateEffect(c) ==
    /\ Effect(c) \/ UNCHANGED <<disk, cache>>
    /\ late' = late \ {c}
    /\ UNCHANGED <<flush_ok, up, call, answer>>

\* The device writes a cached sector back.
Destage(l) ==
    /\ cache[l] # NoSector
    /\ disk' = [disk EXCEPT ![l] = cache[l]]
    /\ cache' = [cache EXCEPT ![l] = NoSector]
    /\ UNCHANGED <<flush_ok, up, call, answer, late>>

Next ==
    \/ \E op \in {"in", "out", "flush"}, l \in Lba, d \in Sector : Begin(op, l, d)
    \/ Refuse
    \/ FlushNothing
    \/ Perform
    \/ Return
    \/ GiveUp
    \/ \E c \in late : LateEffect(c)
    \/ \E l \in Lba : Destage(l)

Spec == Init /\ [][Next]_vars

=============================================================================
