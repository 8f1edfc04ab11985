------------------------------ MODULE CapCore ------------------------------
(***************************************************************************)
(* The operations of crates/cap-core/src/table.rs as functions of an       *)
(* object table `ot` and of capability tables `t`, `src`, `dst`.  An       *)
(* operation returns the value the Rust method returns together with the   *)
(* table it leaves behind; a failing operation leaves its table unchanged. *)
(*                                                                         *)
(* CPtrs are slot numbers, rights are sets of right names (the bit set of  *)
(* capability.rs), `rights & mask' is intersection and `contains' is       *)
(* inclusion.  Epochs are u32 in the code and wrap at EpochMod here.       *)
(*                                                                         *)
(* A definition named Mutant... is a deliberately wrong variant of the one *)
(* below it; the specification does not use it (see README.md).            *)
(***************************************************************************)
EXTENDS Integers, FiniteSetsExt

CONSTANTS
    SlotCount,      \* CAP_TABLE_SLOTS (256 in the code)
    ObjectCount,    \* OBJECT_TABLE_SIZE (1024 in the code)
    EpochMod,       \* 2^32 in the code
    Badge,          \* the badges callers pass
    NoCap           \* the empty slot (Option::None)

Slot  == 0 .. SlotCount - 1
Oid   == 0 .. ObjectCount - 1
Epoch == 0 .. EpochMod - 1

Right == {"READ", "WRITE", "INVOKE", "DELEGATE", "REVOKE", "MAP", "GRANT_CAP",
          "SEAL"}

Kind == {"Null", "Untyped", "Memory", "AddressSpace", "Domain", "Endpoint",
         "Notification", "TimeSlice", "Extent", "DeviceQueue", "CapTable",
         "IrqHandler"}

Status == {"Ok", "ErrBadCPtr", "ErrRevoked", "ErrType", "ErrRights",
           "ErrMethod"}

ObjectMeta == [kind: Kind, current_epoch: Epoch, present: BOOLEAN]

CapEntry == [object_id: Oid, rights: SUBSET Right, epoch: Epoch,
             type_tag: Kind, badge: Badge]

ObjectTable == [Oid -> ObjectMeta]

CapTable == [Slot -> CapEntry \cup {NoCap}]

(***************************************************************************)
(* What the code fixes about its sizes, and that an empty slot is not a    *)
(* capability.                                                             *)
(***************************************************************************)
ASSUME SizeAssumption ==
    /\ SlotCount \in Nat \ {0}
    /\ ObjectCount \in Nat \ {0}
    /\ EpochMod \in Nat \ {0}
    /\ 0 \in Badge

ASSUME NoCapAssumption == NoCap \notin CapEntry

EmptyObjectTable ==
    [o \in Oid |-> [kind |-> "Null", current_epoch |-> 0, present |-> FALSE]]

EmptyCapTable == [s \in Slot |-> NoCap]

-----------------------------------------------------------------------------
(* ObjectTable *)

FreeOids(ot) == {o \in Oid : ~ot[o].present}

\* The linear scan takes the lowest id that is not present and restarts its
\* epoch at zero, whatever epoch a previous object of that id reached.
create_object(ot, kind) ==
    IF FreeOids(ot) = {}
    THEN [ok |-> FALSE, oid |-> 0, ot |-> ot]
    ELSE LET o == Min(FreeOids(ot))
         IN  [ok |-> TRUE, oid |-> o,
              ot |-> [ot EXCEPT ![o] = [kind |-> kind, current_epoch |-> 0,
                                        present |-> TRUE]]]

MutantNextEpoch(e) == e

NextEpoch(e) == (e + 1) % EpochMod

revoke(ot, o) ==
    IF o \notin Oid \/ ~ot[o].present
    THEN [status |-> "ErrBadCPtr", ot |-> ot]
    ELSE [status |-> "Ok",
          ot |-> [ot EXCEPT ![o].current_epoch = NextEpoch(@)]]

\* The epoch is left where it was.
destroy_object(ot, o) ==
    [ot EXCEPT ![o].present = FALSE, ![o].kind = "Null"]

-----------------------------------------------------------------------------
(* CapTable *)

FreeSlots(t) == {s \in Slot : t[s] = NoCap}

Full(t) == FreeSlots(t) = {}

MutantFirstFree(t) == Min(Slot)

FirstFree(t) == Min(FreeSlots(t))

\* The validity test shared by invoke, delegate and lookup.
Live(ot, e) ==
    /\ ot[e.object_id].present
    /\ e.type_tag = ot[e.object_id].kind
    /\ e.epoch = ot[e.object_id].current_epoch

\* The status of a capability that is not Live.
DeadStatus(ot, e) ==
    IF e.epoch # ot[e.object_id].current_epoch THEN "ErrRevoked" ELSE "ErrType"

Occupied(t, cptr) == cptr \in Slot /\ t[cptr] # NoCap

\* The capability mint builds for object o.
MintedEntry(ot, o, rights, badge) ==
    [object_id |-> o, rights |-> rights, epoch |-> ot[o].current_epoch,
     type_tag |-> ot[o].kind, badge |-> badge]

mint(ot, t, o, rights, badge) ==
    IF Full(t) \/ o \notin Oid \/ ~ot[o].present
    THEN [status |-> "ErrBadCPtr", cptr |-> 0, t |-> t]
    ELSE [status |-> "Ok", cptr |-> FirstFree(t),
          t |-> [t EXCEPT ![FirstFree(t)] = MintedEntry(ot, o, rights, badge)]]

lookup(ot, t, cptr) ==
    IF ~Occupied(t, cptr) THEN "ErrBadCPtr"
    ELSE IF ~Live(ot, t[cptr]) THEN DeadStatus(ot, t[cptr])
    ELSE "Ok"

invoke(ot, t, cptr, required) ==
    IF lookup(ot, t, cptr) # "Ok" THEN lookup(ot, t, cptr)
    ELSE IF ~(required \subseteq t[cptr].rights) THEN "ErrRights"
    ELSE "Ok"

MutantChild(e, mask, badge) ==
    [e EXCEPT !.rights = mask, !.badge = badge]

\* The child capability: same object, epoch and type, rights cut by the mask.
ChildEntry(e, mask, badge) ==
    [e EXCEPT !.rights = @ \cap mask, !.badge = badge]

\* The DELEGATE right is tested before liveness, the destination last.
DelegateStatus(ot, src, cptr, dst) ==
    IF ~Occupied(src, cptr) THEN "ErrBadCPtr"
    ELSE IF "DELEGATE" \notin src[cptr].rights THEN "ErrRights"
    ELSE IF ~Live(ot, src[cptr]) THEN DeadStatus(ot, src[cptr])
    ELSE IF Full(dst) THEN "ErrBadCPtr"
    ELSE "Ok"

\* `dst' is the destination table; the source table is only read.
delegate(ot, src, cptr, mask, badge, dst) ==
    LET st == DelegateStatus(ot, src, cptr, dst)
    IN  IF st # "Ok"
        THEN [status |-> st, cptr |-> 0, dst |-> dst]
        ELSE [status |-> "Ok", cptr |-> FirstFree(dst),
              dst |-> [dst EXCEPT ![FirstFree(dst)] =
                                    ChildEntry(src[cptr], mask, badge)]]

\* The capability with DELEGATE removed.
Sealed(e) == [e EXCEPT !.rights = @ \ {"DELEGATE"}]

seal(t, cptr) ==
    IF Occupied(t, cptr)
    THEN [status |-> "Ok", t |-> [t EXCEPT ![cptr] = Sealed(@)]]
    ELSE [status |-> "ErrBadCPtr", t |-> t]

=============================================================================
