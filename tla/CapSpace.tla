----------------------------- MODULE CapSpace -----------------------------
(***************************************************************************)
(* The operations of kernel/src/capspace.rs that create objects and move   *)
(* capabilities between protection domains, as functions of the kernel's   *)
(* object table and per-domain capability tables, held together in a       *)
(* record cs = [objects, tables].  Domain 0 is the root.                   *)
(*                                                                         *)
(* A definition named Mutant... is a deliberately wrong variant of the one *)
(* below it; the specification does not use it (see README.md).            *)
(***************************************************************************)
EXTENDS CapCore

CONSTANT DomainCount    \* MAX_DOMAINS (6 in the code)

ASSUME DomainAssumption == DomainCount \in Nat \ {0, 1}

Domain == 0 .. DomainCount - 1

\* The sentinel 0xffff, and the numbers from CAP_TABLE_SLOTS up to it, which
\* the code treats alike; OutOfRange stands for them.
CPTR_NONE  == SlotCount + 1
OutOfRange == SlotCount
CPtr       == Slot \cup {OutOfRange, CPTR_NONE}

CapState == [objects: ObjectTable, tables: [Domain -> CapTable]]

-----------------------------------------------------------------------------

\* Create an object and mint the root's capability for it.  A full object
\* table stops before anything changed; a full root table leaves the new
\* object behind without a capability.
MintRoot(cs, kind, rights) ==
    LET c == create_object(cs.objects, kind)
        m == mint(c.ot, cs.tables[0], c.oid, rights, 0)
    IN  IF ~c.ok
        THEN [ok |-> FALSE, cptr |-> 0, cs |-> cs]
        ELSE [ok   |-> m.status = "Ok",
              cptr |-> m.cptr,
              cs   |-> [objects |-> c.ot,
                        tables  |-> [cs.tables EXCEPT ![0] = m.t]]]

init_root(cs) ==
    MintRoot(cs, "Memory", {"READ", "WRITE", "INVOKE", "MAP", "DELEGATE"})

create_notification(cs) ==
    MintRoot(cs, "Notification", {"INVOKE", "READ", "WRITE", "DELEGATE"})

create_endpoint(cs) ==
    MintRoot(cs, "Endpoint",
             {"INVOKE", "READ", "WRITE", "GRANT_CAP", "DELEGATE"})

mint_timeslice(cs) == MintRoot(cs, "TimeSlice", {"INVOKE"})

mint_extent(cs) ==
    MintRoot(cs, "Extent",
             {"INVOKE", "READ", "WRITE", "MAP", "DELEGATE"})

create_device_queue(cs) ==
    MintRoot(cs, "DeviceQueue",
             {"INVOKE", "READ", "WRITE", "MAP", "DELEGATE"})

delegate_from_root(cs, dst, cptr, mask) ==
    LET r == delegate(cs.objects, cs.tables[0], cptr, mask, 0, cs.tables[dst])
    IN  IF dst = 0
        THEN [ok |-> FALSE, cptr |-> 0, cs |-> cs]
        ELSE [ok   |-> r.status = "Ok",
              cptr |-> r.cptr,
              cs   |-> [cs EXCEPT !.tables[dst] = r.dst]]

admit_check(cs, cptr) == invoke(cs.objects, cs.tables[0], cptr, {"INVOKE"})

MutantTransfer(cs, src, cptr, dst) ==
    LET r == delegate(cs.objects, cs.tables[src], cptr, Right, 0,
                      cs.tables[dst])
    IN  IF src = dst \/ r.status # "Ok"
        THEN [status |-> "ErrBadCPtr", cptr |-> 0, tables |-> cs.tables]
        ELSE [status |-> "Ok", cptr |-> r.cptr,
              tables |-> [cs.tables EXCEPT ![dst] = r.dst]]

\* MOVE: delegate with every right, then clear the source slot.  A refused
\* delegate changes nothing.
do_cap_transfer(cs, src, cptr, dst) ==
    LET r == delegate(cs.objects, cs.tables[src], cptr, Right, 0,
                      cs.tables[dst])
    IN  IF src = dst
        THEN [status |-> "ErrBadCPtr", cptr |-> 0, tables |-> cs.tables]
        ELSE IF r.status # "Ok"
        THEN [status |-> r.status, cptr |-> 0, tables |-> cs.tables]
        ELSE [status |-> "Ok", cptr |-> r.cptr,
              tables |-> [cs.tables EXCEPT ![dst] = r.dst,
                                           ![src][cptr] = NoCap]]

=============================================================================
