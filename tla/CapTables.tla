----------------------------- MODULE CapTables -----------------------------
(***************************************************************************)
(* The cap-core crate as a state machine: one object table shared by the   *)
(* capability tables of a set of holders, changed only by the crate's      *)
(* public operations, called in any order with any arguments.              *)
(*                                                                         *)
(* Two history variables carry what docs/CAP_ABI.md's invariants I2 and I3 *)
(* are about and the code does not store: `gen[o]` counts the revocations  *)
(* of object id o, and `lineage[h][s]` remembers, for the capability in    *)
(* slot s of holder h, the generation and the rights its minted ancestor   *)
(* had.                                                                    *)
(***************************************************************************)
EXTENDS CapCore

CONSTANTS
    Holder,         \* the capability tables (domains)
    ObjectKinds,    \* the kinds create_object is called with
    RightsArgs,     \* the rights and masks callers pass
    MaxRevokes,     \* bound: revocations of one object id
    Destroyable     \* the object ids destroy_object is called with

ASSUME RunAssumption ==
    /\ ObjectKinds \subseteq Kind
    /\ RightsArgs \subseteq SUBSET Right
    /\ MaxRevokes \in Nat
    /\ Destroyable \subseteq Oid

VARIABLES
    objects,    \* ObjectTable
    tables,     \* one CapTable per holder
    gen,        \* history: revocations of each object id
    lineage     \* history: generation and rights of each slot's minted ancestor

vars == <<objects, tables, gen, lineage>>

Lineage == [gen: Nat, rights: SUBSET Right]

NoLineage == [gen |-> 0, rights |-> {}]

(***************************************************************************)
(* Every table holds entries of its type.                                  *)
(***************************************************************************)
TypeOK ==
    /\ objects \in ObjectTable
    /\ tables \in [Holder -> CapTable]
    /\ gen \in [Oid -> Nat]
    /\ lineage \in [Holder -> [Slot -> Lineage]]

Init ==
    /\ objects = EmptyObjectTable
    /\ tables = [h \in Holder |-> EmptyCapTable]
    /\ gen = [o \in Oid |-> 0]
    /\ lineage = [h \in Holder |-> [s \in Slot |-> NoLineage]]

-----------------------------------------------------------------------------

CreateObject(kind) ==
    /\ objects' = create_object(objects, kind).ot
    /\ UNCHANGED <<tables, gen, lineage>>

\* The guard on gen is the bound; the code revokes without limit.
Revoke(o) ==
    LET r == revoke(objects, o)
    IN  /\ gen[o] < MaxRevokes
        /\ objects' = r.ot
        /\ gen' = IF r.status = "Ok" THEN [gen EXCEPT ![o] = @ + 1] ELSE gen
        /\ UNCHANGED <<tables, lineage>>

DestroyObject(o) ==
    /\ o \in Destroyable
    /\ objects' = destroy_object(objects, o)
    /\ UNCHANGED <<tables, gen, lineage>>

Mint(h, o, rights, badge) ==
    LET r == mint(objects, tables[h], o, rights, badge)
    IN  /\ tables' = [tables EXCEPT ![h] = r.t]
        /\ lineage' = IF r.status = "Ok"
                      THEN [lineage EXCEPT ![h][r.cptr] =
                                [gen |-> gen[o], rights |-> rights]]
                      ELSE lineage
        /\ UNCHANGED <<objects, gen>>

\* Rust's borrow rules make the source and the destination distinct tables.
Delegate(h, cptr, mask, badge, d) ==
    LET r == delegate(objects, tables[h], cptr, mask, badge, tables[d])
    IN  /\ h # d
        /\ tables' = [tables EXCEPT ![d] = r.dst]
        /\ lineage' = IF r.status = "Ok"
                      THEN [lineage EXCEPT ![d][r.cptr] = lineage[h][cptr]]
                      ELSE lineage
        /\ UNCHANGED <<objects, gen>>

Seal(h, cptr) ==
    /\ tables' = [tables EXCEPT ![h] = seal(tables[h], cptr).t]
    /\ UNCHANGED <<objects, gen, lineage>>

Next ==
    \/ \E kind \in ObjectKinds : CreateObject(kind)
    \/ \E o \in Oid : Revoke(o) \/ DestroyObject(o)
    \/ \E h \in Holder, o \in Oid, rights \in RightsArgs, badge \in Badge :
          Mint(h, o, rights, badge)
    \/ \E h, d \in Holder, cptr \in Slot, mask \in RightsArgs, badge \in Badge :
          Delegate(h, cptr, mask, badge, d)
    \/ \E h \in Holder, cptr \in Slot : Seal(h, cptr)

Spec == Init /\ [][Next]_vars

-----------------------------------------------------------------------------

Held(h, s) == tables[h][s] # NoCap

\* The capability's object was revoked after its ancestor was minted.
Outdated(h, s) ==
    Held(h, s) /\ lineage[h][s].gen < gen[tables[h][s].object_id]

(***************************************************************************)
(* I2, revocation completeness: once an object has been revoked, every     *)
(* capability minted before, and every copy delegated from one, before or  *)
(* after, in whatever table, is refused with ErrRevoked by invoke, however *)
(* many revocations, creations and destructions of other objects follow.   *)
(* (A destroyed id starts again at epoch 0: see README.md.)                *)
(***************************************************************************)
RevocationComplete ==
    \A h \in Holder, s \in Slot :
        Outdated(h, s) /\ tables[h][s].object_id \notin Destroyable =>
            invoke(objects, tables[h], s, {}) = "ErrRevoked"

(***************************************************************************)
(* I3 over whole chains of delegations and seals: a capability never holds *)
(* a right its minted ancestor did not have.                               *)
(***************************************************************************)
NoAmplification ==
    \A h \in Holder, s \in Slot :
        Held(h, s) => tables[h][s].rights \subseteq lineage[h][s].rights

(***************************************************************************)
(* No operation of the crate moves, replaces or strengthens a capability   *)
(* in place: an occupied slot keeps its object, epoch and type, and its    *)
(* rights only shrink.  (mint and delegate must therefore never pick an    *)
(* occupied slot, which the lowest-free-slot scan has to ensure.)          *)
(***************************************************************************)
WeakenStep ==
    \A h \in Holder, s \in Slot :
        Held(h, s) =>
            /\ tables'[h][s] # NoCap
            /\ tables'[h][s].object_id = tables[h][s].object_id
            /\ tables'[h][s].epoch = tables[h][s].epoch
            /\ tables'[h][s].type_tag = tables[h][s].type_tag
            /\ tables'[h][s].rights \subseteq tables[h][s].rights

\* Every step of the crate is such a step.
SlotsOnlyWeaken == [][WeakenStep]_vars

=============================================================================
