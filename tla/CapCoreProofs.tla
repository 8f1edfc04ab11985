--------------------------- MODULE CapCoreProofs ---------------------------
(***************************************************************************)
(* What the cap-core operations return, for every table size: the facts    *)
(* the invariance proofs of the state machines cite.                       *)
(***************************************************************************)
EXTENDS CapCore, WellFoundedInduction, TLAPS

\* Zenon is the default prover here; leaves with arithmetic, records or
\* functions that are beyond it cite SMT.
USE Zenon

(***************************************************************************)
(* A nonempty set of natural numbers has a least element, so the scan for  *)
(* the lowest free slot or object id finds one.                            *)
(***************************************************************************)
LEMMA MinInSet ==
    ASSUME NEW S \in SUBSET Nat, S # {}
    PROVE  /\ Min(S) \in S
           /\ \A y \in S : Min(S) <= y
<1>1. \E x \in S : \A y \in S : ~(<<y, x>> \in OpToRel(<, Nat))
  BY NatLessThanWellFounded, WFMin
<1>2. \E x \in S : \A y \in S : ~(y < x)
  BY <1>1, Zenon DEF OpToRel
<1>3. \E x \in S : \A y \in S : x <= y
  BY SMT, <1>2
<1> QED
  BY <1>3 DEF Min

(***************************************************************************)
(* create_object takes an id that was not present and touches no other     *)
(* object.                                                                 *)
(***************************************************************************)
CreateObjectPost(ot, kind, r) ==
    /\ r.ot \in ObjectTable
    /\ r.ok \in BOOLEAN
    /\ r.ok => /\ r.oid \in Oid
               /\ ~ot[r.oid].present
               /\ r.ot[r.oid] = [kind |-> kind, current_epoch |-> 0,
                                 present |-> TRUE]
               /\ \A o \in Oid \ {r.oid} : r.ot[o] = ot[o]
    /\ ~r.ok => r.ot = ot

\* create_object does so, for every table.
LEMMA CreateObjectSpec ==
    ASSUME NEW ot \in ObjectTable, NEW kind \in Kind
    PROVE  CreateObjectPost(ot, kind, create_object(ot, kind))
<1> DEFINE o == Min(FreeOids(ot))
<1> USE DEF CreateObjectPost
<1>1. CASE FreeOids(ot) = {}
  BY <1>1 DEF create_object
<1>2. CASE FreeOids(ot) # {}
  <2>1. FreeOids(ot) \in SUBSET Nat
    BY SMT, SizeAssumption DEF FreeOids, Oid
  <2>2. o \in FreeOids(ot)
    BY <1>2, <2>1, MinInSet
  <2>3. o \in Oid /\ ~ot[o].present
    BY <2>2 DEF FreeOids
  <2>4. [kind |-> kind, current_epoch |-> 0, present |-> TRUE] \in ObjectMeta
    BY SMT, SizeAssumption DEF ObjectMeta, Epoch
  <2> QED
    BY <1>2, <2>3, <2>4 DEF create_object, ObjectTable
<1> QED
  BY <1>1, <1>2

(***************************************************************************)
(* A table that is not full has a first free slot, and it is free.         *)
(***************************************************************************)
LEMMA FirstFreeSpec ==
    ASSUME NEW t, ~Full(t)
    PROVE  FirstFree(t) \in Slot /\ t[FirstFree(t)] = NoCap
<1>1. FreeSlots(t) \in SUBSET Nat
  BY SMT, SizeAssumption DEF FreeSlots, Slot
<1>2. FirstFree(t) \in FreeSlots(t)
  BY <1>1, MinInSet DEF Full, FirstFree
<1> QED
  BY <1>2 DEF FreeSlots

(***************************************************************************)
(* mint writes one capability for a present object, capturing its current  *)
(* epoch and kind, into a slot that was free; on failure nothing changes.  *)
(***************************************************************************)
MintPost(ot, t, o, rights, badge, r) ==
    /\ r.t \in CapTable
    /\ r.status \in {"Ok", "ErrBadCPtr"}
    /\ r.status = "Ok" =>
          /\ o \in Oid /\ ot[o].present
          /\ r.cptr \in Slot /\ t[r.cptr] = NoCap
          /\ r.t[r.cptr] = MintedEntry(ot, o, rights, badge)
          /\ r.t[r.cptr] \in CapEntry
          /\ \A s \in Slot \ {r.cptr} : r.t[s] = t[s]
    /\ r.status # "Ok" => r.t = t

\* mint does so, for every table.
LEMMA MintSpec ==
    ASSUME NEW ot \in ObjectTable, NEW t \in CapTable, NEW o,
           NEW rights \in SUBSET Right, NEW badge \in Badge
    PROVE  MintPost(ot, t, o, rights, badge, mint(ot, t, o, rights, badge))
<1> USE DEF MintPost
<1>1. CASE Full(t) \/ o \notin Oid \/ ~ot[o].present
  BY <1>1 DEF mint
<1>2. CASE ~(Full(t) \/ o \notin Oid \/ ~ot[o].present)
  <2>1. FirstFree(t) \in Slot /\ t[FirstFree(t)] = NoCap
    BY <1>2, FirstFreeSpec
  <2>2. MintedEntry(ot, o, rights, badge) \in CapEntry
    BY <1>2 DEF MintedEntry, CapEntry, ObjectTable, ObjectMeta
  <2> QED
    BY <1>2, <2>1, <2>2 DEF mint, CapTable
<1> QED
  BY <1>1, <1>2

(***************************************************************************)
(* delegate copies a live capability that carries DELEGATE, with its       *)
(* rights cut by the mask, into a free slot of the destination; on failure *)
(* the destination is unchanged.                                           *)
(***************************************************************************)
DelegatePost(ot, src, cptr, mask, badge, dst, r) ==
    /\ r.dst \in CapTable
    /\ r.status \in Status
    /\ r.status = "Ok" =>
          /\ cptr \in Slot /\ src[cptr] \in CapEntry
          /\ "DELEGATE" \in src[cptr].rights
          /\ Live(ot, src[cptr])
          /\ r.cptr \in Slot /\ dst[r.cptr] = NoCap
          /\ r.dst[r.cptr] = ChildEntry(src[cptr], mask, badge)
          /\ r.dst[r.cptr] \in CapEntry
          /\ \A s \in Slot \ {r.cptr} : r.dst[s] = dst[s]
    /\ r.status # "Ok" => r.dst = dst

\* delegate does so, for every table.
LEMMA DelegateSpec ==
    ASSUME NEW ot \in ObjectTable, NEW src \in CapTable, NEW dst \in CapTable,
           NEW cptr, NEW mask \in SUBSET Right, NEW badge \in Badge
    PROVE  DelegatePost(ot, src, cptr, mask, badge, dst,
                        delegate(ot, src, cptr, mask, badge, dst))
<1> DEFINE st == DelegateStatus(ot, src, cptr, dst)
<1> USE DEF DelegatePost
<1>1. st \in Status
  BY DEF DelegateStatus, Status, DeadStatus
<1>2. CASE st # "Ok"
  BY <1>1, <1>2 DEF delegate
<1>3. CASE st = "Ok"
  <2>1. /\ Occupied(src, cptr)
        /\ "DELEGATE" \in src[cptr].rights
        /\ Live(ot, src[cptr])
        /\ ~Full(dst)
    BY <1>3 DEF DelegateStatus, DeadStatus
  <2>2. cptr \in Slot /\ src[cptr] \in CapEntry
    BY <2>1 DEF Occupied, CapTable
  <2>3. FirstFree(dst) \in Slot /\ dst[FirstFree(dst)] = NoCap
    BY <2>1, FirstFreeSpec
  <2>4. ChildEntry(src[cptr], mask, badge) \in CapEntry
    BY <2>2 DEF ChildEntry, CapEntry
  <2> QED
    BY <1>1, <1>3, <2>1, <2>2, <2>3, <2>4 DEF delegate, CapTable
<1> QED
  BY <1>2, <1>3

(***************************************************************************)
(* seal removes DELEGATE from one capability and touches nothing else.     *)
(***************************************************************************)
LEMMA SealSpec ==
    ASSUME NEW t \in CapTable, NEW cptr
    PROVE  /\ seal(t, cptr).t \in CapTable
           /\ \A s \in Slot :
                 IF s = cptr /\ t[s] # NoCap
                 THEN seal(t, cptr).t[s] = Sealed(t[s])
                 ELSE seal(t, cptr).t[s] = t[s]
<1>1. CASE ~Occupied(t, cptr)
  BY <1>1 DEF seal, Occupied
<1>2. CASE Occupied(t, cptr)
  <2>1. cptr \in Slot /\ t[cptr] \in CapEntry
    BY <1>2 DEF Occupied, CapTable
  <2>2. Sealed(t[cptr]) \in CapEntry
    BY <2>1 DEF Sealed, CapEntry
  <2> QED
    BY <1>2, <2>1, <2>2 DEF seal, CapTable, Occupied
<1> QED
  BY <1>1, <1>2

=============================================================================
