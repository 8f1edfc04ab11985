-------------------------- MODULE CapTablesProofs --------------------------
(***************************************************************************)
(* Invariants I2 and I3 of docs/CAP_ABI.md, for any number of holders,     *)
(* slots, objects, rights and revocations.                                 *)
(*                                                                         *)
(* I3 needs nothing but the types.  I2 is not inductive by itself: it      *)
(* needs EpochAgrees (the stored epochs are the generations), which holds  *)
(* only while an object is revoked fewer than EpochMod times, the          *)
(* hypothesis of the theorem, and for ids that are not recycled.           *)
(***************************************************************************)
EXTENDS CapTables, CapCoreProofs

\* Zenon is the default prover here; leaves with arithmetic, records or
\* functions that are beyond it cite SMT.
USE Zenon

(***************************************************************************)
(* Every operation keeps the tables well typed, for any arguments.         *)
(***************************************************************************)
THEOREM TypeCorrect == Spec => []TypeOK
<1>1. Init => TypeOK
  BY SMT, SizeAssumption
     DEF Init, TypeOK, EmptyObjectTable, EmptyCapTable, ObjectTable,
         ObjectMeta, Kind, Epoch, CapTable, Lineage, NoLineage
<1>2. TypeOK /\ [Next]_vars => TypeOK'
  <2> SUFFICES ASSUME TypeOK, [Next]_vars PROVE TypeOK'
    OBVIOUS
  <2> USE DEF TypeOK
  <2>1. ASSUME NEW kind \in ObjectKinds, CreateObject(kind) PROVE TypeOK'
    <3>1. CreateObjectPost(objects, kind, create_object(objects, kind))
      BY CreateObjectSpec, RunAssumption
    <3> QED
      BY <2>1, <3>1 DEF CreateObject, CreateObjectPost
  <2>2. ASSUME NEW o \in Oid, Revoke(o) PROVE TypeOK'
    <3>1. revoke(objects, o).ot \in ObjectTable
      BY SMT, SizeAssumption
         DEF revoke, NextEpoch, ObjectTable, ObjectMeta, Epoch
    <3> QED
      BY SMT, <2>2, <3>1 DEF Revoke
  <2>3. ASSUME NEW o \in Oid, DestroyObject(o) PROVE TypeOK'
    <3>1. "Null" \in Kind
      BY DEF Kind
    <3>2. destroy_object(objects, o) \in ObjectTable
      BY <3>1 DEF destroy_object, ObjectTable, ObjectMeta
    <3> QED
      BY <2>3, <3>2 DEF DestroyObject
  <2>4. ASSUME NEW h \in Holder, NEW o \in Oid, NEW rights \in RightsArgs,
               NEW badge \in Badge, Mint(h, o, rights, badge)
        PROVE  TypeOK'
    <3> DEFINE r == mint(objects, tables[h], o, rights, badge)
    <3>1. rights \in SUBSET Right /\ tables[h] \in CapTable
      BY RunAssumption
    <3>2. r.t \in CapTable /\ (r.status = "Ok" => r.cptr \in Slot)
      BY <3>1, MintSpec DEF MintPost
    <3>3. [gen |-> gen[o], rights |-> rights] \in Lineage
      BY <3>1 DEF Lineage
    <3> QED
      BY <2>4, <3>2, <3>3 DEF Mint
  <2>5. ASSUME NEW h \in Holder, NEW d \in Holder, NEW cptr \in Slot,
               NEW mask \in RightsArgs, NEW badge \in Badge,
               Delegate(h, cptr, mask, badge, d)
        PROVE  TypeOK'
    <3> DEFINE r == delegate(objects, tables[h], cptr, mask, badge, tables[d])
    <3>1. /\ mask \in SUBSET Right
          /\ tables[h] \in CapTable /\ tables[d] \in CapTable
      BY RunAssumption
    <3>2. r.dst \in CapTable /\ (r.status = "Ok" => r.cptr \in Slot)
      BY <3>1, DelegateSpec DEF DelegatePost
    <3> QED
      BY <2>5, <3>2 DEF Delegate
  <2>6. ASSUME NEW h \in Holder, NEW cptr \in Slot, Seal(h, cptr)
        PROVE  TypeOK'
    BY <2>6, SealSpec DEF Seal
  <2>7. CASE UNCHANGED vars
    BY <2>7 DEF vars
  <2> QED
    BY <2>1, <2>2, <2>3, <2>4, <2>5, <2>6, <2>7 DEF Next
<1> QED
  BY <1>1, <1>2, PTL DEF Spec


-----------------------------------------------------------------------------
(* What one step does to slot s of holder k: the four cases below.          *)

Kept(k, s) == tables'[k][s] = tables[k][s] /\ lineage'[k][s] = lineage[k][s]

Minted(k, s) ==
    /\ tables[k][s] = NoCap
    /\ UNCHANGED <<objects, gen>>
    /\ \E o \in Oid, rights \in SUBSET Right, badge \in Badge :
          /\ objects[o].present
          /\ tables'[k][s] = MintedEntry(objects, o, rights, badge)
          /\ lineage'[k][s] = [gen |-> gen[o], rights |-> rights]

Copied(k, s) ==
    /\ tables[k][s] = NoCap
    /\ UNCHANGED <<objects, gen>>
    /\ \E h \in Holder, c \in Slot, mask \in SUBSET Right, badge \in Badge :
          /\ tables[h][c] \in CapEntry
          /\ Live(objects, tables[h][c])
          /\ tables'[k][s] = ChildEntry(tables[h][c], mask, badge)
          /\ lineage'[k][s] = lineage[h][c]

WasSealed(k, s) ==
    /\ tables[k][s] \in CapEntry
    /\ UNCHANGED <<objects, gen>>
    /\ tables'[k][s] = Sealed(tables[k][s])
    /\ lineage'[k][s] = lineage[k][s]

(***************************************************************************)
(* Every step keeps, mints, copies or seals each slot: mint and delegate   *)
(* write only the free slot they found.                                    *)
(***************************************************************************)
LEMMA SlotCases ==
    ASSUME TypeOK, [Next]_vars, NEW k \in Holder, NEW s \in Slot
    PROVE  Kept(k, s) \/ Minted(k, s) \/ Copied(k, s) \/ WasSealed(k, s)
<1> USE DEF TypeOK
<1>1. ASSUME NEW kind \in ObjectKinds, CreateObject(kind) PROVE Kept(k, s)
  BY <1>1 DEF CreateObject, Kept
<1>2. ASSUME NEW o \in Oid, Revoke(o) \/ DestroyObject(o) PROVE Kept(k, s)
  BY <1>2 DEF Revoke, DestroyObject, Kept
<1>3. ASSUME NEW h \in Holder, NEW o \in Oid, NEW rights \in RightsArgs,
             NEW badge \in Badge, Mint(h, o, rights, badge)
      PROVE  Kept(k, s) \/ Minted(k, s)
  <2> DEFINE r == mint(objects, tables[h], o, rights, badge)
  <2>0. r = mint(objects, tables[h], o, rights, badge)
    OBVIOUS
  <2> HIDE DEF r
  <2>1. /\ rights \in SUBSET Right
        /\ tables[h] \in CapTable /\ objects \in ObjectTable
    BY RunAssumption
  <2>2. MintPost(objects, tables[h], o, rights, badge, r)
    BY <2>0, <2>1, MintSpec
  <2>3. /\ tables' = [tables EXCEPT ![h] = r.t]
        /\ lineage' = IF r.status = "Ok"
                      THEN [lineage EXCEPT ![h][r.cptr] =
                                [gen |-> gen[o], rights |-> rights]]
                      ELSE lineage
        /\ UNCHANGED <<objects, gen>>
    BY <1>3 DEF Mint, r
  <2>4. CASE r.status = "Ok" /\ k = h /\ s = r.cptr
    <3>1. tables'[k][s] = MintedEntry(objects, o, rights, badge)
      BY <2>2, <2>3, <2>4 DEF MintPost
    <3>2. lineage'[k][s] = [gen |-> gen[o], rights |-> rights]
      BY <2>3, <2>4
    <3> QED
      BY <2>1, <2>2, <2>3, <2>4, <3>1, <3>2 DEF Minted, MintPost
  <2>5. CASE ~(r.status = "Ok" /\ k = h /\ s = r.cptr)
    <3>1. tables'[k][s] = tables[k][s]
      BY <2>2, <2>3, <2>5 DEF MintPost
    <3>2. lineage'[k][s] = lineage[k][s]
      BY <2>2, <2>3, <2>5 DEF MintPost
    <3> QED
      BY <3>1, <3>2 DEF Kept
  <2> QED
    BY <2>4, <2>5
<1>4. ASSUME NEW h \in Holder, NEW d \in Holder, NEW cptr \in Slot,
             NEW mask \in RightsArgs, NEW badge \in Badge,
             Delegate(h, cptr, mask, badge, d)
      PROVE  Kept(k, s) \/ Copied(k, s)
  <2> DEFINE r == delegate(objects, tables[h], cptr, mask, badge, tables[d])
  <2>0. r = delegate(objects, tables[h], cptr, mask, badge, tables[d])
    OBVIOUS
  <2> HIDE DEF r
  <2>1. /\ mask \in SUBSET Right
        /\ tables[h] \in CapTable /\ tables[d] \in CapTable
        /\ objects \in ObjectTable
    BY RunAssumption
  <2>2. DelegatePost(objects, tables[h], cptr, mask, badge, tables[d], r)
    BY <2>0, <2>1, DelegateSpec
  <2>3. /\ tables' = [tables EXCEPT ![d] = r.dst]
        /\ lineage' = IF r.status = "Ok"
                      THEN [lineage EXCEPT ![d][r.cptr] = lineage[h][cptr]]
                      ELSE lineage
        /\ UNCHANGED <<objects, gen>>
    BY <1>4 DEF Delegate, r
  <2>4. CASE r.status = "Ok" /\ k = d /\ s = r.cptr
    <3>1. tables'[k][s] = ChildEntry(tables[h][cptr], mask, badge)
      BY <2>2, <2>3, <2>4 DEF DelegatePost
    <3>2. lineage'[k][s] = lineage[h][cptr]
      BY <2>3, <2>4
    <3> QED
      BY <2>1, <2>2, <2>3, <2>4, <3>1, <3>2 DEF Copied, DelegatePost
  <2>5. CASE ~(r.status = "Ok" /\ k = d /\ s = r.cptr)
    <3>1. tables'[k][s] = tables[k][s]
      BY <2>2, <2>3, <2>5 DEF DelegatePost
    <3>2. lineage'[k][s] = lineage[k][s]
      BY <2>2, <2>3, <2>5 DEF DelegatePost
    <3> QED
      BY <3>1, <3>2 DEF Kept
  <2> QED
    BY <2>4, <2>5
<1>5. ASSUME NEW h \in Holder, NEW cptr \in Slot, Seal(h, cptr)
      PROVE  Kept(k, s) \/ WasSealed(k, s)
  <2>1. CASE k = h /\ s = cptr /\ tables[k][s] # NoCap
    <3>1. tables[k][s] \in CapEntry
      BY <2>1 DEF CapTable
    <3> QED
      BY <1>5, <2>1, <3>1, SealSpec DEF Seal, WasSealed
  <2>2. CASE ~(k = h /\ s = cptr /\ tables[k][s] # NoCap)
    BY SMT, <1>5, <2>2, SealSpec DEF Seal, Kept
  <2> QED
    BY <2>1, <2>2
<1>6. CASE UNCHANGED vars
  BY <1>6 DEF vars, Kept
<1> QED
  BY <1>1, <1>2, <1>3, <1>4, <1>5, <1>6 DEF Next

-----------------------------------------------------------------------------

(***************************************************************************)
(* I3: no chain of delegations and seals amplifies rights.                 *)
(***************************************************************************)
THEOREM RightsNeverAmplify == Spec => []NoAmplification
<1> USE DEF NoAmplification, Held
<1>1. Init => NoAmplification
  BY SMT DEF Init, EmptyCapTable
<1>2. TypeOK /\ NoAmplification /\ [Next]_vars => NoAmplification'
  <2> SUFFICES ASSUME TypeOK, NoAmplification, [Next]_vars,
                      NEW k \in Holder, NEW s \in Slot,
                      tables'[k][s] # NoCap
               PROVE  tables'[k][s].rights \subseteq lineage'[k][s].rights
    OBVIOUS
  <2>1. CASE Kept(k, s)
    BY <2>1 DEF Kept
  <2>2. CASE Minted(k, s)
    BY SMT, <2>2 DEF Minted, MintedEntry
  <2>3. CASE Copied(k, s)
    <3>1. PICK h \in Holder, c \in Slot, mask \in SUBSET Right, badge \in Badge :
              /\ tables[h][c] \in CapEntry
              /\ tables'[k][s] = ChildEntry(tables[h][c], mask, badge)
              /\ lineage'[k][s] = lineage[h][c]
      BY <2>3 DEF Copied
    <3>2. tables[h][c].rights \subseteq lineage[h][c].rights
      BY <3>1, NoCapAssumption
    <3>3. tables'[k][s].rights \subseteq tables[h][c].rights
      BY <3>1 DEF ChildEntry, CapEntry
    <3> QED
      BY <3>1, <3>2, <3>3
  <2>4. CASE WasSealed(k, s)
    <3>1. tables'[k][s].rights \subseteq tables[k][s].rights
      BY <2>4 DEF WasSealed, Sealed, CapEntry
    <3> QED
      BY <2>4, <3>1, NoCapAssumption DEF WasSealed
  <2> QED
    BY <2>1, <2>2, <2>3, <2>4, SlotCases
<1> QED
  BY <1>1, <1>2, TypeCorrect, PTL DEF Spec

(***************************************************************************)
(* An occupied slot keeps its object, epoch and type, and loses rights     *)
(* only: no operation of the crate overwrites a capability.                *)
(***************************************************************************)
THEOREM SlotsNeverOverwritten == Spec => SlotsOnlyWeaken
<1>1. ASSUME TypeOK, [Next]_vars, NEW k \in Holder, NEW s \in Slot, Held(k, s)
      PROVE  /\ tables'[k][s] # NoCap
             /\ tables'[k][s].object_id = tables[k][s].object_id
             /\ tables'[k][s].epoch = tables[k][s].epoch
             /\ tables'[k][s].type_tag = tables[k][s].type_tag
             /\ tables'[k][s].rights \subseteq tables[k][s].rights
  <2>1. tables[k][s] # NoCap
    BY <1>1 DEF Held
  <2>2. Kept(k, s) \/ WasSealed(k, s)
    BY <1>1, <2>1, SlotCases DEF Minted, Copied
  <2>3. CASE WasSealed(k, s)
    <3>1. Sealed(tables[k][s]) \in CapEntry
      BY <2>3 DEF WasSealed, Sealed, CapEntry
    <3> QED
      BY <2>3, <3>1, NoCapAssumption DEF WasSealed, Sealed, CapEntry
  <2> QED
    BY <2>1, <2>2, <2>3 DEF Kept
<1>2. TypeOK /\ [Next]_vars => [WeakenStep]_vars
  BY <1>1 DEF WeakenStep
<1> QED
  BY <1>2, TypeCorrect, PTL DEF Spec, SlotsOnlyWeaken

-----------------------------------------------------------------------------

\* The object ids that are never destroyed.
Lasting == Oid \ Destroyable

(***************************************************************************)
(* The strengthening of I2, for the ids that are never destroyed: stored   *)
(* epochs are exactly the generations, and a capability's epoch is the     *)
(* generation it was minted in.                                            *)
(***************************************************************************)
EpochAgrees ==
    /\ \A o \in Lasting :
          /\ gen[o] <= MaxRevokes
          /\ objects[o].current_epoch = gen[o]
          /\ ~objects[o].present => gen[o] = 0
    /\ \A h \in Holder, s \in Slot :
          Held(h, s) /\ tables[h][s].object_id \in Lasting =>
              /\ objects[tables[h][s].object_id].present
              /\ tables[h][s].epoch = lineage[h][s].gen
              /\ tables[h][s].epoch <= gen[tables[h][s].object_id]

(***************************************************************************)
(* wrapping_add does not wrap below the modulus.                           *)
(***************************************************************************)
LEMMA ModSmall ==
    ASSUME NEW a \in Nat, NEW m \in Nat, a < m
    PROVE  a % m = a
BY SMT

(***************************************************************************)
(* EpochAgrees is inductive, given the types: only revoke changes an epoch *)
(* and it moves gen in step; mint captures the current epoch; delegate and *)
(* seal copy it; create_object reuses no id that a capability names.       *)
(***************************************************************************)
LEMMA EpochAgreesInvariant ==
    ASSUME MaxRevokes < EpochMod
    PROVE  Spec => []EpochAgrees
<1>1. Init => EpochAgrees
  BY SMT, SizeAssumption, RunAssumption
     DEF Init, EpochAgrees, Lasting, EmptyObjectTable, EmptyCapTable, Held
<1>2. TypeOK /\ EpochAgrees /\ [Next]_vars => EpochAgrees'
  <2> SUFFICES ASSUME TypeOK, EpochAgrees, [Next]_vars PROVE EpochAgrees'
    OBVIOUS
  <2>0. \A h \in Holder, s \in Slot :
            tables[h][s] # NoCap => /\ tables[h][s] \in CapEntry
                                    /\ tables[h][s].object_id \in Oid
    BY SMT DEF TypeOK, CapTable, CapEntry
  <2>l. Lasting \subseteq Oid
    BY DEF Lasting
  <2>a. \A o \in Lasting : /\ gen[o] <= MaxRevokes
                           /\ objects[o].current_epoch = gen[o]
                           /\ ~objects[o].present => gen[o] = 0
    BY DEF EpochAgrees
  <2>b. \A h \in Holder, s \in Slot :
            tables[h][s] # NoCap /\ tables[h][s].object_id \in Lasting =>
            /\ objects[tables[h][s].object_id].present
            /\ tables[h][s].epoch = lineage[h][s].gen
            /\ tables[h][s].epoch <= gen[tables[h][s].object_id]
    BY DEF EpochAgrees, Held
  <2>c. gen \in [Oid -> Nat] /\ objects \in ObjectTable
    BY DEF TypeOK
  <2>1. ASSUME NEW kind \in ObjectKinds, CreateObject(kind)
        PROVE  EpochAgrees'
    <3> DEFINE r == create_object(objects, kind)
    <3>1. CreateObjectPost(objects, kind, r)
      BY <2>c, CreateObjectSpec, RunAssumption
    <3>2. objects' = r.ot /\ UNCHANGED <<tables, gen, lineage>>
      BY <2>1 DEF CreateObject
    <3> HIDE DEF r
    <3>3. CASE ~r.ok
      <4>1. objects' = objects
        BY <3>1, <3>2, <3>3 DEF CreateObjectPost
      <4> QED
        BY <3>2, <4>1 DEF EpochAgrees, Held
    <3>4. CASE r.ok
      <4>1. /\ r.oid \in Oid /\ ~objects[r.oid].present
            /\ objects'[r.oid].current_epoch = 0
            /\ objects'[r.oid].present
            /\ \A o \in Oid \ {r.oid} : objects'[o] = objects[o]
        BY SMT, <3>1, <3>2, <3>4 DEF CreateObjectPost
      <4>2. \A h \in Holder, s \in Slot :
                tables[h][s] # NoCap /\ tables[h][s].object_id \in Lasting
                    => tables[h][s].object_id # r.oid
        BY <2>b, <4>1
      <4>3. \A o \in Lasting : /\ gen[o] <= MaxRevokes
                               /\ objects'[o].current_epoch = gen[o]
                               /\ ~objects'[o].present => gen[o] = 0
        BY <2>a, <2>l, <4>1
      <4>4. \A h \in Holder, s \in Slot :
                tables[h][s] # NoCap /\ tables[h][s].object_id \in Lasting =>
                objects'[tables[h][s].object_id].present
        BY <2>0, <2>b, <4>1, <4>2
      <4> QED
        BY <2>b, <3>2, <4>3, <4>4 DEF EpochAgrees, Held
    <3> QED
      BY <3>3, <3>4
  <2>2. ASSUME NEW o \in Oid, Revoke(o) PROVE EpochAgrees'
    <3>1. CASE ~objects[o].present
      <4>1. UNCHANGED <<objects, tables, gen, lineage>>
        BY <2>2, <3>1 DEF Revoke, revoke
      <4> QED
        BY <4>1 DEF EpochAgrees, Held
    <3>3. CASE objects[o].present /\ o \notin Lasting
      <4>1. /\ tables' = tables /\ lineage' = lineage
            /\ \A p \in Lasting : objects'[p] = objects[p] /\ gen'[p] = gen[p]
        BY <2>2, <2>c, <2>l, <3>3
           DEF Revoke, revoke, ObjectTable, ObjectMeta
      <4> QED
        BY <4>1 DEF EpochAgrees, Held
    <3>2. CASE objects[o].present /\ o \in Lasting
      <4>1. /\ gen[o] < MaxRevokes
            /\ gen' = [gen EXCEPT ![o] = @ + 1]
            /\ objects' = [objects EXCEPT ![o].current_epoch = NextEpoch(@)]
            /\ UNCHANGED <<tables, lineage>>
        BY <2>2, <3>2 DEF Revoke, revoke
      <4>2. NextEpoch(objects[o].current_epoch) = gen[o] + 1
        <5>1. objects[o].current_epoch = gen[o] /\ gen[o] \in Nat
          BY <2>a, <2>c, <3>2
        <5>2. gen[o] + 1 < EpochMod
          BY SMT, <4>1, <5>1, SizeAssumption, RunAssumption
        <5> QED
          BY SMT, <5>1, <5>2, SizeAssumption, ModSmall DEF NextEpoch
      <4>3. /\ objects'[o].current_epoch = gen'[o]
            /\ objects'[o].present = objects[o].present
            /\ gen'[o] = gen[o] + 1
            /\ \A p \in Oid \ {o} : objects'[p] = objects[p] /\ gen'[p] = gen[p]
        BY <2>c, <4>1, <4>2 DEF ObjectTable, ObjectMeta
      <4>4. \A p \in Lasting : gen[p] <= gen'[p] /\ gen'[p] <= MaxRevokes
        BY SMT, <2>a, <2>c, <2>l, <4>1, <4>3, RunAssumption
      <4>5. \A p \in Oid : objects[p].present => objects'[p].present
        BY <4>3
      <4>6. \A p \in Lasting : /\ objects'[p].current_epoch = gen'[p]
                               /\ ~objects'[p].present => gen'[p] = 0
        BY <2>a, <2>l, <3>2, <4>3
      <4>7. \A h \in Holder, s \in Slot :
                tables[h][s] # NoCap /\ tables[h][s].object_id \in Lasting =>
                    /\ objects'[tables[h][s].object_id].present
                    /\ tables[h][s].epoch = lineage[h][s].gen
                    /\ tables[h][s].epoch <= gen'[tables[h][s].object_id]
        <5> SUFFICES ASSUME NEW h \in Holder, NEW s \in Slot,
                            tables[h][s] # NoCap,
                            tables[h][s].object_id \in Lasting
                     PROVE  /\ objects'[tables[h][s].object_id].present
                            /\ tables[h][s].epoch = lineage[h][s].gen
                            /\ tables[h][s].epoch <=
                                   gen'[tables[h][s].object_id]
          OBVIOUS
        <5> DEFINE p == tables[h][s].object_id
                   e == tables[h][s].epoch
        <5>1. p \in Oid /\ e \in Nat
          BY SMT, <2>0, SizeAssumption DEF CapEntry, Epoch
        <5>2. objects[p].present /\ e = lineage[h][s].gen /\ e <= gen[p]
          BY <2>b
        <5>3. gen[p] \in Nat /\ gen'[p] \in Nat /\ gen[p] <= gen'[p]
          BY SMT, <2>c, <4>1, <4>4, <5>1
        <5>4. objects'[p].present /\ e = lineage[h][s].gen
          BY <4>5, <5>1, <5>2
        <5>5. e <= gen'[p]
          <6> HIDE DEF e, p
          <6> QED
            BY SMT, <5>1, <5>2, <5>3
        <5> QED
          BY <5>4, <5>5
      <4>8. tables' = tables /\ lineage' = lineage
        BY <4>1
      <4> QED
        BY <4>4, <4>6, <4>7, <4>8 DEF EpochAgrees, Held
    <3> QED
      BY <3>1, <3>2, <3>3
  <2>3. ASSUME UNCHANGED <<objects, gen>> PROVE EpochAgrees'
    <3> SUFFICES ASSUME NEW k \in Holder, NEW s \in Slot,
                        tables'[k][s] # NoCap,
                        tables'[k][s].object_id \in Lasting
                 PROVE  /\ objects[tables'[k][s].object_id].present
                        /\ tables'[k][s].epoch = lineage'[k][s].gen
                        /\ tables'[k][s].epoch <= gen[tables'[k][s].object_id]
      BY <2>a, <2>3 DEF EpochAgrees, Held
    <3>1. CASE Kept(k, s)
      BY <2>b, <3>1 DEF Kept
    <3>2. CASE Minted(k, s)
      BY SMT, <2>a, <2>c, <3>2 DEF Minted, MintedEntry
    <3>3. CASE Copied(k, s)
      <4>1. PICK h \in Holder, c \in Slot, mask \in SUBSET Right,
                 badge \in Badge :
                /\ tables[h][c] \in CapEntry
                /\ tables'[k][s] = ChildEntry(tables[h][c], mask, badge)
                /\ lineage'[k][s] = lineage[h][c]
        BY <3>3 DEF Copied
      <4>2. /\ tables'[k][s].object_id = tables[h][c].object_id
            /\ tables'[k][s].epoch = tables[h][c].epoch
        BY <4>1 DEF ChildEntry, CapEntry
      <4> QED
        BY <2>b, <4>1, <4>2, NoCapAssumption
    <3>4. CASE WasSealed(k, s)
      <4>1. /\ tables'[k][s].object_id = tables[k][s].object_id
            /\ tables'[k][s].epoch = tables[k][s].epoch
        BY <3>4 DEF WasSealed, Sealed, CapEntry
      <4> QED
        BY <2>b, <3>4, <4>1, NoCapAssumption DEF WasSealed
    <3> QED
      BY <3>1, <3>2, <3>3, <3>4, SlotCases
  <2>4. CASE UNCHANGED vars
    BY <2>3, <2>4 DEF vars
  <2>5. CASE Next
    <3>1. ASSUME NEW h \in Holder, NEW o \in Oid, NEW rights \in RightsArgs,
                 NEW badge \in Badge, Mint(h, o, rights, badge)
          PROVE  EpochAgrees'
      BY <2>3, <3>1 DEF Mint
    <3>2. ASSUME NEW h \in Holder, NEW d \in Holder, NEW cptr \in Slot,
                 NEW mask \in RightsArgs, NEW badge \in Badge,
                 Delegate(h, cptr, mask, badge, d)
          PROVE  EpochAgrees'
      BY <2>3, <3>2 DEF Delegate
    <3>3. ASSUME NEW h \in Holder, NEW cptr \in Slot, Seal(h, cptr)
          PROVE  EpochAgrees'
      BY <2>3, <3>3 DEF Seal
    <3>4. ASSUME NEW o \in Oid, DestroyObject(o) PROVE EpochAgrees'
      <4>1. /\ tables' = tables /\ lineage' = lineage /\ gen' = gen
            /\ \A p \in Lasting : objects'[p] = objects[p]
        BY <2>c, <2>l, <3>4
           DEF DestroyObject, destroy_object, Lasting, ObjectTable, ObjectMeta
      <4> QED
        BY <4>1 DEF EpochAgrees, Held
    <3> QED
      BY <2>1, <2>2, <2>5, <3>1, <3>2, <3>3, <3>4 DEF Next
  <2> QED
    BY <2>4, <2>5
<1> QED
  BY <1>1, <1>2, TypeCorrect, PTL DEF Spec

(***************************************************************************)
(* I2, revocation completeness: as long as no object is revoked EpochMod   *)
(* times, whatever is destroyed and created again beside it.               *)
(***************************************************************************)
THEOREM RevocationIsComplete ==
    ASSUME MaxRevokes < EpochMod
    PROVE  Spec => []RevocationComplete
<1>0. TypeOK => \A k \in Holder, c \in Slot :
          Held(k, c) => tables[k][c] \in CapEntry
  BY DEF Held, TypeOK, CapTable
<1>1. TypeOK /\ EpochAgrees => RevocationComplete
  <2> SUFFICES ASSUME TypeOK, EpochAgrees, NEW h \in Holder, NEW s \in Slot,
                      Outdated(h, s), tables[h][s].object_id \notin Destroyable
               PROVE  invoke(objects, tables[h], s, {}) = "ErrRevoked"
    BY DEF RevocationComplete
  <2> DEFINE e == tables[h][s]
  <2>1. e # NoCap /\ e \in CapEntry /\ e.object_id \in Lasting
    <3>1. e # NoCap /\ e \in CapEntry
      BY <1>0 DEF Outdated, Held
    <3> QED
      BY <3>1 DEF CapEntry, Lasting
  <2>2. e.epoch # objects[e.object_id].current_epoch
    <3>1. /\ e.epoch = lineage[h][s].gen
          /\ objects[e.object_id].current_epoch = gen[e.object_id]
      BY <2>1 DEF EpochAgrees, Held
    <3>2. lineage[h][s].gen < gen[e.object_id]
      BY DEF Outdated
    <3>3. e.epoch \in Nat /\ gen[e.object_id] \in Nat
      BY SMT, <2>1, SizeAssumption DEF CapEntry, Epoch, TypeOK, Lasting
    <3> QED
      BY SMT, <3>1, <3>2, <3>3
  <2>3. lookup(objects, tables[h], s) = "ErrRevoked"
    BY <2>1, <2>2 DEF lookup, Occupied, Live, DeadStatus
  <2> QED
    BY <2>3 DEF invoke
<1> QED
  BY <1>1, TypeCorrect, EpochAgreesInvariant, PTL

=============================================================================
