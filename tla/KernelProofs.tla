---------------------------- MODULE KernelProofs ----------------------------
(***************************************************************************)
(* Type correctness, ParkedIffBlocked and CallerIdentity of the running    *)
(* kernel, for any number of tasks, domains, slots, objects and messages   *)
(* and any boot state that satisfies BootAssumption; and that the EDF      *)
(* scheduler implements Kernel's open choice of the next task, for any     *)
(* periods.                                                                *)
(***************************************************************************)
EXTENDS KernelEdf, CapCoreProofs

\* Zenon is the default prover here; leaves with arithmetic, records or
\* functions that are beyond it cite SMT.
USE Zenon

(***************************************************************************)
(* What the operations on the capability spaces leave behind.              *)
(***************************************************************************)

\* What a boot constructor leaves: a well-typed state in which only the
\* root's table changed, and on success a capability with the given rights
\* for an object of the given kind that was not there before.
RootPost(cs, kind, rights, r) ==
    /\ r.cs \in CapState
    /\ r.ok \in BOOLEAN
    /\ \A d \in Domain \ {0} : r.cs.tables[d] = cs.tables[d]
    /\ \A o \in Oid : cs.objects[o].present => r.cs.objects[o].present
    /\ r.ok => /\ r.cptr \in Slot
               /\ r.cs.tables[0][r.cptr] \in CapEntry
               /\ r.cs.tables[0][r.cptr].rights = rights
               /\ r.cs.tables[0][r.cptr].type_tag = kind
               /\ ~cs.objects[r.cs.tables[0][r.cptr].object_id].present

(***************************************************************************)
(* MintRoot, and so every constructor boot and the supervisor use, keeps   *)
(* the tables well typed and touches no table but the root's.              *)
(***************************************************************************)
LEMMA MintRootSpec ==
    ASSUME NEW cs \in CapState, NEW kind \in Kind, NEW rights \in SUBSET Right
    PROVE  RootPost(cs, kind, rights, MintRoot(cs, kind, rights))
<1> DEFINE c == create_object(cs.objects, kind)
           m == mint(c.ot, cs.tables[0], c.oid, rights, 0)
<1>0. 0 \in Domain /\ cs.objects \in ObjectTable /\ cs.tables[0] \in CapTable
  BY SMT, DomainAssumption DEF Domain, CapState
<1>1. CreateObjectPost(cs.objects, kind, c)
  BY <1>0, CreateObjectSpec
<1>2. /\ c.ot \in ObjectTable
      /\ c.ok => /\ c.oid \in Oid /\ ~cs.objects[c.oid].present
                 /\ c.ot[c.oid].kind = kind
      /\ \A o \in Oid : cs.objects[o].present => c.ot[o].present
  BY SMT, <1>1 DEF CreateObjectPost
<1>3. MintPost(c.ot, cs.tables[0], c.oid, rights, 0, m)
  BY <1>0, <1>2, MintSpec, SizeAssumption
<1>4. /\ m.t \in CapTable /\ m.status \in {"Ok", "ErrBadCPtr"}
      /\ m.status = "Ok" =>
            /\ m.cptr \in Slot
            /\ m.t[m.cptr] \in CapEntry
            /\ m.t[m.cptr].rights = rights
            /\ m.t[m.cptr].object_id = c.oid
            /\ m.t[m.cptr].type_tag = c.ot[c.oid].kind
  <2> HIDE DEF c, m
  <2> QED
    BY SMT, <1>3 DEF MintPost, MintedEntry
<1>5. MintRoot(cs, kind, rights) =
        IF ~c.ok THEN [ok |-> FALSE, cptr |-> 0, cs |-> cs]
        ELSE [ok |-> m.status = "Ok", cptr |-> m.cptr,
              cs |-> [objects |-> c.ot,
                      tables |-> [cs.tables EXCEPT ![0] = m.t]]]
  BY DEF MintRoot
<1> HIDE DEF c, m
<1>6. CASE ~c.ok
  <2> DEFINE x == MintRoot(cs, kind, rights)
  <2>1. x = [ok |-> FALSE, cptr |-> 0, cs |-> cs]
    BY <1>5, <1>6
  <2> HIDE DEF x
  <2>2. RootPost(cs, kind, rights, x)
    BY <2>1 DEF RootPost
  <2> QED
    BY <2>2 DEF x
<1>7. CASE c.ok
  <2>1. [cs.tables EXCEPT ![0] = m.t] \in [Domain -> CapTable]
    BY <1>4 DEF CapState
  <2>2. \A d \in Domain \ {0} : [cs.tables EXCEPT ![0] = m.t][d] = cs.tables[d]
    BY DEF CapState
  <2>3. [cs.tables EXCEPT ![0] = m.t][0] = m.t
    BY <1>0 DEF CapState
  <2> QED
    <3> DEFINE x == MintRoot(cs, kind, rights)
               tb == [cs.tables EXCEPT ![0] = m.t]
    <3>1. x = [ok |-> m.status = "Ok", cptr |-> m.cptr,
               cs |-> [objects |-> c.ot, tables |-> tb]]
      BY <1>5, <1>7
    <3> HIDE DEF x, tb
    <3>2. /\ x.ok = (m.status = "Ok") /\ x.cptr = m.cptr
          /\ x.cs = [objects |-> c.ot, tables |-> tb]
          /\ x.cs.tables = tb /\ x.cs.objects = c.ot
      BY <3>1
    <3>3. x.cs \in CapState
      BY <1>2, <2>1, <3>2 DEF CapState, tb
    <3>4. \A d \in Domain \ {0} : x.cs.tables[d] = cs.tables[d]
      BY <2>2, <3>2 DEF tb
    <3>5. x.cs.tables[0] = m.t
      BY <2>3, <3>2 DEF tb
    <3>6. RootPost(cs, kind, rights, x)
      BY <1>2, <1>4, <1>7, <3>2, <3>3, <3>4, <3>5 DEF RootPost
    <3> QED
      BY <3>6 DEF x
<1> QED
  BY <1>6, <1>7

(***************************************************************************)
(* With a free object id and a free root slot MintRoot succeeds, takes one *)
(* of each, and the root's new capability is live.                         *)
(***************************************************************************)
LEMMA MintRootRoom ==
    ASSUME NEW cs \in CapState, NEW kind \in Kind, NEW rights \in SUBSET Right,
           FreeOids(cs.objects) # {}, FreeSlots(cs.tables[0]) # {}
    PROVE  LET r == MintRoot(cs, kind, rights)
           IN  /\ r.ok
               /\ \E o \in FreeOids(cs.objects) :
                     FreeOids(r.cs.objects) = FreeOids(cs.objects) \ {o}
               /\ r.cptr \in FreeSlots(cs.tables[0])
               /\ FreeSlots(r.cs.tables[0]) = FreeSlots(cs.tables[0]) \ {r.cptr}
               /\ Live(r.cs.objects, r.cs.tables[0][r.cptr])
<1> DEFINE c == create_object(cs.objects, kind)
           m == mint(c.ot, cs.tables[0], c.oid, rights, 0)
           x == MintRoot(cs, kind, rights)
<1>0. 0 \in Domain /\ cs.objects \in ObjectTable /\ cs.tables[0] \in CapTable
  BY SMT, DomainAssumption DEF Domain, CapState
<1>1. CreateObjectPost(cs.objects, kind, c) /\ c.ok
  BY <1>0, CreateObjectSpec DEF create_object
<1>2. /\ c.ot \in ObjectTable /\ c.oid \in Oid /\ ~cs.objects[c.oid].present
      /\ c.ot[c.oid] = [kind |-> kind, current_epoch |-> 0, present |-> TRUE]
      /\ \A o \in Oid \ {c.oid} : c.ot[o] = cs.objects[o]
  <2> HIDE DEF c
  <2> QED
    BY <1>1 DEF CreateObjectPost
<1>3. m.status = "Ok"
  <2> HIDE DEF c
  <2> QED
    BY SMT, <1>2 DEF mint, Full
<1>4. MintPost(c.ot, cs.tables[0], c.oid, rights, 0, m)
  BY <1>0, <1>2, MintSpec, SizeAssumption
<1>5. /\ m.cptr \in Slot /\ cs.tables[0][m.cptr] = NoCap
      /\ m.t[m.cptr] = MintedEntry(c.ot, c.oid, rights, 0)
      /\ m.t[m.cptr] \in CapEntry
      /\ \A s \in Slot \ {m.cptr} : m.t[s] = cs.tables[0][s]
  <2> HIDE DEF c, m
  <2> QED
    BY <1>3, <1>4 DEF MintPost
<1>6. /\ x.ok = (m.status = "Ok") /\ x.cptr = m.cptr
      /\ x.cs.objects = c.ot
      /\ x.cs.tables[0] = m.t
  <2> DEFINE tb == [cs.tables EXCEPT ![0] = m.t]
  <2>1. x = [ok |-> m.status = "Ok", cptr |-> m.cptr,
             cs |-> [objects |-> c.ot, tables |-> tb]]
    BY <1>1 DEF MintRoot
  <2>2. tb[0] = m.t
    BY <1>0 DEF CapState
  <2> HIDE DEF c, m, x, tb
  <2> QED
    BY <2>1, <2>2
<1> HIDE DEF c, m, x
<1>7. FreeOids(c.ot) = FreeOids(cs.objects) \ {c.oid}
      /\ c.oid \in FreeOids(cs.objects)
  BY SMT, <1>2 DEF FreeOids
<1>8. FreeSlots(m.t) = FreeSlots(cs.tables[0]) \ {m.cptr}
      /\ m.cptr \in FreeSlots(cs.tables[0])
  BY ZenonT(30), <1>5, NoCapAssumption DEF FreeSlots
<1>9. Live(c.ot, m.t[m.cptr])
  BY SMT, <1>2, <1>5 DEF Live, MintedEntry
<1> QED
  BY <1>3, <1>6, <1>7, <1>8, <1>9 DEF x

\* What delegating from the root leaves: only the destination changed, by
\* at most one slot, which was free and now holds a cut-down copy of the
\* root's capability.
DelegatedPost(cs, dst, cptr, mask, r) ==
    /\ r.cs \in CapState
    /\ r.cs.objects = cs.objects
    /\ r.ok \in BOOLEAN
    /\ \A d \in Domain \ {dst} : r.cs.tables[d] = cs.tables[d]
    /\ r.cs.tables[dst] = cs.tables[dst]
       \/ /\ cptr \in Slot /\ cs.tables[0][cptr] \in CapEntry
          /\ \E s \in Slot :
                /\ r.cs.tables[dst][s] = ChildEntry(cs.tables[0][cptr], mask, 0)
                /\ \A q \in Slot \ {s} :
                      r.cs.tables[dst][q] = cs.tables[dst][q]

(***************************************************************************)
(* delegate_from_root changes nothing but one free slot of the destination *)
(* domain.                                                                 *)
(***************************************************************************)
LEMMA DelegateFromRootSpec ==
    ASSUME NEW cs \in CapState, NEW dst \in Domain, NEW cptr,
           NEW mask \in SUBSET Right
    PROVE  DelegatedPost(cs, dst, cptr, mask,
                         delegate_from_root(cs, dst, cptr, mask))
<1> DEFINE r == delegate(cs.objects, cs.tables[0], cptr, mask, 0,
                         cs.tables[dst])
<1>0. /\ 0 \in Domain /\ cs.objects \in ObjectTable
      /\ cs.tables[0] \in CapTable /\ cs.tables[dst] \in CapTable
  BY SMT, DomainAssumption DEF Domain, CapState
<1>1. DelegatePost(cs.objects, cs.tables[0], cptr, mask, 0, cs.tables[dst], r)
  BY <1>0, DelegateSpec, SizeAssumption
<1>2. /\ r.dst \in CapTable
      /\ r.status = "Ok" =>
            /\ cptr \in Slot /\ cs.tables[0][cptr] \in CapEntry
            /\ r.cptr \in Slot
            /\ r.dst[r.cptr] = ChildEntry(cs.tables[0][cptr], mask, 0)
            /\ \A s \in Slot \ {r.cptr} : r.dst[s] = cs.tables[dst][s]
      /\ r.status # "Ok" => r.dst = cs.tables[dst]
  BY <1>1 DEF DelegatePost
<1>3. delegate_from_root(cs, dst, cptr, mask) =
        IF dst = 0 THEN [ok |-> FALSE, cptr |-> 0, cs |-> cs]
        ELSE [ok |-> r.status = "Ok", cptr |-> r.cptr,
              cs |-> [cs EXCEPT !.tables[dst] = r.dst]]
  BY DEF delegate_from_root
<1> HIDE DEF r
<1>4. CASE dst = 0
  BY SMT, <1>3, <1>4 DEF DelegatedPost
<1>5. CASE dst # 0
  <2> DEFINE new == [cs EXCEPT !.tables[dst] = r.dst]
  <2>1. /\ new.objects = cs.objects
        /\ new.tables = [cs.tables EXCEPT ![dst] = r.dst]
        /\ new \in CapState
    BY <1>2 DEF CapState
  <2>2. /\ new.tables[dst] = r.dst
        /\ \A d \in Domain \ {dst} : new.tables[d] = cs.tables[d]
    BY <2>1 DEF CapState
  <2>3. /\ delegate_from_root(cs, dst, cptr, mask).cs = new
        /\ delegate_from_root(cs, dst, cptr, mask).ok = (r.status = "Ok")
    BY SMT, <1>3, <1>5
  <2> DEFINE res == delegate_from_root(cs, dst, cptr, mask)
  <2> HIDE DEF new, res
  <2>4. /\ res.cs \in CapState /\ res.cs.objects = cs.objects
        /\ res.ok \in BOOLEAN
        /\ \A d \in Domain \ {dst} : res.cs.tables[d] = cs.tables[d]
        /\ res.cs.tables[dst] = r.dst
    BY <2>1, <2>2, <2>3 DEF res
  <2>5. DelegatedPost(cs, dst, cptr, mask, res)
    BY ZenonT(30), <1>2, <2>4 DEF DelegatedPost
  <2> QED
    BY <2>5 DEF res
<1> QED
  BY <1>4, <1>5

(***************************************************************************)
(* A live capability of the root that carries DELEGATE can be delegated to *)
(* any other domain whose table has room.                                  *)
(***************************************************************************)
LEMMA DelegateFromRootRoom ==
    ASSUME NEW cs \in CapState, NEW dst \in Domain \ {0}, NEW cptr \in Slot,
           NEW mask \in SUBSET Right,
           cs.tables[0][cptr] # NoCap,
           "DELEGATE" \in cs.tables[0][cptr].rights,
           Live(cs.objects, cs.tables[0][cptr]),
           FreeSlots(cs.tables[dst]) # {}
    PROVE  delegate_from_root(cs, dst, cptr, mask).ok
<1>1. DelegateStatus(cs.objects, cs.tables[0], cptr, cs.tables[dst]) = "Ok"
  BY DEF DelegateStatus, Occupied, Full
<1> QED
  BY <1>1 DEF delegate_from_root, delegate

\* What a transfer between two domains leaves.
TransferPost(tb, src, cptr, dst, r) ==
    /\ r.tables \in [Domain -> CapTable]
    /\ r.status \in Status
    /\ r.status = "Ok" => r.cptr \in CPtr
    /\ \A d \in Domain \ {src, dst} : r.tables[d] = tb[d]
    /\ \A d \in Domain, s \in Slot : r.tables[d][s] # NoCap =>
          \/ r.tables[d][s] = tb[d][s]
          \/ /\ src # dst /\ d = dst /\ cptr \in Slot /\ tb[src][cptr] # NoCap
             /\ r.tables[d][s] = ChildEntry(tb[src][cptr], Right, 0)

(***************************************************************************)
(* do_cap_transfer involves no third domain, and every capability it       *)
(* leaves was there before, in its place or in the source slot.            *)
(***************************************************************************)
LEMMA CapTransferSpec ==
    ASSUME NEW cs \in CapState, NEW src \in Domain, NEW dst \in Domain,
           NEW cptr
    PROVE  TransferPost(cs.tables, src, cptr, dst,
                        do_cap_transfer(cs, src, cptr, dst))
<1> DEFINE r == delegate(cs.objects, cs.tables[src], cptr, Right, 0,
                         cs.tables[dst])
           x == do_cap_transfer(cs, src, cptr, dst)
<1>0. /\ cs.objects \in ObjectTable /\ cs.tables \in [Domain -> CapTable]
      /\ cs.tables[src] \in CapTable /\ cs.tables[dst] \in CapTable
  BY DEF CapState
<1>1. DelegatePost(cs.objects, cs.tables[src], cptr, Right, 0,
                   cs.tables[dst], r)
  BY <1>0, DelegateSpec, SizeAssumption
<1>2. /\ r.dst \in CapTable /\ r.status \in Status
      /\ r.status = "Ok" =>
            /\ cptr \in Slot /\ cs.tables[src][cptr] \in CapEntry
            /\ r.cptr \in Slot
            /\ r.dst[r.cptr] = ChildEntry(cs.tables[src][cptr], Right, 0)
            /\ \A s \in Slot \ {r.cptr} : r.dst[s] = cs.tables[dst][s]
  BY <1>1 DEF DelegatePost
<1>3. x = IF src = dst
          THEN [status |-> "ErrBadCPtr", cptr |-> 0, tables |-> cs.tables]
          ELSE IF r.status # "Ok"
          THEN [status |-> r.status, cptr |-> 0, tables |-> cs.tables]
          ELSE [status |-> "Ok", cptr |-> r.cptr,
                tables |-> [cs.tables EXCEPT ![dst] = r.dst,
                                             ![src][cptr] = NoCap]]
  BY DEF do_cap_transfer
<1> HIDE DEF r, x
<1>4. CASE src = dst \/ r.status # "Ok"
  <2>1. x.tables = cs.tables /\ x.status \in Status \ {"Ok"}
    BY <1>2, <1>3, <1>4 DEF Status
  <2>2. TransferPost(cs.tables, src, cptr, dst, x)
    BY <1>0, <2>1 DEF TransferPost
  <2> QED
    BY <2>2 DEF x
<1>5. CASE src # dst /\ r.status = "Ok"
  <2> DEFINE tb == [cs.tables EXCEPT ![dst] = r.dst, ![src][cptr] = NoCap]
  <2>1. x = [status |-> "Ok", cptr |-> r.cptr, tables |-> tb]
    BY <1>3, <1>5
  <2>2. [cs.tables[src] EXCEPT ![cptr] = NoCap] \in CapTable
    BY <1>0 DEF CapTable
  <2>3. /\ tb[src] = [cs.tables[src] EXCEPT ![cptr] = NoCap]
        /\ tb[dst] = r.dst
        /\ \A d \in Domain \ {src, dst} : tb[d] = cs.tables[d]
        /\ tb \in [Domain -> CapTable]
    BY <1>0, <1>2, <1>5, <2>2
  <2> HIDE DEF tb
  <2>4. \A s \in Slot : tb[src][s] # NoCap => tb[src][s] = cs.tables[src][s]
    BY <2>3, <1>0 DEF CapTable
  <2>5. \A s \in Slot : tb[dst][s] # NoCap =>
           \/ tb[dst][s] = cs.tables[dst][s]
           \/ tb[dst][s] = ChildEntry(cs.tables[src][cptr], Right, 0)
    BY <1>2, <1>5, <2>3
  <2>6. cptr \in Slot /\ cs.tables[src][cptr] # NoCap /\ r.cptr \in CPtr
    BY <1>2, <1>5, NoCapAssumption DEF CPtr
  <2>7. x.tables = tb /\ x.status = "Ok" /\ x.cptr = r.cptr
    BY <2>1
  <2>8. \A d \in Domain, s \in Slot : tb[d][s] # NoCap =>
           \/ tb[d][s] = cs.tables[d][s]
           \/ d = dst /\ tb[d][s] = ChildEntry(cs.tables[src][cptr], Right, 0)
    BY <2>3, <2>4, <2>5
  <2>9. TransferPost(cs.tables, src, cptr, dst, x)
    BY <1>5, <2>3, <2>6, <2>7, <2>8 DEF TransferPost, Status
  <2> QED
    BY <2>9 DEF x
<1> QED
  BY <1>2, <1>4, <1>5

-----------------------------------------------------------------------------
(***************************************************************************)
(* The running kernel.                                                     *)
(***************************************************************************)

\* What the supervisor leaves after the death of domain d.
SupervisorPost(d, cs, r) ==
    /\ r.cs \in CapState
    /\ r.restarts \in Nat
    /\ r.admit \in BOOLEAN
    /\ r.admit => d = FaultDomain
    /\ \A e \in Domain \ {0, FaultDomain} : r.cs.tables[e] = cs.tables[e]
    /\ \A o \in Oid : cs.objects[o].present => r.cs.objects[o].present
    /\ \A s \in Slot : r.cs.tables[FaultDomain][s] # NoCap =>
          \/ r.cs.tables[FaultDomain][s] = cs.tables[FaultDomain][s]
          \/ /\ r.cs.tables[FaultDomain][s].type_tag = "Memory"
             /\ r.cs.tables[FaultDomain][s].rights = {"INVOKE"}
             /\ ~cs.objects[r.cs.tables[FaultDomain][s].object_id].present

(***************************************************************************)
(* The supervisor touches the root and the restartable domain only, admits *)
(* nothing but that domain, and grants it nothing but an INVOKE-only       *)
(* capability to a Memory object that did not exist before.                *)
(***************************************************************************)
LEMMA SupervisorSpec ==
    ASSUME NEW cs \in CapState, NEW d \in Domain, restarts \in Nat
    PROVE  SupervisorPost(d, cs, on_domain_death(d, cs))
<1> DEFINE r    == on_domain_death(d, cs)
           root == init_root(cs)
           mem  == IF root.ok
                   THEN delegate_from_root(root.cs, FaultDomain, root.cptr,
                                           {"INVOKE"})
                   ELSE root
           ts   == mint_timeslice(mem.cs)
           all  == {"READ", "WRITE", "INVOKE", "MAP", "DELEGATE"}
           F    == FaultDomain
<1>0. F \in Domain \ {0}
  BY BootAssumption
<1>1. CASE d # FaultDomain \/ restarts = 0
  <2>1. r = [cs |-> cs, restarts |-> restarts, admit |-> FALSE]
    BY <1>1 DEF on_domain_death
  <2> HIDE DEF r
  <2>2. SupervisorPost(d, cs, r)
    BY <2>1 DEF SupervisorPost
  <2> QED
    BY <2>2 DEF r
<1>2. CASE d = FaultDomain /\ restarts # 0
  <2>1. r = [cs |-> ts.cs, restarts |-> restarts - 1,
             admit |-> /\ mem.ok /\ ts.ok
                       /\ admit_check(ts.cs, ts.cptr) = "Ok"]
    BY <1>2 DEF on_domain_death, Restart, RestartWith
  <2>2. RootPost(cs, "Memory", all, root)
    BY MintRootSpec DEF init_root, Kind, Right
  <2>3. root.cs \in CapState
    BY <2>2 DEF RootPost
  <2>4. DelegatedPost(root.cs, F, root.cptr, {"INVOKE"},
                      delegate_from_root(root.cs, F, root.cptr, {"INVOKE"}))
    BY <1>0, <2>3, DelegateFromRootSpec DEF Right
  <2> HIDE DEF root
  <2>5. /\ mem.cs \in CapState
        /\ mem.ok \in BOOLEAN
        /\ mem.cs.objects = root.cs.objects
        /\ \A e \in Domain \ {0, F} : mem.cs.tables[e] = cs.tables[e]
    BY <1>0, <2>2, <2>3, <2>4 DEF DelegatedPost, RootPost
  <2>6. \A s \in Slot : mem.cs.tables[F][s] # NoCap =>
           \/ mem.cs.tables[F][s] = cs.tables[F][s]
           \/ /\ mem.cs.tables[F][s].type_tag = "Memory"
              /\ mem.cs.tables[F][s].rights = {"INVOKE"}
              /\ ~cs.objects[mem.cs.tables[F][s].object_id].present
    <3>1. CASE ~root.ok
      BY <1>0, <2>2, <3>1 DEF RootPost
    <3>2. CASE root.ok
      <4> DEFINE e == root.cs.tables[0][root.cptr]
                 k == ChildEntry(e, {"INVOKE"}, 0)
      <4>1. /\ e \in CapEntry /\ e.type_tag = "Memory" /\ e.rights = all
            /\ ~cs.objects[e.object_id].present
        BY <2>2, <3>2 DEF RootPost
      <4>2. /\ k.rights = {"INVOKE"} /\ k.object_id = e.object_id
            /\ k.type_tag = e.type_tag
        BY <4>1 DEF ChildEntry, CapEntry
      <4>3. root.cs.tables[F] = cs.tables[F]
        BY <1>0, <2>2 DEF RootPost
      <4>4. \A s \in Slot : \/ mem.cs.tables[F][s] = root.cs.tables[F][s]
                            \/ mem.cs.tables[F][s] = k
        BY <2>4, <3>2 DEF DelegatedPost
      <4> HIDE DEF mem, e, k
      <4> QED
        BY <4>1, <4>2, <4>3, <4>4
    <3> QED
      BY <3>1, <3>2, <2>2 DEF RootPost
  <2> HIDE DEF mem
  <2>7. RootPost(mem.cs, "TimeSlice", {"INVOKE"}, ts)
    BY <2>5, MintRootSpec DEF mint_timeslice, Kind, Right
  <2> HIDE DEF ts
  <2>8. /\ ts.cs \in CapState /\ ts.ok \in BOOLEAN
        /\ \A e \in Domain \ {0} : ts.cs.tables[e] = mem.cs.tables[e]
        /\ \A o \in Oid : cs.objects[o].present => ts.cs.objects[o].present
    BY <2>2, <2>5, <2>7 DEF RootPost
  <2> DEFINE adm == mem.ok /\ ts.ok /\ admit_check(ts.cs, ts.cptr) = "Ok"
  <2> HIDE DEF r
  <2>9. /\ r.cs = ts.cs /\ r.restarts = restarts - 1 /\ r.admit \in BOOLEAN
    <3>1. adm \in BOOLEAN
      BY Zenon
    <3>2. r = [cs |-> ts.cs, restarts |-> restarts - 1, admit |-> adm]
      BY <2>1, Zenon
    <3> HIDE DEF adm
    <3> QED
      BY <3>1, <3>2
  <2>10. SupervisorPost(d, cs, r)
    <3>1. r.restarts \in Nat
      BY SMT, <1>2, <2>9
    <3>2. \A e \in Domain \ {0, F} : r.cs.tables[e] = cs.tables[e]
      BY <2>5, <2>8, <2>9
    <3>3. r.cs.tables[F] = mem.cs.tables[F]
      BY <1>0, <2>8, <2>9
    <3>4. r.cs \in CapState
          /\ \A o \in Oid : cs.objects[o].present => r.cs.objects[o].present
      BY <2>8, <2>9
    <3> QED
      BY <1>2, <2>6, <2>9, <3>1, <3>2, <3>3, <3>4 DEF SupervisorPost
  <2> QED
    BY <2>10 DEF r
<1> QED
  BY <1>1, <1>2

-----------------------------------------------------------------------------
(* Types *)

(***************************************************************************)
(* The transfer step of a rendezvous, made or not, satisfies TransferPost. *)
(***************************************************************************)
LEMMA TransferSpec ==
    ASSUME TypeOK, NEW src \in Domain, NEW dst \in Domain, NEW xfer
    PROVE  TransferPost(tables, src, xfer, dst, Transfer(src, xfer, dst))
<1> DEFINE cs == [objects |-> objects, tables |-> tables]
           x  == Transfer(src, xfer, dst)
<1>1. cs \in CapState /\ cs.tables = tables
  BY DEF TypeOK, CapState
<1>2. CASE xfer = CPTR_NONE
  <2>1. x = [status |-> "Ok", cptr |-> CPTR_NONE, tables |-> tables]
    BY <1>2 DEF Transfer
  <2> HIDE DEF x
  <2>2. TransferPost(tables, src, xfer, dst, x)
    BY <2>1 DEF TransferPost, TypeOK, Status, CPtr
  <2> QED
    BY <2>2 DEF x
<1>3. CASE xfer # CPTR_NONE
  <2>1. x = do_cap_transfer(cs, src, xfer, dst)
    BY <1>3 DEF Transfer
  <2>2. TransferPost(cs.tables, src, xfer, dst,
                     do_cap_transfer(cs, src, xfer, dst))
    BY <1>1, CapTransferSpec
  <2> QED
    BY <1>1, <2>1, <2>2
<1> QED
  BY <1>2, <1>3

(***************************************************************************)
(* Results built from a well-typed transfer are well typed.                *)
(***************************************************************************)
LEMMA ResultTypes ==
    /\ \A st \in Status : Plain(st) \in Result
    /\ \A src, dst, xfer, tb, x : \A msg \in Word :
          TransferPost(tb, src, xfer, dst, x) => Received(x, msg) \in Result
    /\ NoResult \in Result
    /\ EP_EMPTY \in EpSlot
<1>1. \A st \in Status : Plain(st) \in Result
  BY DEF Plain, Result, Word, CPtr
<1>2. ASSUME NEW src, NEW dst, NEW xfer, NEW tb, NEW x, NEW msg \in Word,
             TransferPost(tb, src, xfer, dst, x)
      PROVE  Received(x, msg) \in Result
  BY <1>1, <1>2 DEF TransferPost, Received, Result, Status
<1>3. 0 \in Slot /\ 0 \in Task /\ 0 \in Domain
  BY SMT, SizeAssumption, BootAssumption, DomainAssumption
  DEF Slot, Task, Domain
<1>4. NoResult \in Result
  BY <1>3 DEF NoResult, Result, Word, CPtr, Status
<1>5. EP_EMPTY \in EpSlot
  BY <1>3 DEF EP_EMPTY, EpSlot, EpState, Word, CPtr
<1> QED
  BY <1>1, <1>2, <1>4, <1>5

(***************************************************************************)
(* A capability that passes the invoke gate is an entry of the caller's    *)
(* table, and its object is an object.                                     *)
(***************************************************************************)
LEMMA TargetIsObject ==
    ASSUME TypeOK, NEW cptr \in Slot, NEW kind, NEW extra,
           Invokes(cptr, kind, extra)
    PROVE  Target(cptr) \in Oid
<1>1. tables[currentDomain] \in CapTable
  BY DEF TypeOK
<1>2. invoke(objects, tables[currentDomain], cptr, {"INVOKE"}) = "Ok"
  BY DEF Invokes
<1>3. lookup(objects, tables[currentDomain], cptr) = "Ok"
  BY <1>2 DEF invoke
<1>4. tables[currentDomain][cptr] # NoCap
  BY <1>3 DEF lookup, DeadStatus, Occupied
<1> QED
  BY <1>1, <1>4 DEF CapTable, CapEntry, Target

(***************************************************************************)
(* Recording mapped pages keeps a ledger a sequence of pages.              *)
(***************************************************************************)
LEMMA LedgerType ==
    ASSUME NEW led \in Seq(Page), NEW pages \in Seq(Page)
    PROVE  record_domain_map(led, pages) \in Seq(Page)
<1>1. led \o pages \in Seq(Page) /\ Len(led \o pages) = Len(led) + Len(pages)
  BY SMT
<1>2. CASE Len(led) + Len(pages) <= MaxMaps
  BY <1>1, <1>2 DEF record_domain_map
<1>3. CASE ~(Len(led) + Len(pages) <= MaxMaps)
  <2>1. SubSeq(led \o pages, 1, MaxMaps) \in Seq(Page)
    BY SMT, <1>1, <1>3, BootAssumption
  <2> QED
    BY <1>3, <2>1 DEF record_domain_map
<1> QED
  BY <1>2, <1>3

\* TypeOK without the CPU.
RestOK ==
    /\ objects \in ObjectTable
    /\ tables \in [Domain -> CapTable]
    /\ endpoints \in [Oid -> EpSlot]
    /\ notify \in [Oid -> Word]
    /\ frames \in Nat
    /\ mapped \subseteq Page
    /\ ledger \in [Domain -> Seq(Page)]
    /\ present \in [Task -> BOOLEAN]
    /\ domain \in [Task -> Domain]
    /\ blocked \in [Task -> BOOLEAN]
    /\ staged \in [Task -> Result]
    /\ inKernel \in [Task -> BOOLEAN]
    /\ outcome \in [Task -> Result]
    /\ restarts \in Nat

(***************************************************************************)
(* The steps that leave the CPU where it is keep the tables well typed.    *)
(***************************************************************************)
LEMMA StayTypes ==
    ASSUME TypeOK, Stay
    PROVE  RestOK'
<1> USE DEF TypeOK, RestOK, capVars, mapVars, taskVars, ipcVars
<1>1. CASE Resume
  BY <1>1 DEF Resume, Return
<1>2. ASSUME NEW cptr \in Slot, AllocFrame(cptr) PROVE RestOK'
  BY SMT, <1>2 DEF AllocFrame
<1>3. ASSUME NEW cptr \in Slot, NEW bits \in Word, notify_signal(cptr, bits)
      PROVE  RestOK'
  <2>1. Target(cptr) \in Oid
    BY <1>3, TargetIsObject DEF notify_signal
  <2> QED
    BY <1>3, <2>1 DEF notify_signal, Word
<1>4. ASSUME NEW cptr \in Slot, notify_take(cptr) PROVE RestOK'
  BY <1>4 DEF notify_take, Word
<1>5. ASSUME NEW pages \in Seq(Page), MapPages(pages) PROVE RestOK'
  <2>1. PICK k \in 0 .. Len(pages), n \in 0 .. TableLevels :
          /\ mapped' = mapped \cup {pages[i] : i \in 1 .. k}
          /\ ledger' = [ledger EXCEPT ![currentDomain] =
                                 record_domain_map(@, SubSeq(pages, 1, k))]
          /\ n <= frames
          /\ frames' = frames - n
          /\ UNCHANGED <<capVars, taskVars, ipcVars, notify>>
    BY <1>5 DEF MapPages
  <2>2. SubSeq(pages, 1, k) \in Seq(Page)
    BY SMT
  <2>3. record_domain_map(ledger[currentDomain], SubSeq(pages, 1, k))
          \in Seq(Page)
    BY <2>2, LedgerType
  <2>4. ledger' \in [Domain -> Seq(Page)]
    BY <2>1, <2>3
  <2>5. mapped' \subseteq Page
    BY SMT, <2>1
  <2>6. frames' \in Nat
    BY SMT, <2>1 DEF TableLevels
  <2> QED
    BY <2>1, <2>4, <2>5, <2>6
<1>6. ASSUME NEW cptr \in Slot, extent_map(cptr) \/ devqueue_map(cptr)
      PROVE  RestOK'
  <2>1. ExtentPages \in Seq(Page)
    BY SMT, BootAssumption DEF ExtentPages, Page
  <2>2. QueuePages \in Seq(Page)
    BY SMT, BootAssumption DEF QueuePages, Page
  <2> QED
    BY <1>5, <1>6, <2>1, <2>2 DEF extent_map, devqueue_map
<1>7. ASSUME NEW cptr \in Slot, NEW xfer \in XferArgs, SendRefused(cptr, xfer)
      PROVE  RestOK'
  <2>1. GrantStatus(cptr, xfer) \in Status /\ "ErrRights" \in Status
    BY DEF GrantStatus, Status
  <2> QED
    BY <1>7, <2>1, ResultTypes DEF SendRefused, Return
<1>8. ASSUME NEW cptr \in Slot, NEW msg \in Word, NEW xfer \in XferArgs,
             SendMeets(cptr, msg, xfer)
      PROVE  RestOK'
  <2> DEFINE o == Target(cptr)
             ep == endpoints[o]
             x == Transfer(currentDomain, xfer, ep.peer_domain)
  <2>1. o \in Oid /\ ep \in EpSlot
    BY <1>8, TargetIsObject DEF SendMeets
  <2>2. ep.peer_domain \in Domain /\ ep.peer_task \in Task
    BY <2>1 DEF EpSlot
  <2>3. TransferPost(tables, currentDomain, xfer, ep.peer_domain, x)
    BY <2>2, TransferSpec
  <2>4. /\ endpoints' = [endpoints EXCEPT ![o].state = "Idle"]
        /\ tables' = x.tables
        /\ staged' = [staged EXCEPT ![ep.peer_task] = Received(x, msg)]
        /\ blocked' = [blocked EXCEPT ![ep.peer_task] = FALSE]
        /\ outcome' = [outcome EXCEPT ![current] = Plain(x.status)]
        /\ UNCHANGED <<mapVars, taskVars, notify, frames, objects, inKernel>>
    BY <1>8 DEF SendMeets, unblock, Return
  <2> HIDE DEF x
  <2>5. /\ x.tables \in [Domain -> CapTable]
        /\ Plain(x.status) \in Result /\ Received(x, msg) \in Result
    BY <2>3, ResultTypes DEF TransferPost
  <2>6. endpoints' \in [Oid -> EpSlot]
    BY <2>1, <2>4 DEF EpSlot, EpState
  <2> HIDE DEF ep, o
  <2> QED
    BY <2>2, <2>4, <2>5, <2>6
<1>9. ASSUME NEW cptr \in Slot, RecvRefused(cptr) PROVE RestOK'
  BY <1>9, ResultTypes DEF RecvRefused, Return, Status
<1>10. ASSUME NEW cptr \in Slot, RecvMeets(cptr) PROVE RestOK'
  <2> DEFINE o == Target(cptr)
             ep == endpoints[o]
             x == Transfer(ep.peer_domain, ep.xfer_cptr, currentDomain)
  <2>1. o \in Oid /\ ep \in EpSlot
    BY <1>10, TargetIsObject DEF RecvMeets
  <2>2. /\ ep.peer_domain \in Domain /\ ep.peer_task \in Task
        /\ ep.msg0 \in Word
    BY <2>1 DEF EpSlot
  <2>3. TransferPost(tables, ep.peer_domain, ep.xfer_cptr, currentDomain, x)
    BY <2>2, TransferSpec
  <2>4. /\ endpoints' = [endpoints EXCEPT ![o].state = "Idle"]
        /\ tables' = x.tables
        /\ staged' = [staged EXCEPT ![ep.peer_task] = Plain(x.status)]
        /\ blocked' = [blocked EXCEPT ![ep.peer_task] = FALSE]
        /\ outcome' = [outcome EXCEPT ![current] = Received(x, ep.msg0)]
        /\ UNCHANGED <<mapVars, taskVars, notify, frames, objects, inKernel>>
    BY <1>10 DEF RecvMeets, unblock, Return
  <2> HIDE DEF x
  <2>5. /\ x.tables \in [Domain -> CapTable]
        /\ Plain(x.status) \in Result /\ Received(x, ep.msg0) \in Result
    BY <2>2, <2>3, ResultTypes DEF TransferPost
  <2>6. endpoints' \in [Oid -> EpSlot]
    BY <2>1, <2>4 DEF EpSlot, EpState
  <2> HIDE DEF ep, o
  <2> QED
    BY <2>2, <2>4, <2>5, <2>6
<1> QED
  BY <1>1, <1>2, <1>3, <1>4, <1>6, <1>7, <1>8, <1>9, <1>10 DEF Stay

(***************************************************************************)
(* So do the steps that give the CPU away.                                 *)
(***************************************************************************)
LEMMA YieldTypes ==
    ASSUME TypeOK, Tick \/ Park \/ Fault
    PROVE  RestOK'
<1> USE DEF TypeOK, RestOK, capVars, mapVars, taskVars, ipcVars
<1>1. CASE Tick
  BY <1>1 DEF Tick
<1>2. ASSUME NEW cptr \in Slot, NEW msg \in Word, NEW xfer \in XferArgs,
             SendParks(cptr, msg, xfer)
      PROVE  RestOK'
  <2>1. Target(cptr) \in Oid
    BY <1>2, TargetIsObject DEF SendParks
  <2>2. [state |-> "SendWait", peer_task |-> current,
         peer_domain |-> currentDomain, msg0 |-> msg,
         xfer_cptr |-> xfer] \in EpSlot
    <3>1. xfer \in CPtr
      BY BootAssumption
    <3>2. current \in Task /\ currentDomain \in Domain
      OBVIOUS
    <3> HIDE DEF TypeOK, RestOK
    <3> QED
      BY <3>1, <3>2 DEF EpSlot, EpState
  <2> QED
    BY <1>2, <2>1, <2>2 DEF SendParks, block_current
<1>3. ASSUME NEW cptr \in Slot, RecvParks(cptr) PROVE RestOK'
  <2>1. Target(cptr) \in Oid
    BY <1>3, TargetIsObject DEF RecvParks
  <2> DEFINE e == [endpoints[Target(cptr)] EXCEPT !.state = "RecvWait",
                           !.peer_task = current, !.peer_domain = currentDomain]
  <2>2. endpoints' \in [Oid -> EpSlot]
    <3>1. endpoints[Target(cptr)] \in EpSlot /\ "RecvWait" \in EpState
      BY <2>1 DEF EpState
    <3>2. e \in EpSlot
      BY <3>1 DEF EpSlot
    <3>3. endpoints' = [endpoints EXCEPT ![Target(cptr)] = e]
      BY <1>3, <2>1, <3>1 DEF RecvParks, EpSlot
    <3> HIDE DEF e
    <3> QED
      BY <2>1, <3>2, <3>3
  <2> QED
    BY <1>3, <2>2 DEF RecvParks, block_current
<1>4. CASE Fault
  <2> DEFINE t == current
             d == domain[t]
             sup == on_domain_death(d, Reaped(d))
             new == IF sup.admit THEN {free_slot(t)} ELSE {}
  <2>1. EmptyCapTable \in CapTable
    BY DEF EmptyCapTable, CapTable
  <2>2. Reaped(d) \in CapState
    BY <2>1 DEF Reaped, CapState
  <2>3. SupervisorPost(d, Reaped(d), sup)
    BY <2>2, SupervisorSpec
  <2>4. /\ sup.cs.objects \in ObjectTable
        /\ sup.cs.tables \in [Domain -> CapTable]
        /\ sup.restarts \in Nat
    BY <2>3 DEF SupervisorPost, CapState
  <2>5. Scrubbed(t) \in [Oid -> EpSlot]
    BY ResultTypes DEF Scrubbed
  <2>6. /\ objects' = sup.cs.objects
        /\ tables' = sup.cs.tables
        /\ endpoints' = Scrubbed(t)
        /\ mapped' = mapped \ Pages(ledger[d])
        /\ ledger' = [ledger EXCEPT ![d] = <<>>]
        /\ restarts' = sup.restarts
        /\ present' = [u \in Task |-> u \in new \/ (u # t /\ present[u])]
        /\ domain' = [u \in Task |-> IF u \in new THEN FaultDomain
                                                  ELSE domain[u]]
        /\ blocked' = [u \in Task |-> u \notin new \cup {t} /\ blocked[u]]
        /\ inKernel' = [u \in Task |-> u \notin new /\ inKernel[u]]
        /\ staged' = [u \in Task |-> IF u \in new THEN NoResult ELSE staged[u]]
        /\ outcome' = [u \in Task |-> IF u \in new THEN NoResult
                                                   ELSE outcome[u]]
        /\ UNCHANGED <<notify, frames>>
    BY <1>4 DEF Fault
  <2> HIDE DEF sup, new
  <2>7. /\ staged' \in [Task -> Result] /\ outcome' \in [Task -> Result]
        /\ domain' \in [Task -> Domain]
    BY <2>6, ResultTypes, BootAssumption
  <2>8. /\ present' \in [Task -> BOOLEAN] /\ blocked' \in [Task -> BOOLEAN]
        /\ inKernel' \in [Task -> BOOLEAN]
    BY <2>6
  <2>9. ledger' \in [Domain -> Seq(Page)] /\ mapped' \subseteq Page
    BY SMT, <2>6
  <2> QED
    BY <2>4, <2>5, <2>6, <2>7, <2>8, <2>9
<1> QED
  BY <1>1, <1>2, <1>3, <1>4 DEF Park

\* What Switch needs of the state it leaves: idle is there to fall back on.
IdleReady == present[0] /\ ~blocked[0]

(***************************************************************************)
(* Whatever was chosen, the task a switch installs is present and not      *)
(* blocked, and its domain is the published one.                           *)
(***************************************************************************)
LEMMA SwitchSpec ==
    ASSUME Switch, RestOK', IdleReady'
    PROVE  /\ current' \in Task
           /\ present'[current'] /\ ~blocked'[current']
           /\ currentDomain' = domain'[current']
           /\ currentDomain' \in Domain
<1>1. 0 \in Task
  BY BootAssumption DEF Task
<1> QED
  BY <1>1 DEF Switch, Candidates, Ready, RestOK, IdleReady

-----------------------------------------------------------------------------
(* The inductive invariant *)

\* ParkedIffBlocked without the CPU: a switch changes `current' alone, and
\* that no parked task is current follows from CpuOK.
ParkRest ==
    /\ \A t \in Task : blocked[t] => \E o \in Oid : Parked(o, t)
    /\ \A o \in Oid, t \in Task : Parked(o, t) =>
          /\ blocked[t] /\ present[t] /\ inKernel[t] /\ t # 0
          /\ endpoints[o].peer_domain = domain[t]
    /\ \A o, p \in Oid, t \in Task : Parked(o, t) /\ Parked(p, t) => o = p

\* One task per domain; idle never leaves.
DomainsApart ==
    /\ present[0] /\ domain[0] = 0
    /\ \A t, u \in Task : present[t] /\ present[u] /\ domain[t] = domain[u]
                             => t = u

CpuOK ==
    /\ present[current] /\ ~blocked[current]
    /\ currentDomain = domain[current]

IInv == TypeOK /\ ParkRest /\ DomainsApart /\ CpuOK

(***************************************************************************)
(* A rendezvous wakes the one task the endpoint had parked, and leaves the *)
(* other parked tasks parked.                                              *)
(***************************************************************************)
LEMMA MeetKeepsParked ==
    ASSUME IInv, NEW o \in Oid, endpoints[o].state # "Idle",
           endpoints' = [endpoints EXCEPT ![o].state = "Idle"],
           blocked' = [blocked EXCEPT ![endpoints[o].peer_task] = FALSE],
           UNCHANGED <<inKernel, present, domain>>
    PROVE  ParkRest'
<1> DEFINE w == endpoints[o].peer_task
<1>1. /\ endpoints \in [Oid -> EpSlot] /\ blocked \in [Task -> BOOLEAN]
      /\ w \in Task
  BY DEF IInv, TypeOK, EpSlot
<1>2. /\ endpoints'[o].state = "Idle"
      /\ \A p \in Oid \ {o} : endpoints'[p] = endpoints[p]
      /\ \A t \in Task : blocked'[t] <=> (blocked[t] /\ t # w)
  BY <1>1 DEF EpSlot
<1>3. Parked(o, w)
  BY DEF Parked
<1>4. \A p \in Oid, t \in Task : Parked(p, t)' <=> (Parked(p, t) /\ p # o)
  BY <1>2 DEF Parked
<1>5. \A p \in Oid, t \in Task : Parked(p, t) /\ p # o => t # w
  BY SMT, <1>1, <1>3 DEF IInv, ParkRest
<1>6. ASSUME NEW t \in Task, blocked'[t] PROVE \E p \in Oid : Parked(p, t)'
  <2>1. blocked[t] /\ t # w
    BY <1>2, <1>6
  <2>2. PICK p \in Oid : Parked(p, t)
    BY <2>1 DEF IInv, ParkRest
  <2>3. p # o
    BY <2>1, <2>2 DEF Parked
  <2> QED
    BY <1>4, <2>2, <2>3
<1>7. ASSUME NEW p \in Oid, NEW t \in Task, Parked(p, t)'
      PROVE  /\ blocked'[t] /\ present'[t] /\ inKernel'[t] /\ t # 0
             /\ endpoints'[p].peer_domain = domain'[t]
  <2>1. Parked(p, t) /\ p # o /\ t # w
    BY <1>4, <1>5, <1>7
  <2>2. /\ blocked[t] /\ present[t] /\ inKernel[t] /\ t # 0
        /\ endpoints[p].peer_domain = domain[t]
    BY <2>1 DEF IInv, ParkRest
  <2> QED
    BY <1>2, <2>1, <2>2
<1>8. ASSUME NEW p \in Oid, NEW q \in Oid, NEW t \in Task,
             Parked(p, t)', Parked(q, t)'
      PROVE  p = q
  BY <1>4, <1>8 DEF IInv, ParkRest
<1> QED
  BY <1>6, <1>7, <1>8 DEF ParkRest

(***************************************************************************)
(* A call that parks adds its caller, and only it, to the parked tasks.    *)
(***************************************************************************)
LEMMA ParkKeepsParked ==
    ASSUME IInv, Running, NEW o \in Oid, endpoints[o].state = "Idle",
           endpoints'[o].state # "Idle",
           endpoints'[o].peer_task = current,
           endpoints'[o].peer_domain = currentDomain,
           \A p \in Oid \ {o} : endpoints'[p] = endpoints[p],
           block_current, UNCHANGED <<present, domain>>
    PROVE  ParkRest'
<1> DEFINE c == current
<1>1. /\ c \in Task /\ c # 0 /\ present[c] /\ ~blocked[c]
      /\ currentDomain = domain[c]
  BY DEF IInv, TypeOK, CpuOK, Running
<1>2. /\ \A t \in Task : blocked'[t] <=> (blocked[t] \/ t = c)
      /\ \A t \in Task : inKernel'[t] <=> (inKernel[t] \/ t = c)
  BY <1>1 DEF IInv, TypeOK, block_current
<1>3. \A p \in Oid, t \in Task :
         Parked(p, t)' <=> (Parked(p, t) /\ p # o) \/ (p = o /\ t = c)
  BY DEF Parked
<1>4. \A p \in Oid, t \in Task : Parked(p, t) => p # o /\ t # c
  BY SMT, <1>1 DEF IInv, ParkRest, Parked
<1>5. ASSUME NEW t \in Task, blocked'[t] PROVE \E p \in Oid : Parked(p, t)'
  <2>1. CASE t = c
    BY <1>3, <2>1
  <2>2. CASE t # c
    <3>1. PICK p \in Oid : Parked(p, t)
      BY <1>2, <1>5, <2>2 DEF IInv, ParkRest
    <3> QED
      BY <1>3, <1>4, <3>1
  <2> QED
    BY <2>1, <2>2
<1>6. ASSUME NEW p \in Oid, NEW t \in Task, Parked(p, t)'
      PROVE  /\ blocked'[t] /\ present'[t] /\ inKernel'[t] /\ t # 0
             /\ endpoints'[p].peer_domain = domain'[t]
  <2>1. CASE p = o /\ t = c
    BY <1>1, <1>2, <2>1
  <2>2. CASE Parked(p, t) /\ p # o
    <3>1. /\ blocked[t] /\ present[t] /\ inKernel[t] /\ t # 0
          /\ endpoints[p].peer_domain = domain[t]
      BY <2>2 DEF IInv, ParkRest
    <3> QED
      BY <1>2, <2>2, <3>1
  <2> QED
    BY <1>3, <1>6, <2>1, <2>2
<1>7. ASSUME NEW p \in Oid, NEW q \in Oid, NEW t \in Task,
             Parked(p, t)', Parked(q, t)'
      PROVE  p = q
  <2>1. \A x, y \in Oid : Parked(x, t) /\ Parked(y, t) => x = y
    BY DEF IInv, ParkRest
  <2>2. (Parked(p, t) /\ p # o) \/ (p = o /\ t = c)
    BY <1>3, <1>7
  <2>3. (Parked(q, t) /\ q # o) \/ (q = o /\ t = c)
    BY <1>3, <1>7
  <2>4. Parked(p, t) => t # c
    BY <1>4
  <2>5. Parked(q, t) => t # c
    BY <1>4
  <2> QED
    BY <2>1, <2>2, <2>3, <2>4, <2>5
<1> QED
  BY <1>5, <1>6, <1>7 DEF ParkRest

(***************************************************************************)
(* The slot the supervisor's instance gets is a ring-3 slot, the dead      *)
(* task's own or one that was empty.                                       *)
(***************************************************************************)
LEMMA FreeSlotSpec ==
    ASSUME NEW t \in Task, t # 0
    PROVE  LET n == free_slot(t)
           IN  n \in Task /\ n # 0 /\ (n = t \/ ~present[n])
<1> DEFINE S == {u \in Task \ {0} : u = t \/ ~present[u]}
<1>1. S \in SUBSET Nat /\ S # {}
  <2>1. Task \subseteq Nat
    BY SMT, BootAssumption DEF Task
  <2>2. t \in S
    OBVIOUS
  <2> QED
    BY <2>1, <2>2
<1>2. Min(S) \in S
  BY <1>1, MinInSet
<1> QED
  BY <1>2 DEF free_slot

(***************************************************************************)
(* A fault disturbs no parked task: the dead task was running, hence not   *)
(* parked, and the slot a restart takes was empty or the dead task's.      *)
(***************************************************************************)
LEMMA FaultKeepsParked ==
    ASSUME IInv, Fault
    PROVE  ParkRest' /\ DomainsApart'
<1> DEFINE t == current
           d == domain[t]
           sup == on_domain_death(d, Reaped(d))
           new == IF sup.admit THEN {free_slot(t)} ELSE {}
<1>1. t \in Task /\ t # 0 /\ present[t] /\ ~blocked[t]
  BY DEF IInv, TypeOK, CpuOK, Fault, Running
<1>2. Reaped(d) \in CapState /\ d \in Domain
  BY <1>1 DEF IInv, TypeOK, Reaped, CapState, EmptyCapTable, CapTable
<1>3. SupervisorPost(d, Reaped(d), sup)
  BY <1>2, SupervisorSpec DEF IInv, TypeOK
<1>4. /\ endpoints' = Scrubbed(t)
      /\ present' = [u \in Task |-> u \in new \/ (u # t /\ present[u])]
      /\ domain' = [u \in Task |-> IF u \in new THEN FaultDomain
                                                ELSE domain[u]]
      /\ blocked' = [u \in Task |-> u \notin new \cup {t} /\ blocked[u]]
      /\ inKernel' = [u \in Task |-> u \notin new /\ inKernel[u]]
  BY DEF Fault
<1>5. \A n \in new : /\ n \in Task /\ n # 0 /\ (n = t \/ ~present[n])
                     /\ d = FaultDomain
                     /\ \A m \in new : m = n
  BY <1>1, <1>3, FreeSlotSpec DEF SupervisorPost
<1> HIDE DEF sup, new
<1>6. \A o \in Oid, u \in Task : Parked(o, u) => u # t /\ u \notin new
  <2>1. \A o \in Oid, u \in Task : Parked(o, u) => blocked[u] /\ present[u]
    BY DEF IInv, ParkRest
  <2> QED
    BY <1>1, <1>5, <2>1
<1>7. \A o \in Oid : endpoints'[o] = endpoints[o]
  <2>1. \A o \in Oid : ~(endpoints[o].state # "Idle"
                            /\ endpoints[o].peer_task = t)
    BY <1>1, <1>6 DEF Parked
  <2> QED
    BY <1>4, <2>1 DEF Scrubbed
<1>8. \A o \in Oid, u \in Task : Parked(o, u)' <=> Parked(o, u)
  BY <1>7 DEF Parked
<1>9. ParkRest'
  <2>1. ASSUME NEW u \in Task, blocked'[u] PROVE \E o \in Oid : Parked(o, u)'
    BY <1>4, <1>8, <2>1 DEF IInv, ParkRest
  <2>2. ASSUME NEW o \in Oid, NEW u \in Task, Parked(o, u)'
        PROVE  /\ blocked'[u] /\ present'[u] /\ inKernel'[u] /\ u # 0
               /\ endpoints'[o].peer_domain = domain'[u]
    <3>1. Parked(o, u) /\ u # t /\ u \notin new
      BY <1>6, <1>8, <2>2
    <3>2. /\ blocked[u] /\ present[u] /\ inKernel[u] /\ u # 0
          /\ endpoints[o].peer_domain = domain[u]
      BY <3>1 DEF IInv, ParkRest
    <3> QED
      BY <1>4, <1>7, <3>1, <3>2
  <2>3. ASSUME NEW o \in Oid, NEW p \in Oid, NEW u \in Task,
               Parked(o, u)', Parked(p, u)'
        PROVE  o = p
    BY <1>8, <2>3 DEF IInv, ParkRest
  <2> QED
    BY <2>1, <2>2, <2>3 DEF ParkRest
<1>10. DomainsApart'
  <2>1. present'[0] /\ domain'[0] = 0
    <3>1. 0 \in Task
      BY BootAssumption DEF Task
    <3>2. 0 \notin new
      BY <1>5
    <3> QED
      BY <1>1, <1>4, <3>1, <3>2 DEF IInv, DomainsApart
  <2>2. ASSUME NEW u \in Task, NEW v \in Task, present'[u], present'[v],
               domain'[u] = domain'[v]
        PROVE  u = v
    <3>1. CASE u \in new /\ v \in new
      BY <1>5, <3>1
    <3>2. CASE u \notin new /\ v \notin new
      BY <1>4, <2>2, <3>2 DEF IInv, DomainsApart
    <3>3. ASSUME NEW x \in Task, NEW y \in Task, x \in new, y \notin new,
                 present'[y]
          PROVE  domain'[x] # domain'[y]
      <4>1. domain'[x] = domain[t]
        BY <1>4, <1>5, <3>3
      <4>2. y # t /\ present[y] /\ domain'[y] = domain[y]
        BY <1>4, <3>3
      <4> QED
        BY <1>1, <4>1, <4>2 DEF IInv, DomainsApart
    <3> QED
      BY <2>2, <3>1, <3>2, <3>3
  <2> QED
    BY <2>1, <2>2 DEF DomainsApart
<1> QED
  BY <1>9, <1>10

(***************************************************************************)
(* Calls that neither wake nor park anybody leave the parked tasks alone.  *)
(***************************************************************************)
LEMMA OthersKeepParked ==
    ASSUME IInv, UNCHANGED <<endpoints, blocked, present, domain>>,
           \A t \in Task : blocked[t] /\ inKernel[t] => inKernel'[t]
    PROVE  ParkRest'
<1>1. \A o \in Oid, t \in Task : Parked(o, t)' <=> Parked(o, t)
  BY DEF Parked
<1> QED
  BY <1>1 DEF IInv, ParkRest

(***************************************************************************)
(* The steps that leave the CPU where it is keep the invariant.            *)
(***************************************************************************)
LEMMA StayKeeps ==
    ASSUME IInv, Stay, UNCHANGED cpuVars
    PROVE  IInv'
<1> USE DEF capVars, mapVars, taskVars, ipcVars, cpuVars
<1>1. TypeOK'
  BY StayTypes DEF IInv, TypeOK, RestOK
<1>2. UNCHANGED <<present, domain>>
  BY DEF Stay, Resume, AllocFrame, notify_signal, notify_take, extent_map,
         devqueue_map, MapPages, SendRefused, SendMeets, RecvRefused, RecvMeets
<1>3. ParkRest' /\ \A t \in Task : blocked'[t] => blocked[t]
  <2>1. CASE Resume
    <3>1. /\ UNCHANGED <<endpoints, blocked>>
          /\ inKernel' = [inKernel EXCEPT ![current] = FALSE]
      BY <2>1 DEF Resume
    <3>2. \A t \in Task : blocked[t] /\ inKernel[t] => inKernel'[t]
      BY <3>1 DEF IInv, TypeOK, CpuOK
    <3> QED
      BY <1>2, <3>1, <3>2, OthersKeepParked
  <2>2. ASSUME UNCHANGED <<endpoints, blocked, inKernel>>
        PROVE  ParkRest' /\ \A t \in Task : blocked'[t] => blocked[t]
    BY <1>2, <2>2, OthersKeepParked
  <2>3. ASSUME NEW cptr \in Slot, NEW kind, Invokes(cptr, kind, {}),
               endpoints[Target(cptr)].state # "Idle",
               endpoints' = [endpoints EXCEPT ![Target(cptr)].state = "Idle"],
               blocked' = [blocked EXCEPT
                             ![endpoints[Target(cptr)].peer_task] = FALSE],
               UNCHANGED inKernel
        PROVE  ParkRest' /\ \A t \in Task : blocked'[t] => blocked[t]
    <3>1. Target(cptr) \in Oid
      BY <2>3, TargetIsObject DEF IInv
    <3>2. \A t \in Task : blocked'[t] => blocked[t]
      BY <2>3 DEF IInv, TypeOK
    <3> QED
      BY <1>2, <2>3, <3>1, <3>2, MeetKeepsParked
  <2>4. ASSUME NEW cptr \in Slot, NEW msg \in Word, NEW xfer \in XferArgs,
               SendMeets(cptr, msg, xfer)
        PROVE  ParkRest' /\ \A t \in Task : blocked'[t] => blocked[t]
    BY <2>3, <2>4 DEF SendMeets, unblock
  <2>5. ASSUME NEW cptr \in Slot, RecvMeets(cptr)
        PROVE  ParkRest' /\ \A t \in Task : blocked'[t] => blocked[t]
    BY <2>3, <2>5 DEF RecvMeets, unblock
  <2>6. \/ Resume
        \/ UNCHANGED <<endpoints, blocked, inKernel>>
        \/ \E cptr \in Slot, msg \in Word, xfer \in XferArgs :
              SendMeets(cptr, msg, xfer)
        \/ \E cptr \in Slot : RecvMeets(cptr)
    BY DEF Stay, AllocFrame, notify_signal, notify_take, extent_map,
           devqueue_map, MapPages, SendRefused, RecvRefused
  <2> QED
    BY <2>1, <2>2, <2>4, <2>5, <2>6
<1> QED
  BY <1>1, <1>2, <1>3 DEF IInv, TypeOK, DomainsApart, CpuOK

(***************************************************************************)
(* So do the steps that give the CPU away.                                 *)
(***************************************************************************)
LEMMA YieldKeeps ==
    ASSUME IInv, Tick \/ Park \/ Fault, Switch
    PROVE  IInv'
<1>1. RestOK'
  BY YieldTypes DEF IInv
<1>2. ParkRest' /\ DomainsApart'
  <2> USE DEF capVars, mapVars, taskVars, ipcVars
  <2>1. CASE Tick
    <3>1. UNCHANGED <<endpoints, blocked, inKernel, present, domain>>
      BY <2>1 DEF Tick
    <3> QED
      BY <3>1, OthersKeepParked DEF IInv, DomainsApart
  <2>2. CASE Fault
    BY <2>2, FaultKeepsParked
  <2>3. ASSUME NEW cptr \in Slot,
               \/ \E msg \in Word, xfer \in XferArgs :
                     SendParks(cptr, msg, xfer)
               \/ RecvParks(cptr)
        PROVE  ParkRest' /\ DomainsApart'
    <3> DEFINE o == Target(cptr)
    <3>1. Invokes(cptr, "Endpoint", {}) /\ Running
      BY <2>3 DEF SendParks, RecvParks, Invokes
    <3>2. o \in Oid
      BY <3>1, TargetIsObject DEF IInv
    <3>3. block_current /\ UNCHANGED <<present, domain>>
          /\ endpoints[o].state = "Idle"
      BY <2>3 DEF SendParks, RecvParks
    <3>4. /\ endpoints'[o].state # "Idle"
          /\ endpoints'[o].peer_task = current
          /\ endpoints'[o].peer_domain = currentDomain
          /\ \A p \in Oid \ {o} : endpoints'[p] = endpoints[p]
      BY SMT, <2>3, <3>2 DEF SendParks, RecvParks, IInv, TypeOK, EpSlot
    <3>5. ParkRest'
      BY <3>1, <3>2, <3>3, <3>4, ParkKeepsParked
    <3> QED
      BY <3>3, <3>5 DEF IInv, DomainsApart
  <2> QED
    BY <2>1, <2>2, <2>3 DEF Park
<1>3. IdleReady'
  <2>1. 0 \in Task
    BY BootAssumption DEF Task
  <2> QED
    BY <1>2, <2>1 DEF IdleReady, ParkRest, DomainsApart
<1>4. CpuOK' /\ current' \in Task /\ currentDomain' \in Domain
  BY <1>1, <1>3, SwitchSpec DEF CpuOK
<1> QED
  BY <1>1, <1>2, <1>4 DEF IInv, TypeOK, RestOK

(***************************************************************************)
(* The invariant holds in every reachable state of the kernel.             *)
(***************************************************************************)
LEMMA Inductive == Spec => []IInv
<1>1. Init => IInv
  <2> SUFFICES ASSUME Init PROVE IInv
    OBVIOUS
  <2>1. 0 \in Task /\ 0 \in Domain
    BY BootAssumption, DomainAssumption DEF Task, Domain
  <2>2. TypeOK
    <3>1. objects \in ObjectTable /\ tables \in [Domain -> CapTable]
      BY BootAssumption DEF Init, CapState
    <3>2. endpoints \in [Oid -> EpSlot] /\ notify \in [Oid -> Word]
      BY ResultTypes DEF Init, Word
    <3>3. ledger \in [Domain -> Seq(Page)]
      BY BootAssumption DEF Init
    <3>4. \A e \in Domain : Pages(BootMaps[e]) \subseteq Page
      BY SMT, BootAssumption DEF Pages
    <3>5. mapped \subseteq Page
      BY <3>4 DEF Init
    <3>6. /\ present \in [Task -> BOOLEAN] /\ domain \in [Task -> Domain]
          /\ blocked \in [Task -> BOOLEAN] /\ inKernel \in [Task -> BOOLEAN]
      <4>1. \A t \in Task : (t \in BootTasks) \in BOOLEAN
        BY SMT
      <4> QED
        BY <4>1, BootAssumption, Zenon DEF Init
    <3>7. staged \in [Task -> Result] /\ outcome \in [Task -> Result]
      BY ResultTypes DEF Init
    <3>8. /\ frames \in Nat /\ restarts \in Nat
          /\ current \in Task /\ currentDomain \in Domain
      BY <2>1, BootAssumption DEF Init
    <3> QED
      BY <3>1, <3>2, <3>3, <3>5, <3>6, <3>7, <3>8 DEF TypeOK
  <2>3. ParkRest
    BY DEF Init, ParkRest, Parked, EP_EMPTY
  <2>4. DomainsApart /\ CpuOK
    BY <2>1, BootAssumption DEF Init, DomainsApart, CpuOK
  <2> QED
    BY <2>2, <2>3, <2>4 DEF IInv
<1>2. IInv /\ [Next]_vars => IInv'
  <2> SUFFICES ASSUME IInv, [Next]_vars PROVE IInv'
    OBVIOUS
  <2>1. CASE UNCHANGED vars
    <3>1. /\ UNCHANGED <<objects, tables, mapped, ledger, notify, frames>>
          /\ UNCHANGED <<present, domain, restarts, current, currentDomain>>
          /\ UNCHANGED <<endpoints, blocked, staged, inKernel, outcome>>
      BY <2>1 DEF vars, capVars, mapVars, taskVars, ipcVars, cpuVars
    <3>2. TypeOK'
      BY <3>1 DEF IInv, TypeOK
    <3>3. \A o, t : Parked(o, t)' <=> Parked(o, t)
      BY <3>1 DEF Parked
    <3>4. ParkRest'
      BY <3>1, <3>3 DEF IInv, ParkRest
    <3>5. DomainsApart' /\ CpuOK'
      BY <3>1 DEF IInv, DomainsApart, CpuOK
    <3> QED
      BY <3>2, <3>4, <3>5 DEF IInv
  <2>2. CASE Next
    BY <2>2, StayKeeps, YieldKeeps DEF Next
  <2> QED
    BY <2>1, <2>2
<1> QED
  BY <1>1, <1>2, PTL DEF Spec

(***************************************************************************)
(* Every kernel table always holds entries of its type.                    *)
(***************************************************************************)
THEOREM TypeCorrect == Spec => []TypeOK
<1>1. IInv => TypeOK
  BY DEF IInv
<1> QED
  BY <1>1, Inductive, PTL

(***************************************************************************)
(* No lost and no stray wakeup, whatever the interleaving of calls, ticks, *)
(* faults and restarts: the blocked tasks are the parked ones, one         *)
(* endpoint each, under their own domain, and none of them is running.     *)
(***************************************************************************)
THEOREM NoLostWakeup == Spec => []ParkedIffBlocked
<1>1. IInv => ParkedIffBlocked
  BY DEF IInv, ParkRest, CpuOK, ParkedIffBlocked
<1> QED
  BY <1>1, Inductive, PTL

(***************************************************************************)
(* The table a system call is resolved in is always the caller's own.      *)
(***************************************************************************)
THEOREM CallsAreAttributed == Spec => []CallerIdentity
<1>1. IInv => CallerIdentity
  BY DEF IInv, DomainsApart, CpuOK, CallerIdentity
<1> QED
  BY <1>1, Inductive, PTL

-----------------------------------------------------------------------------
(* Authority *)

\* AuthorityFromBoot with what makes it inductive: an object id that boot
\* used is never handed out again, since nothing destroys an object.
AInv ==
    /\ AuthorityFromBoot
    /\ \A o \in Oid : BootCaps.objects[o].present => objects[o].present

(***************************************************************************)
(* A transfer whose source is not the root grants no new authority.        *)
(***************************************************************************)
LEMMA TransferKeepsAuthority ==
    ASSUME IInv, AInv, NEW src \in Domain \ {0}, NEW dst \in Domain, NEW xfer,
           NEW r, TransferPost(tables, src, xfer, dst, r),
           tables' = r.tables, UNCHANGED objects
    PROVE  AInv'
<1>1. ASSUME NEW d \in Domain \ {0}, NEW s \in Slot, tables'[d][s] # NoCap
      PROVE  Authorised(tables'[d][s])
  <2>1. CASE tables'[d][s] = tables[d][s]
    BY <1>1, <2>1 DEF AInv, AuthorityFromBoot
  <2>2. CASE /\ xfer \in Slot /\ tables[src][xfer] # NoCap
             /\ tables'[d][s] = ChildEntry(tables[src][xfer], Right, 0)
    <3> DEFINE c == tables[src][xfer]
               k == tables'[d][s]
    <3>1. Authorised(c)
      BY <2>2 DEF AInv, AuthorityFromBoot
    <3>4. tables[src] \in CapTable
      BY DEF IInv, TypeOK
    <3>5. c \in CapEntry
      BY <2>2, <3>4 DEF CapTable
    <3>2. k.object_id = c.object_id /\ k.rights = c.rights
      BY ZenonT(30), <2>2, <3>5 DEF ChildEntry, CapEntry
    <3> HIDE DEF c, k
    <3>3. Authorised(k)
      BY <3>1, <3>2 DEF Authorised
    <3> QED
      BY <3>3 DEF k
  <2> QED
    BY <1>1, <2>1, <2>2 DEF TransferPost
<1> QED
  BY <1>1 DEF AInv, AuthorityFromBoot, Authorised

(***************************************************************************)
(* Ring-3 tasks do not run, and do not park, in the root domain.           *)
(***************************************************************************)
LEMMA NotRoot ==
    ASSUME IInv
    PROVE  /\ \A t \in Task \ {0} : present[t] => domain[t] # 0
           /\ Running => currentDomain # 0
           /\ \A o \in Oid : endpoints[o].state # "Idle"
                                => endpoints[o].peer_domain # 0
<1>1. 0 \in Task
  BY BootAssumption DEF Task
<1>2. \A t \in Task \ {0} : present[t] => domain[t] # domain[0]
  BY <1>1 DEF IInv, DomainsApart
<1>3. \A o \in Oid : endpoints[o].peer_task \in Task
  BY DEF IInv, TypeOK, EpSlot
<1>4. \A t \in Task \ {0} : present[t] => domain[t] # 0
  BY <1>2 DEF IInv, DomainsApart
<1>5. Running => currentDomain # 0
  BY <1>4 DEF IInv, TypeOK, CpuOK, Running
<1>6. ASSUME NEW o \in Oid, endpoints[o].state # "Idle"
      PROVE  endpoints[o].peer_domain # 0
  <2> DEFINE t == endpoints[o].peer_task
  <2>1. t \in Task /\ Parked(o, t)
    BY <1>3, <1>6 DEF Parked
  <2>2. present[t] /\ t # 0 /\ endpoints[o].peer_domain = domain[t]
    BY <2>1 DEF IInv, ParkRest
  <2> QED
    BY <1>4, <2>1, <2>2
<1> QED
  BY <1>4, <1>5, <1>6

(***************************************************************************)
(* A fault grants nothing but the restart's capability, to an object that  *)
(* did not exist, hence not at boot.                                       *)
(***************************************************************************)
LEMMA FaultKeepsAuthority ==
    ASSUME IInv, AInv, Fault
    PROVE  AInv'
<1> DEFINE d == domain[current]
           cs == Reaped(d)
           sup == on_domain_death(d, cs)
<1>1. cs \in CapState /\ d \in Domain
  BY DEF IInv, TypeOK, Reaped, CapState, EmptyCapTable, CapTable
<1>2. SupervisorPost(d, cs, sup)
  BY <1>1, SupervisorSpec DEF IInv, TypeOK
<1>3. objects' = sup.cs.objects /\ tables' = sup.cs.tables
  BY DEF Fault
<1>4. /\ cs.objects = objects
      /\ \A e \in Domain, s \in Slot : cs.tables[e][s] # NoCap
            => cs.tables[e][s] = tables[e][s]
  BY DEF Reaped, EmptyCapTable, IInv, TypeOK
<1> HIDE DEF cs, sup
<1>5. ASSUME NEW e \in Domain \ {0}, NEW s \in Slot, tables'[e][s] # NoCap
      PROVE  Authorised(tables'[e][s])
  <2>1. CASE tables'[e][s] = cs.tables[e][s]
    BY <1>4, <1>5, <2>1 DEF AInv, AuthorityFromBoot
  <2>2. CASE /\ tables'[e][s].rights = {"INVOKE"}
             /\ ~objects[tables'[e][s].object_id].present
    <3>1. tables'[e] \in CapTable
      BY <1>2, <1>3, <1>5 DEF SupervisorPost, CapState
    <3>2. tables'[e][s] \in CapEntry
      BY <1>5, <3>1 DEF CapTable
    <3>3. tables'[e][s].object_id \in Oid
      BY <3>2 DEF CapEntry
    <3> QED
      BY <2>2, <3>3 DEF AInv, Authorised
  <2> QED
    BY <1>2, <1>3, <1>4, <1>5, <2>1, <2>2 DEF SupervisorPost
<1>6. \A o \in Oid : BootCaps.objects[o].present => objects'[o].present
  BY <1>2, <1>3, <1>4 DEF SupervisorPost, AInv
<1> QED
  BY <1>5, <1>6 DEF AInv, AuthorityFromBoot, Authorised

(***************************************************************************)
(* CAP_ABI.md's I1, no ambient authority, over every interleaving of IPC   *)
(* grants, faults and restarts: no domain but the root ever holds anything *)
(* but what boot granted outside the root and what a restart grants.       *)
(***************************************************************************)
THEOREM NoAmbientAuthority == Spec => []AuthorityFromBoot
<1>1. Init => AInv
  BY DEF Init, AInv, AuthorityFromBoot, Authorised
<1>2. IInv /\ AInv /\ [Next]_vars => AInv'
  <2> SUFFICES ASSUME IInv, AInv, [Next]_vars PROVE AInv'
    OBVIOUS
  <2>1. ASSUME UNCHANGED <<objects, tables>> PROVE AInv'
    BY <2>1 DEF AInv, AuthorityFromBoot, Authorised
  <2>2. ASSUME NEW cptr \in Slot, NEW msg \in Word, NEW xfer \in XferArgs,
               SendMeets(cptr, msg, xfer)
        PROVE  AInv'
    <3> DEFINE dst == endpoints[Target(cptr)].peer_domain
               x == Transfer(currentDomain, xfer, dst)
    <3>1. Invokes(cptr, "Endpoint", {}) /\ Running
      BY <2>2 DEF SendMeets, Invokes
    <3>2. Target(cptr) \in Oid
      BY <3>1, TargetIsObject DEF IInv
    <3>3. currentDomain \in Domain \ {0} /\ dst \in Domain
      BY <3>1, <3>2, NotRoot DEF IInv, TypeOK, EpSlot
    <3>4. TransferPost(tables, currentDomain, xfer, dst, x)
      BY <3>3, TransferSpec DEF IInv
    <3>5. tables' = x.tables /\ UNCHANGED objects
      BY <2>2 DEF SendMeets
    <3> QED
      BY <3>3, <3>4, <3>5, TransferKeepsAuthority
  <2>3. ASSUME NEW cptr \in Slot, RecvMeets(cptr) PROVE AInv'
    <3> DEFINE ep == endpoints[Target(cptr)]
               x == Transfer(ep.peer_domain, ep.xfer_cptr, currentDomain)
    <3>1. Invokes(cptr, "Endpoint", {}) /\ ep.state = "SendWait"
      BY <2>3 DEF RecvMeets
    <3>2. Target(cptr) \in Oid
      BY <3>1, TargetIsObject DEF IInv
    <3>3. ep.peer_domain \in Domain \ {0} /\ currentDomain \in Domain
      BY <3>1, <3>2, NotRoot DEF IInv, TypeOK, EpSlot
    <3>4. TransferPost(tables, ep.peer_domain, ep.xfer_cptr, currentDomain, x)
      BY <3>3, TransferSpec DEF IInv
    <3>5. tables' = x.tables /\ UNCHANGED objects
      BY <2>3 DEF RecvMeets
    <3> QED
      BY <3>3, <3>4, <3>5, TransferKeepsAuthority
  <2>4. CASE Fault
    BY <2>4, FaultKeepsAuthority
  <2>5. \/ UNCHANGED <<objects, tables>>
        \/ \E cptr \in Slot, msg \in Word, xfer \in XferArgs :
              SendMeets(cptr, msg, xfer)
        \/ \E cptr \in Slot : RecvMeets(cptr)
        \/ Fault
    BY DEF vars, capVars, Next, Stay, Resume, AllocFrame, notify_signal,
           notify_take, extent_map, devqueue_map, MapPages, SendRefused,
           RecvRefused, Tick, Park, SendParks, RecvParks
  <2> QED
    BY <2>1, <2>2, <2>3, <2>4, <2>5
<1>3. AInv => AuthorityFromBoot
  BY DEF AInv
<1> QED
  BY <1>1, <1>2, <1>3, Inductive, PTL DEF Spec

-----------------------------------------------------------------------------
(* The EDF scheduler *)

(***************************************************************************)
(* Rolling a deadline forward never leaves it in the past.                 *)
(***************************************************************************)
LEMMA RolledIsNat ==
    ASSUME NEW s \in Int, NEW p \in Nat \ {0}
    PROVE  Rolled(s, p) \in Nat \ {0}
<1>1. CASE s > 0
  BY SMT, <1>1 DEF Rolled
<1>2. CASE ~(s > 0)
  <2>1. (-s) % p \in 0 .. p - 1
    BY SMT, <1>2
  <2> QED
    BY SMT, <1>2, <2>1 DEF Rolled
<1> QED
  BY <1>1, <1>2

(***************************************************************************)
(* roll_deadlines keeps deadlines ahead of now.                            *)
(***************************************************************************)
LEMMA RollType ==
    ASSUME NEW sl \in [Task -> Int], NEW pd \in [Task -> Nat \ {0}], NEW here
    PROVE  roll_deadlines(sl, pd, here) \in [Task -> Nat \ {0}]
<1>1. \A t \in Task : Rolled(sl[t], pd[t]) \in Nat \ {0}
  BY RolledIsNat
<1> QED
  BY <1>1 DEF roll_deadlines

(***************************************************************************)
(* pick_next returns a ready task, or idle when there is none.             *)
(***************************************************************************)
LEMMA PickIsCandidate ==
    ASSUME NEW here, NEW parked, NEW sl \in [Task -> Nat \ {0}]
    PROVE  pick_next(here, parked, sl) \in Candidates(here, parked)
<1> DEFINE R == Ready(here, parked)
           D == {sl[u] : u \in R}
           E == {t \in R : sl[t] = Min(D)}
<1>1. CASE R = {}
  BY <1>1 DEF pick_next, Candidates
<1>2. CASE R # {}
  <2>1. R \subseteq Task /\ Task \subseteq Nat
    BY SMT, BootAssumption DEF Ready, Task
  <2>2. D \in SUBSET Nat /\ D # {}
    BY <1>2, <2>1
  <2>3. Min(D) \in D
    BY <2>2, MinInSet
  <2>4. E \in SUBSET Nat /\ E # {}
    BY <2>1, <2>3
  <2>5. Min(E) \in E
    BY <2>4, MinInSet
  <2> QED
    BY <1>2, <2>5 DEF pick_next, Candidates
<1> QED
  BY <1>1, <1>2

(***************************************************************************)
(* A scheduling decision is a Switch, and leaves deadlines well typed.     *)
(***************************************************************************)
LEMMA EdfSwitchSpec ==
    ASSUME NEW sl \in [Task -> Int], period' \in [Task -> Nat \ {0}],
           EdfSwitch(sl)
    PROVE  Switch /\ slack' \in [Task -> Nat \ {0}]
<1>1. slack' \in [Task -> Nat \ {0}]
  BY RollType DEF EdfSwitch
<1>2. pick_next(present', blocked', slack') \in Candidates(present', blocked')
  BY <1>1, PickIsCandidate
<1> QED
  BY <1>1, <1>2 DEF EdfSwitch, Switch

(***************************************************************************)
(* Every step under EDF is a step of Kernel and keeps the types.           *)
(***************************************************************************)
LEMMA EdfStep ==
    ASSUME EdfTypeOK, EdfNext
    PROVE  Next /\ EdfTypeOK'
<1>1. CASE EdfStay
  BY <1>1 DEF EdfStay, Next, EdfTypeOK
<1>2. CASE EdfTick
  <2>1. [t \in Task |-> slack[t] - 1] \in [Task -> Int]
    BY SMT DEF EdfTypeOK
  <2>2. period' \in [Task -> Nat \ {0}]
    BY <1>2 DEF EdfTick, EdfTypeOK
  <2> QED
    BY <1>2, <2>1, <2>2, EdfSwitchSpec DEF EdfTick, Next, EdfTypeOK
<1>3. CASE EdfPark
  <2>1. slack \in [Task -> Int] /\ period' \in [Task -> Nat \ {0}]
    BY SMT, <1>3 DEF EdfPark, EdfTypeOK
  <2> QED
    BY <1>3, <2>1, EdfSwitchSpec DEF EdfPark, Next, EdfTypeOK
<1>4. CASE EdfFault
  <2> DEFINE sl == [t \in Task |-> IF t \in Admitted THEN RestartPeriod
                                                     ELSE slack[t]]
  <2>1. sl \in [Task -> Int]
    BY SMT, PeriodAssumption DEF EdfTypeOK
  <2>2. period' \in [Task -> Nat \ {0}]
    BY <1>4, PeriodAssumption DEF EdfFault, EdfTypeOK
  <2>3. EdfSwitch(sl)
    BY <1>4 DEF EdfFault
  <2> HIDE DEF sl
  <2> QED
    BY <1>4, <2>1, <2>2, <2>3, EdfSwitchSpec DEF EdfFault, Next, EdfTypeOK
<1> QED
  BY <1>1, <1>2, <1>3, <1>4 DEF EdfNext

(***************************************************************************)
(* Periods stay positive and deadlines ahead of now.                       *)
(***************************************************************************)
THEOREM EdfTypeCorrect == EdfSafety => []EdfTypeOK
<1>1. EdfInit => EdfTypeOK
  BY PeriodAssumption DEF EdfInit, EdfTypeOK
<1>2. EdfTypeOK /\ [EdfNext]_edfVars => EdfTypeOK'
  BY EdfStep DEF edfVars, EdfTypeOK
<1> QED
  BY <1>1, <1>2, PTL DEF EdfSafety

(***************************************************************************)
(* Whatever the periods, the EDF kernel is a Kernel.                       *)
(***************************************************************************)
THEOREM EdfRefinesKernel == EdfSafety => ImplementsKernel
<1>1. EdfInit => Init
  BY DEF EdfInit
<1>2. EdfTypeOK /\ [EdfNext]_edfVars => [Next]_vars
  BY EdfStep DEF edfVars
<1> QED
  BY <1>1, <1>2, EdfTypeCorrect, PTL DEF EdfSafety, ImplementsKernel, Spec

=============================================================================
