-------------------------- MODULE KernelReapProofs --------------------------
(***************************************************************************)
(* What a fault, a restart and a grant leave to the others, for any number *)
(* of tasks, domains, slots, objects and pages: the mapping ledger stays   *)
(* exact, parked tasks stay frozen, staged results arrive, grants move,    *)
(* restarts start afresh, dead domains stay without power, and the         *)
(* endpoints are a synchronous rendezvous.                                 *)
(***************************************************************************)
EXTENDS KernelProofs, KernelChannel, FunctionTheorems, FiniteSetTheorems

\* Zenon is the default prover here; leaves with arithmetic, records or
\* functions that are beyond it cite SMT.
USE Zenon

-----------------------------------------------------------------------------
(* The ledger *)

\* The ledger has room for every user page there is (8 for 6 in the code).
LedgerFits == DqPageCount + 1 <= MaxMaps

\* Boot records no page twice.
BootLedgerExact ==
    \A d, e \in Domain : \A i \in DOMAIN BootMaps[d], j \in DOMAIN BootMaps[e] :
        BootMaps[d][i] = BootMaps[e][j] => d = e /\ i = j

(***************************************************************************)
(* A sequence of pages without repetition is no longer than there are      *)
(* pages.                                                                  *)
(***************************************************************************)
LEMMA DistinctPagesFit ==
    ASSUME NEW s \in Seq(Page),
           \A i, j \in 1 .. Len(s) : s[i] = s[j] => i = j
    PROVE  Len(s) <= DqPageCount + 1
<1>1. s \in Injection(1 .. Len(s), Page)
  BY SMT, Fun_IsInj
<1>2. IsFiniteSet(Page) /\ Cardinality(Page) = DqPageCount + 1
  BY SMT, FS_Interval, BootAssumption DEF Page
<1>3. Cardinality(1 .. Len(s)) <= Cardinality(Page)
  BY <1>1, <1>2, FS_Injection
<1>4. Cardinality(1 .. Len(s)) = Len(s)
  <2>1. Len(s) \in Nat
    BY SMT
  <2>2. Cardinality(1 .. Len(s)) = IF 1 > Len(s) THEN 0 ELSE Len(s) - 1 + 1
    <3>1. 1 \in Int /\ Len(s) \in Int
      BY SMT, <2>1
    <3> QED
      BY <3>1, FS_Interval
  <2> QED
    BY SMT, <2>1, <2>2
<1> QED
  BY <1>2, <1>3, <1>4

(***************************************************************************)
(* record_domain_map drops nothing when the ledger has room for every page *)
(* and the pages to record are new and distinct.                           *)
(***************************************************************************)
LEMMA NothingDropped ==
    ASSUME LedgerFits, NEW led \in Seq(Page), NEW pages \in Seq(Page),
           \A i, j \in 1 .. Len(led) : led[i] = led[j] => i = j,
           \A i, j \in 1 .. Len(pages) : pages[i] = pages[j] => i = j,
           \A i \in 1 .. Len(led), j \in 1 .. Len(pages) : led[i] # pages[j]
    PROVE  record_domain_map(led, pages) = led \o pages
<1> DEFINE s == led \o pages
<1>1. /\ s \in Seq(Page) /\ Len(s) = Len(led) + Len(pages)
      /\ \A i \in 1 .. Len(s) : s[i] = IF i <= Len(led) THEN led[i]
                                       ELSE pages[i - Len(led)]
  BY SMT
<1>2. Len(led) \in Nat /\ Len(pages) \in Nat
  BY SMT
<1> HIDE DEF s
<1>3. ASSUME NEW i \in 1 .. Len(s), NEW j \in 1 .. Len(s), s[i] = s[j]
      PROVE  i = j
  <2>1. CASE i <= Len(led) /\ j <= Len(led)
    BY SMTT(30), <1>1, <1>2, <1>3, <2>1
  <2>2. CASE i <= Len(led) /\ ~(j <= Len(led))
    <3>1. i \in 1 .. Len(led) /\ j - Len(led) \in 1 .. Len(pages)
      BY SMT, <1>1, <1>2, <2>2
    <3> QED
      BY <1>1, <1>3, <2>2, <3>1
  <2>3. CASE ~(i <= Len(led)) /\ j <= Len(led)
    <3>1. j \in 1 .. Len(led) /\ i - Len(led) \in 1 .. Len(pages)
      BY SMT, <1>1, <1>2, <2>3
    <3> QED
      BY <1>1, <1>3, <2>3, <3>1
  <2>4. CASE ~(i <= Len(led)) /\ ~(j <= Len(led))
    <3>1. /\ i - Len(led) \in 1 .. Len(pages)
          /\ j - Len(led) \in 1 .. Len(pages)
      BY SMTT(30), <1>1, <1>2, <2>4
    <3>2. pages[i - Len(led)] = pages[j - Len(led)]
      BY <1>1, <1>3, <2>4
    <3>3. i - Len(led) = j - Len(led)
      BY <3>1, <3>2
    <3> QED
      BY SMT, <1>2, <3>3
  <2> QED
    BY <2>1, <2>2, <2>3, <2>4
<1>4. Len(s) <= DqPageCount + 1
  BY <1>1, <1>3, DistinctPagesFit
<1>5. Len(led) + Len(pages) <= MaxMaps
  BY SMTT(30), <1>1, <1>2, <1>4, BootAssumption DEF LedgerFits
<1> QED
  BY <1>5 DEF record_domain_map

(***************************************************************************)
(* X_MAP and DQ_MAP keep the ledger exact, however far they get.           *)
(***************************************************************************)
LEMMA MapKeepsLedger ==
    ASSUME IInv, LedgerFits, LedgerExact, NEW pages \in Seq(Page),
           \A i, j \in 1 .. Len(pages) : pages[i] = pages[j] => i = j,
           MapPages(pages)
    PROVE  LedgerExact'
<1>1. PICK k \in 0 .. Len(pages) :
        /\ \A i \in 1 .. k : pages[i] \notin mapped
        /\ mapped' = mapped \cup {pages[i] : i \in 1 .. k}
        /\ ledger' = [ledger EXCEPT ![currentDomain] =
                               record_domain_map(@, SubSeq(pages, 1, k))]
  BY DEF MapPages
<1> DEFINE c == currentDomain
           led == ledger[c]
           new == SubSeq(pages, 1, k)
<1>2. /\ c \in Domain /\ led \in Seq(Page)
      /\ ledger \in [Domain -> Seq(Page)]
  BY DEF IInv, TypeOK
<1>3. /\ new \in Seq(Page) /\ Len(new) = k
      /\ \A i \in 1 .. k : new[i] = pages[i]
  BY SMT
<1>4. \A d \in Domain : DOMAIN ledger[d] = 1 .. Len(ledger[d])
  BY SMT, <1>2
<1>5. \A d \in Domain : \A i \in 1 .. Len(ledger[d]) : ledger[d][i] \in mapped
  BY SMT, <1>4 DEF LedgerExact, Pages
<1>6. \A i, j \in 1 .. k : new[i] = new[j] => i = j
  BY SMT, <1>3
<1>7. record_domain_map(led, new) = led \o new
  <2>1. \A i, j \in 1 .. Len(led) : led[i] = led[j] => i = j
    BY SMT, <1>2, <1>4 DEF LedgerExact
  <2>2. \A i \in 1 .. Len(led), j \in 1 .. Len(new) : led[i] # new[j]
    BY <1>1, <1>2, <1>3, <1>5
  <2> QED
    BY <1>2, <1>3, <1>6, <2>1, <2>2, NothingDropped
<1>8. /\ ledger'[c] = led \o new
      /\ \A d \in Domain \ {c} : ledger'[d] = ledger[d]
  BY <1>1, <1>2, <1>7
<1> DEFINE n == Len(led)
<1>9. /\ n \in Nat
      /\ DOMAIN ledger'[c] = 1 .. n + k
      /\ \A i \in 1 .. n + k : ledger'[c][i] = IF i <= n THEN ledger[c][i]
                                                         ELSE pages[i - n]
  BY SMTT(30), <1>2, <1>3, <1>8
<1> HIDE DEF led, new, n
<1>10. mapped' = UNION {Pages(ledger'[d]) : d \in Domain}
  <2>1. \A d \in Domain \ {c} : Pages(ledger'[d]) = Pages(ledger[d])
    BY SMT, <1>8 DEF Pages
  <2>2. Pages(ledger'[c]) = Pages(ledger[c]) \cup {pages[i] : i \in 1 .. k}
    <3>1. Pages(ledger'[c]) = {ledger'[c][i] : i \in 1 .. n + k}
      BY <1>9 DEF Pages
    <3>2. Pages(ledger[c]) = {ledger[c][i] : i \in 1 .. n}
      BY <1>2, <1>4 DEF Pages, n, led
    <3>3. ASSUME NEW i \in 1 .. n + k
          PROVE  \/ ledger'[c][i] \in {ledger[c][j] : j \in 1 .. n}
                 \/ ledger'[c][i] \in {pages[j] : j \in 1 .. k}
      <4>1. CASE i <= n
        <5>1. i \in 1 .. n /\ ledger'[c][i] = ledger[c][i]
          BY SMT, <1>9, <4>1
        <5> QED
          BY <5>1
      <4>2. CASE ~(i <= n)
        <5>0. n \in Nat
          BY <1>9
        <5>1. i - n \in 1 .. k
          BY SMT, <4>2, <5>0
        <5> QED
          BY <1>9, <4>2, <5>1
      <4> QED
        BY <4>1, <4>2
    <3>4. ASSUME NEW i \in 1 .. n
          PROVE  ledger[c][i] \in {ledger'[c][j] : j \in 1 .. n + k}
      BY SMT, <1>9
    <3>5. ASSUME NEW i \in 1 .. k
          PROVE  pages[i] \in {ledger'[c][j] : j \in 1 .. n + k}
      <4>1. n + i \in 1 .. n + k /\ ~(n + i <= n) /\ (n + i) - n = i
        BY SMT, <1>9
      <4> QED
        BY <1>9, <4>1
    <3> DEFINE A == {ledger'[c][i] : i \in 1 .. n + k}
               B == {ledger[c][i] : i \in 1 .. n}
               C == {pages[i] : i \in 1 .. k}
    <3>6. A \subseteq B \cup C
      BY SMT, <3>3
    <3>7. B \subseteq A
      BY ZenonT(30), <3>4
    <3>8. C \subseteq A
      BY <3>5
    <3>9. Pages(ledger'[c]) = A /\ Pages(ledger[c]) = B
      BY <3>1, <3>2
    <3> HIDE DEF A, B
    <3> QED
      BY <3>6, <3>7, <3>8, <3>9
  <2>3. mapped = UNION {Pages(ledger[d]) : d \in Domain}
    BY DEF LedgerExact
  <2> QED
    BY SMTT(30), <1>1, <1>2, <2>1, <2>2, <2>3
<1>11. ASSUME NEW d \in Domain, NEW e \in Domain,
              NEW i \in DOMAIN ledger'[d], NEW j \in DOMAIN ledger'[e],
              ledger'[d][i] = ledger'[e][j]
       PROVE  d = e /\ i = j
  <2>1. \A x, y \in Domain : \A a \in DOMAIN ledger[x], b \in DOMAIN ledger[y] :
           ledger[x][a] = ledger[y][b] => x = y /\ a = b
    BY DEF LedgerExact
  <2> DEFINE Old(x, a) == a \in DOMAIN ledger[x] /\ ledger'[x][a] = ledger[x][a]
             New(x, a) == /\ x = c /\ a - n \in 1 .. k
                          /\ ledger'[x][a] = pages[a - n]
  <2>2. \A x \in Domain : \A a \in DOMAIN ledger'[x] : Old(x, a) \/ New(x, a)
    <3> SUFFICES ASSUME NEW x \in Domain, NEW a \in DOMAIN ledger'[x]
                 PROVE  Old(x, a) \/ New(x, a)
      OBVIOUS
    <3>1. CASE x # c
      BY <1>8, <3>1
    <3>2. CASE x = c /\ a <= n
      <4>0. a \in 1 .. n + k /\ n \in Nat
        BY <1>9, <3>2
      <4>1. a \in 1 .. n
        BY SMT, <3>2, <4>0
      <4>2. a \in 1 .. n /\ ledger'[c][a] = ledger[c][a]
        BY <1>9, <3>2, <4>0, <4>1
      <4>3. DOMAIN ledger[c] = 1 .. n
        BY <1>2, <1>4 DEF n, led
      <4> QED
        BY <3>2, <4>2, <4>3
    <3>3. CASE x = c /\ ~(a <= n)
      <4>1. a \in 1 .. n + k
        BY <1>9, <3>3
      <4>2. n \in Nat
        BY <1>9
      <4>3. a - n \in 1 .. k
        BY SMT, <3>3, <4>1, <4>2
      <4>4. ledger'[c][a] = pages[a - n]
        BY <1>9, <3>3, <4>1
      <4> QED
        BY <3>3, <4>3, <4>4
    <3> QED
      BY <3>1, <3>2, <3>3
  <2>3. \A x, y \in Domain : \A a, b : Old(x, a) /\ New(y, b)
           => ledger'[x][a] # ledger'[y][b]
    BY ZenonT(30), <1>1, <1>4, <1>5
  <2>4. CASE Old(d, i) /\ Old(e, j)
    <3>1. /\ i \in DOMAIN ledger[d] /\ j \in DOMAIN ledger[e]
          /\ ledger[d][i] = ledger[e][j]
      BY <1>11, <2>4
    <3> QED
      BY SMT, <2>1, <3>1
  <2>5. CASE New(d, i) /\ New(e, j)
    <3>1. pages[i - n] = pages[j - n] /\ d = e
      BY <1>11, <2>5
    <3>2. i - n = j - n
      <4>1. i - n \in 1 .. Len(pages) /\ j - n \in 1 .. Len(pages)
        BY SMT, <2>5
      <4> QED
        BY <3>1, <4>1
    <3>3. i \in Nat /\ j \in Nat
      BY SMT, <1>9, <2>5
    <3> QED
      BY SMTT(30), <1>9, <3>1, <3>2, <3>3
  <2> HIDE DEF Old, New
  <2> QED
    BY <1>11, <2>2, <2>3, <2>4, <2>5
<1> QED
  BY <1>10, <1>11 DEF LedgerExact

(***************************************************************************)
(* The ledger reap_domain works from is exact in every reachable state: a  *)
(* user page is mapped exactly when one domain's ledger has it, once, also *)
(* after calls that failed half way and after faults and restarts.  This   *)
(* takes a ledger with room for all user pages.                            *)
(***************************************************************************)
THEOREM LedgerStaysExact ==
    ASSUME LedgerFits, BootLedgerExact
    PROVE  Spec => []LedgerExact
<1>1. Init => LedgerExact
  BY SMT DEF Init, LedgerExact, BootLedgerExact
<1>2. IInv /\ LedgerExact /\ [Next]_vars => LedgerExact'
  <2> SUFFICES ASSUME IInv, LedgerExact, [Next]_vars PROVE LedgerExact'
    OBVIOUS
  <2>1. ASSUME UNCHANGED mapVars PROVE LedgerExact'
    BY SMT, <2>1 DEF LedgerExact, mapVars
  <2>2. ASSUME NEW cptr \in Slot, extent_map(cptr) PROVE LedgerExact'
    <3>1. ExtentPages \in Seq(Page) /\ Len(ExtentPages) = 1
      BY SMT, BootAssumption DEF ExtentPages, Page
    <3>2. \A i, j \in 1 .. Len(ExtentPages) :
             ExtentPages[i] = ExtentPages[j] => i = j
      BY SMT, <3>1
    <3> QED
      BY <2>2, <3>1, <3>2, MapKeepsLedger DEF extent_map
  <2>3. ASSUME NEW cptr \in Slot, devqueue_map(cptr) PROVE LedgerExact'
    <3>1. /\ QueuePages \in Seq(Page) /\ Len(QueuePages) = DqPageCount
          /\ \A i \in 1 .. DqPageCount : QueuePages[i] = i
      BY SMT, BootAssumption DEF QueuePages, Page
    <3>2. \A i, j \in 1 .. Len(QueuePages) :
             QueuePages[i] = QueuePages[j] => i = j
      BY <3>1
    <3> QED
      BY <2>3, <3>1, <3>2, MapKeepsLedger DEF devqueue_map
  <2>4. CASE Fault
    <3> DEFINE d == domain[current]
    <3>1. /\ d \in Domain /\ ledger \in [Domain -> Seq(Page)]
          /\ mapped' = mapped \ Pages(ledger[d])
          /\ ledger' = [ledger EXCEPT ![d] = <<>>]
      BY <2>4 DEF Fault, IInv, TypeOK
    <3>2. /\ ledger'[d] = <<>>
          /\ \A e \in Domain \ {d} : ledger'[e] = ledger[e]
      BY <3>1
    <3> HIDE DEF d
    <3>3. DOMAIN ledger'[d] = {} /\ Pages(ledger'[d]) = {}
      BY SMT, <3>2 DEF Pages
    <3>4. \A e \in Domain \ {d} : /\ Pages(ledger'[e]) = Pages(ledger[e])
                                  /\ Pages(ledger[e]) \cap Pages(ledger[d]) = {}
      BY SMTT(30), <3>1, <3>2 DEF LedgerExact, Pages
    <3>5. mapped' = UNION {Pages(ledger'[e]) : e \in Domain}
      BY SMTT(30), <3>1, <3>3, <3>4 DEF LedgerExact
    <3> QED
      BY SMTT(30), <3>2, <3>3, <3>5 DEF LedgerExact
  <2>5. \/ UNCHANGED mapVars
        \/ \E cptr \in Slot : extent_map(cptr) \/ devqueue_map(cptr)
        \/ Fault
    BY ZenonT(30)
       DEF vars, mapVars, Next, Stay, Resume, AllocFrame, notify_signal,
           notify_take, SendRefused, SendMeets, RecvRefused, RecvMeets, Tick,
           Park, SendParks, RecvParks
  <2> QED
    BY <2>1, <2>2, <2>3, <2>4, <2>5
<1> QED
  BY <1>1, <1>2, Inductive, PTL DEF Spec

-----------------------------------------------------------------------------
(* Parked and woken tasks *)

\* Whoever is suspended inside the kernel has its task slot.
Inside == \A t \in Task : inKernel[t] => present[t]

(***************************************************************************)
(* The task slots a fault disturbs are the dead task's and the one the     *)
(* supervisor's instance gets, neither of which is suspended inside the    *)
(* kernel.                                                                 *)
(***************************************************************************)
LEMMA FaultSpares ==
    ASSUME IInv, Inside, Fault, NEW u \in Task, inKernel[u]
    PROVE  /\ u # current /\ inKernel'[u] /\ present'[u]
           /\ domain'[u] = domain[u]
           /\ staged'[u] = staged[u] /\ outcome'[u] = outcome[u]
<1> DEFINE t == current
           sup == on_domain_death(domain[t], Reaped(domain[t]))
           new == IF sup.admit THEN {free_slot(t)} ELSE {}
<1>1. t \in Task /\ t # 0 /\ ~inKernel[t]
  BY DEF IInv, TypeOK, Fault, Running
<1>2. \A n \in new : n = t \/ ~present[n]
  BY <1>1, FreeSlotSpec
<1>3. /\ present' = [x \in Task |-> x \in new \/ (x # t /\ present[x])]
      /\ domain' = [x \in Task |-> IF x \in new THEN FaultDomain
                                                ELSE domain[x]]
      /\ inKernel' = [x \in Task |-> x \notin new /\ inKernel[x]]
      /\ staged' = [x \in Task |-> IF x \in new THEN NoResult ELSE staged[x]]
      /\ outcome' = [x \in Task |-> IF x \in new THEN NoResult
                                                 ELSE outcome[x]]
  BY DEF Fault
<1> HIDE DEF new
<1>4. u # t /\ present[u] /\ u \notin new
  BY <1>1, <1>2 DEF Inside
<1> QED
  BY <1>3, <1>4

(***************************************************************************)
(* Inside holds in every reachable state.                                  *)
(***************************************************************************)
LEMMA InsideHolds == Spec => []Inside
<1>1. Init => Inside
  BY DEF Init, Inside
<1>2. IInv /\ Inside /\ [Next]_vars => Inside'
  <2> SUFFICES ASSUME IInv, Inside, [Next]_vars PROVE Inside'
    OBVIOUS
  <2> USE DEF ipcVars, taskVars
  <2>1. CASE UNCHANGED <<inKernel, present>>
    BY <2>1 DEF Inside
  <2>2. CASE Resume
    BY <2>2 DEF Resume, Inside, IInv, TypeOK
  <2>3. CASE Park
    <3>1. block_current /\ UNCHANGED present
      BY <2>3 DEF Park, SendParks, RecvParks
    <3> QED
      BY <3>1 DEF block_current, Inside, IInv, TypeOK, CpuOK
  <2>4. CASE Fault
    <3>1. \A u \in Task : inKernel'[u] => inKernel[u]
      BY <2>4 DEF Fault
    <3> QED
      BY <2>4, <3>1, FaultSpares DEF Inside
  <2>5. \/ UNCHANGED <<inKernel, present>>
        \/ Resume \/ Park \/ Fault
    BY ZenonT(30) DEF vars, Next, Stay, AllocFrame, notify_signal, notify_take,
           extent_map, devqueue_map, MapPages, SendRefused, SendMeets,
           RecvRefused, RecvMeets, Tick
  <2> QED
    BY <2>1, <2>2, <2>3, <2>4, <2>5
<1> QED
  BY <1>1, <1>2, Inductive, PTL DEF Spec

\* A rendezvous: endpoint o wakes its peer with r, and only tables, the
\* outcome of the running task and that endpoint change besides.
Meets(o, r) ==
    /\ endpoints[o].state # "Idle"
    /\ endpoints' = [endpoints EXCEPT ![o].state = "Idle"]
    /\ unblock(endpoints[o].peer_task, r)
    /\ \A d \in Domain \ {currentDomain, endpoints[o].peer_domain} :
          tables'[d] = tables[d]
    /\ UNCHANGED <<mapVars, taskVars, objects, inKernel>>
    /\ Running

(***************************************************************************)
(* SendMeets and RecvMeets are rendezvous.                                 *)
(***************************************************************************)
LEMMA MeetSpec ==
    ASSUME IInv, NEW cptr \in Slot,
           \/ \E msg \in Word, xfer \in XferArgs : SendMeets(cptr, msg, xfer)
           \/ RecvMeets(cptr)
    PROVE  \E o \in Oid : \E r : Meets(o, r)
<1> DEFINE o == Target(cptr)
           p == endpoints[o].peer_domain
<1>1. Invokes(cptr, "Endpoint", {}) /\ Running
  BY DEF SendMeets, RecvMeets, Invokes
<1>2. o \in Oid
  BY <1>1, TargetIsObject DEF IInv
<1>3. p \in Domain /\ currentDomain \in Domain
  BY <1>2 DEF IInv, TypeOK, EpSlot
<1>4. CASE \E msg \in Word, xfer \in XferArgs : SendMeets(cptr, msg, xfer)
  <2>1. PICK msg \in Word, xfer \in XferArgs : SendMeets(cptr, msg, xfer)
    BY <1>4
  <2> DEFINE x == Transfer(currentDomain, xfer, p)
  <2>2. TransferPost(tables, currentDomain, xfer, p, x)
    BY <1>3, TransferSpec DEF IInv
  <2>3. \A d \in Domain \ {currentDomain, p} : x.tables[d] = tables[d]
    BY <2>2 DEF TransferPost
  <2>4. Meets(o, Received(x, msg))
    BY <1>1, <2>1, <2>3 DEF SendMeets, Meets
  <2> QED
    BY <1>2, <2>4
<1>5. CASE RecvMeets(cptr)
  <2> DEFINE x == Transfer(p, endpoints[o].xfer_cptr, currentDomain)
  <2>2. TransferPost(tables, p, endpoints[o].xfer_cptr, currentDomain, x)
    BY <1>3, TransferSpec DEF IInv
  <2>3. \A d \in Domain \ {currentDomain, p} : x.tables[d] = tables[d]
    BY <2>2 DEF TransferPost
  <2>4. Meets(o, Plain(x.status))
    BY <1>1, <1>5, <2>3 DEF RecvMeets, Meets
  <2> QED
    BY <1>2, <2>4
<1> QED
  BY <1>4, <1>5

\* Every step is one of these, as far as parked and woken tasks can tell.
Kinds ==
    \/ UNCHANGED <<capVars, ledger, endpoints, blocked, staged, inKernel,
                   taskVars>>
    \/ \E pages \in Seq(Page) : Running /\ MapPages(pages)
    \/ \E o \in Oid : \E r : Meets(o, r)
    \/ Resume
    \/ Park
    \/ Fault

\* The next-state relation has no other kinds of step.
LEMMA KindsSpec ==
    ASSUME IInv, [Next]_vars
    PROVE  Kinds
<1> USE DEF capVars, mapVars, taskVars, ipcVars
<1>1. ASSUME NEW cptr \in Slot, extent_map(cptr) \/ devqueue_map(cptr)
      PROVE  \E pages \in Seq(Page) : Running /\ MapPages(pages)
  <2>1. ExtentPages \in Seq(Page)
    BY SMT, BootAssumption DEF ExtentPages, Page
  <2>2. QueuePages \in Seq(Page)
    BY SMT, BootAssumption DEF QueuePages, Page
  <2> QED
    BY <1>1, <2>1, <2>2 DEF extent_map, devqueue_map, Invokes
<1>2. ASSUME NEW cptr \in Slot,
             \/ \E msg \in Word, xfer \in XferArgs : SendMeets(cptr, msg, xfer)
             \/ RecvMeets(cptr)
      PROVE  \E o \in Oid : \E r : Meets(o, r)
  BY <1>2, MeetSpec
<1>3. \/ UNCHANGED <<capVars, ledger, endpoints, blocked, staged, inKernel,
                     taskVars>>
      \/ Resume \/ Park \/ Fault
      \/ \E cptr \in Slot :
            \/ extent_map(cptr) \/ devqueue_map(cptr)
            \/ \E msg \in Word, xfer \in XferArgs : SendMeets(cptr, msg, xfer)
            \/ RecvMeets(cptr)
  BY DEF vars, Next, Stay, AllocFrame, notify_signal, notify_take,
         SendRefused, RecvRefused, Tick
<1> QED
  BY <1>1, <1>2, <1>3 DEF Kinds

(***************************************************************************)
(* Nothing that a parked task left behind changes while it is parked.      *)
(***************************************************************************)
LEMMA StepKeepsFrozen ==
    ASSUME IInv, Inside, [Next]_vars
    PROVE  FrozenStep
<1> SUFFICES ASSUME NEW t \in Task, blocked[t], blocked'[t]
             PROVE  /\ tables'[domain[t]] = tables[domain[t]]
                    /\ ledger'[domain[t]] = ledger[domain[t]]
                    /\ staged'[t] = staged[t]
                    /\ \A o \in Oid : Parked(o, t)
                                         => endpoints'[o] = endpoints[o]
  BY DEF FrozenStep
<1> DEFINE d == domain[t]
<1>1. /\ d \in Domain /\ ledger \in [Domain -> Seq(Page)]
      /\ tables \in [Domain -> CapTable] /\ endpoints \in [Oid -> EpSlot]
      /\ staged \in [Task -> Result] /\ blocked \in [Task -> BOOLEAN]
      /\ current \in Task /\ currentDomain \in Domain
  BY DEF IInv, TypeOK
<1>2. present[t] /\ inKernel[t] /\ t # 0
  BY DEF IInv, ParkRest
<1>3. t # current /\ d # currentDomain
  BY <1>1, <1>2 DEF IInv, CpuOK, DomainsApart
<1>4. Kinds
  BY KindsSpec
<1>5. CASE UNCHANGED <<capVars, ledger, endpoints, blocked, staged, inKernel,
                       taskVars>>
  BY <1>5 DEF capVars
<1>6. ASSUME NEW pages \in Seq(Page), MapPages(pages)
      PROVE  /\ tables'[d] = tables[d] /\ ledger'[d] = ledger[d]
             /\ UNCHANGED <<staged, endpoints>>
  BY <1>1, <1>3, <1>6 DEF MapPages, capVars, ipcVars
<1>7. ASSUME NEW p \in Oid, NEW r, Meets(p, r)
      PROVE  /\ tables'[d] = tables[d] /\ ledger'[d] = ledger[d]
             /\ staged'[t] = staged[t]
             /\ \A o \in Oid : Parked(o, t) => endpoints'[o] = endpoints[o]
  <2> DEFINE w == endpoints[p].peer_task
  <2>1. /\ blocked' = [blocked EXCEPT ![w] = FALSE]
        /\ staged' = [staged EXCEPT ![w] = r]
        /\ w \in Task /\ Parked(p, w)
    BY <1>1, <1>7 DEF Meets, unblock, EpSlot, Parked
  <2>2. t # w
    BY <1>1, <2>1
  <2>3. present[w] /\ endpoints[p].peer_domain = domain[w]
    BY <2>1 DEF IInv, ParkRest
  <2>4. d # endpoints[p].peer_domain
    BY <1>2, <2>1, <2>2, <2>3 DEF IInv, DomainsApart
  <2>5. \A o \in Oid : Parked(o, t) => o # p
    BY <2>2 DEF Parked
  <2> QED
    BY <1>1, <1>3, <1>7, <2>1, <2>2, <2>4, <2>5 DEF Meets, mapVars
<1>8. CASE Resume
  BY <1>8 DEF Resume, capVars, mapVars
<1>9. CASE Park
  <2>1. /\ UNCHANGED <<tables, ledger, staged>>
        /\ \E p \in Oid : /\ endpoints[p].state = "Idle"
                          /\ \A o \in Oid \ {p} : endpoints'[o] = endpoints[o]
    <3>1. PICK cptr \in Slot :
             \/ \E msg \in Word, xfer \in XferArgs : SendParks(cptr, msg, xfer)
             \/ RecvParks(cptr)
      BY <1>9 DEF Park
    <3>2. /\ Invokes(cptr, "Endpoint", {})
          /\ endpoints[Target(cptr)].state = "Idle"
          /\ UNCHANGED <<tables, ledger, staged>>
      BY <3>1 DEF SendParks, RecvParks, capVars, mapVars
    <3>3. Target(cptr) \in Oid
      BY <3>2, TargetIsObject DEF IInv
    <3>4. \A o \in Oid \ {Target(cptr)} : endpoints'[o] = endpoints[o]
      BY <1>1, <3>1, <3>3 DEF SendParks, RecvParks
    <3> QED
      BY <3>2, <3>3, <3>4
  <2> QED
    BY <2>1 DEF Parked
<1>10. CASE Fault
  <2> DEFINE e == domain[current]
             sup == on_domain_death(e, Reaped(e))
  <2>1. /\ e = currentDomain /\ e # d /\ e \in Domain
    BY <1>1, <1>3 DEF IInv, CpuOK
  <2>2. /\ tables' = sup.cs.tables
        /\ ledger' = [ledger EXCEPT ![e] = <<>>]
        /\ endpoints' = Scrubbed(current)
    BY <1>10 DEF Fault
  <2>3. Reaped(e).tables[d] = tables[d] /\ Reaped(e) \in CapState
    BY <1>1, <2>1 DEF Reaped, CapState, IInv, TypeOK, EmptyCapTable, CapTable
  <2>4. sup.cs.tables[d] = tables[d]
    <3>1. CASE e # FaultDomain
      BY <2>3, <3>1 DEF on_domain_death
    <3>2. CASE e = FaultDomain
      <4>1. SupervisorPost(e, Reaped(e), sup)
        BY <2>1, <2>3, SupervisorSpec DEF IInv, TypeOK
      <4>2. d # 0
        BY <1>2, NotRoot
      <4> HIDE DEF sup
      <4> QED
        BY <1>1, <2>1, <2>3, <3>2, <4>1, <4>2 DEF SupervisorPost
    <3> QED
      BY <3>1, <3>2
  <2>5. staged'[t] = staged[t]
    BY <1>2, <1>10, FaultSpares
  <2>6. \A o \in Oid : Parked(o, t) => endpoints'[o] = endpoints[o]
    BY <1>3, <2>2 DEF Scrubbed, Parked
  <2> HIDE DEF sup, e
  <2> QED
    BY <1>1, <2>1, <2>2, <2>4, <2>5, <2>6
<1> QED
  BY <1>4, <1>5, <1>6, <1>7, <1>8, <1>9, <1>10 DEF Kinds

(***************************************************************************)
(* A parked sender's grant is looked up again, by slot number, when the    *)
(* receiver comes: whatever the others do meanwhile, faults and restarts   *)
(* included, it still finds what the sender offered.                       *)
(***************************************************************************)
THEOREM ParkedStayFrozen == Spec => ParkedStateFrozen
<1>1. IInv /\ Inside /\ [Next]_vars => [FrozenStep]_vars
  BY StepKeepsFrozen
<1> QED
  BY <1>1, Inductive, InsideHolds, PTL DEF Spec, ParkedStateFrozen

(***************************************************************************)
(* Nothing comes between a wake and the return to ring 3.                  *)
(***************************************************************************)
LEMMA StepDelivers ==
    ASSUME IInv, Inside, [Next]_vars
    PROVE  DeliverStep
<1> SUFFICES ASSUME NEW t \in Task, inKernel[t], ~blocked[t]
             PROVE  /\ staged'[t] = staged[t]
                    /\ inKernel'[t] \/ outcome'[t] = staged[t]
  BY DEF DeliverStep
<1>1. /\ staged \in [Task -> Result] /\ inKernel \in [Task -> BOOLEAN]
      /\ outcome \in [Task -> Result] /\ current \in Task
      /\ endpoints \in [Oid -> EpSlot]
  BY DEF IInv, TypeOK
<1>2. Kinds
  BY KindsSpec
<1>3. CASE UNCHANGED <<capVars, ledger, endpoints, blocked, staged, inKernel,
                       taskVars>>
  BY <1>3
<1>4. ASSUME NEW pages \in Seq(Page), MapPages(pages)
      PROVE  UNCHANGED <<staged, inKernel>>
  BY <1>4 DEF MapPages, ipcVars
<1>5. ASSUME NEW p \in Oid, NEW r, Meets(p, r)
      PROVE  staged'[t] = staged[t] /\ UNCHANGED inKernel
  <2>1. endpoints[p].peer_task \in Task /\ Parked(p, endpoints[p].peer_task)
    BY <1>1, <1>5 DEF Meets, EpSlot, Parked
  <2>2. endpoints[p].peer_task # t
    BY <2>1 DEF IInv, ParkRest
  <2> QED
    BY <1>1, <1>5, <2>2 DEF Meets, unblock
<1>6. CASE Resume
  BY <1>1, <1>6 DEF Resume, Return
<1>7. CASE Park
  <2>1. block_current /\ UNCHANGED staged
    BY <1>7 DEF Park, SendParks, RecvParks
  <2> QED
    BY <1>1, <2>1 DEF block_current
<1>8. CASE Fault
  BY <1>8, FaultSpares
<1> QED
  BY <1>2, <1>3, <1>4, <1>5, <1>6, <1>7, <1>8 DEF Kinds

(***************************************************************************)
(* A woken task returns with the result its waker staged, whatever happens *)
(* between the wake and the switch to it.                                  *)
(***************************************************************************)
THEOREM StagedResultsArrive == Spec => ResultDelivered
<1>1. IInv /\ Inside /\ [Next]_vars => [DeliverStep]_vars
  BY StepDelivers
<1> QED
  BY <1>1, Inductive, InsideHolds, PTL DEF Spec, ResultDelivered

-----------------------------------------------------------------------------
(* Restarts and dead domains *)

(***************************************************************************)
(* Only the supervisor spends restart budget, and what it leaves is fresh. *)
(***************************************************************************)
LEMMA StepRestartsFresh ==
    ASSUME IInv, [Next]_vars
    PROVE  RestartStep
<1> SUFFICES ASSUME restarts' # restarts
             PROVE  /\ \A s \in Slot : tables'[FaultDomain][s] # NoCap =>
                          /\ tables'[FaultDomain][s].type_tag = "Memory"
                          /\ tables'[FaultDomain][s].rights = {"INVOKE"}
                          /\ tables'[FaultDomain][s].object_id
                                \in FreeOids(objects)
                    /\ ledger'[FaultDomain] = <<>>
                    /\ restarts' = restarts - 1
                    /\ \A t \in Task : present'[t] /\ domain'[t] = FaultDomain
                          => ~blocked'[t] /\ ~inKernel'[t]
  BY DEF RestartStep
<1> DEFINE F == FaultDomain
           c == current
           d == domain[c]
           sup == on_domain_death(d, Reaped(d))
           new == IF sup.admit THEN {free_slot(c)} ELSE {}
<1>1. Fault
  BY ZenonT(30)
     DEF vars, taskVars, Next, Stay, Resume, AllocFrame, notify_signal,
         notify_take, extent_map, devqueue_map, MapPages, SendRefused,
         SendMeets, RecvRefused, RecvMeets, Tick, Park, SendParks, RecvParks
<1>2. /\ tables' = sup.cs.tables /\ restarts' = sup.restarts
      /\ ledger' = [ledger EXCEPT ![d] = <<>>]
      /\ present' = [u \in Task |-> u \in new \/ (u # c /\ present[u])]
      /\ domain' = [u \in Task |-> IF u \in new THEN F ELSE domain[u]]
      /\ blocked' = [u \in Task |-> u \notin new \cup {c} /\ blocked[u]]
      /\ inKernel' = [u \in Task |-> u \notin new /\ inKernel[u]]
  BY <1>1 DEF Fault
<1>3. d = F /\ restarts # 0
  BY <1>2 DEF on_domain_death
<1>4. sup.restarts = restarts - 1
  BY <1>3 DEF on_domain_death, Restart, RestartWith
<1>5. /\ d \in Domain /\ tables \in [Domain -> CapTable]
      /\ ledger \in [Domain -> Seq(Page)] /\ c \in Task
  BY DEF IInv, TypeOK
<1>6. /\ Reaped(d) \in CapState /\ Reaped(d).objects = objects
      /\ Reaped(d).tables[d] = EmptyCapTable
  BY <1>5 DEF Reaped, CapState, IInv, TypeOK, EmptyCapTable, CapTable
<1>7. SupervisorPost(d, Reaped(d), sup)
  BY <1>5, <1>6, SupervisorSpec DEF IInv, TypeOK
<1> HIDE DEF sup, new, d
<1>8. ASSUME NEW s \in Slot, tables'[F][s] # NoCap
      PROVE  /\ tables'[F][s].type_tag = "Memory"
             /\ tables'[F][s].rights = {"INVOKE"}
             /\ tables'[F][s].object_id \in FreeOids(objects)
  <2>1. /\ sup.cs.tables[F][s].type_tag = "Memory"
        /\ sup.cs.tables[F][s].rights = {"INVOKE"}
        /\ ~objects[sup.cs.tables[F][s].object_id].present
    BY <1>2, <1>3, <1>6, <1>7, <1>8 DEF SupervisorPost, EmptyCapTable
  <2>2. sup.cs.tables[F] \in CapTable
    BY <1>3, <1>5, <1>7 DEF SupervisorPost, CapState
  <2>3. sup.cs.tables[F][s].object_id \in Oid
    BY <1>2, <1>8, <2>2 DEF CapTable, CapEntry
  <2> QED
    BY <1>2, <2>1, <2>3 DEF FreeOids
<1>9. ledger'[F] = <<>> /\ restarts' = restarts - 1
  BY <1>2, <1>3, <1>4, <1>5
<1>10. ASSUME NEW t \in Task, present'[t], domain'[t] = F
       PROVE  ~blocked'[t] /\ ~inKernel'[t]
  <2>1. t \in new
    <3> SUFFICES ASSUME t \notin new PROVE FALSE
      OBVIOUS
    <3>1. t # c /\ present[t] /\ domain[t] = F
      BY <1>2, <1>10
    <3>2. present[c] /\ domain[c] = F
      BY <1>3 DEF d, IInv, CpuOK
    <3> QED
      BY <1>5, <3>1, <3>2 DEF IInv, DomainsApart
  <2> QED
    BY <1>2, <2>1
<1> QED
  BY <1>8, <1>9, <1>10

(***************************************************************************)
(* Whatever the dead instance had been granted or had mapped, its          *)
(* successor starts with an INVOKE-only capability to a new Memory object  *)
(* at most.                                                                *)
(***************************************************************************)
THEOREM RestartsStartAfresh == Spec => RestartIsFresh
<1>1. IInv /\ [Next]_vars => [RestartStep]_vars
  BY StepRestartsFresh
<1> QED
  BY <1>1, Inductive, PTL DEF Spec, RestartIsFresh

\* The root's table and the object table have room for the whole restart
\* budget: two slots and two objects each time.
Room ==
    /\ 2 * restarts <= Cardinality(FreeSlots(tables[0]))
    /\ 2 * restarts <= Cardinality(FreeOids(objects))

\* Boot leaves that room, and starts the restartable domain's task.
RestartsFit ==
    /\ FaultDomain \in {BootDomain[t] : t \in BootTasks}
    /\ 2 * BootRestarts <= Cardinality(FreeSlots(BootCaps.tables[0]))
    /\ 2 * BootRestarts <= Cardinality(FreeOids(BootCaps.objects))

(***************************************************************************)
(* Free slots and free ids are finitely many; taking one leaves one fewer. *)
(***************************************************************************)
LEMMA TakeOne ==
    ASSUME NEW S, S \subseteq Slot \/ S \subseteq Oid
    PROVE  /\ Cardinality(S) \in Nat
           /\ Cardinality(S) # 0 => S # {}
           /\ \A x \in S : Cardinality(S \ {x}) = Cardinality(S) - 1
<1>1. IsFiniteSet(Slot) /\ IsFiniteSet(Oid)
  BY SMT, FS_Interval, SizeAssumption DEF Slot, Oid
<1>2. IsFiniteSet(S)
  BY <1>1, FS_Subset
<1> QED
  BY <1>2, FS_CardinalityType, FS_EmptySet, FS_RemoveElement

(***************************************************************************)
(* With room for it a restart does not fail half way: the new instance is  *)
(* admitted, and two slots and two ids are gone.                           *)
(***************************************************************************)
LEMMA RestartSucceeds ==
    ASSUME NEW cs \in CapState, restarts \in Nat \ {0},
           cs.tables[FaultDomain] = EmptyCapTable,
           2 * restarts <= Cardinality(FreeSlots(cs.tables[0])),
           2 * restarts <= Cardinality(FreeOids(cs.objects))
    PROVE  LET r == on_domain_death(FaultDomain, cs)
           IN  /\ r.admit
               /\ r.restarts = restarts - 1
               /\ 2 * r.restarts <= Cardinality(FreeSlots(r.cs.tables[0]))
               /\ 2 * r.restarts <= Cardinality(FreeOids(r.cs.objects))
<1> DEFINE F    == FaultDomain
           all  == {"READ", "WRITE", "INVOKE", "MAP", "DELEGATE"}
           root == init_root(cs)
           mem  == delegate_from_root(root.cs, F, root.cptr, {"INVOKE"})
           ts   == mint_timeslice(mem.cs)
           r    == on_domain_death(F, cs)
<1>0. F \in Domain \ {0} /\ 0 \in Domain
  BY BootAssumption, DomainAssumption DEF Domain
<1>1. \A c : FreeSlots(c) \subseteq Slot /\ FreeOids(c) \subseteq Oid
  BY DEF FreeSlots, FreeOids
<1>2. FreeOids(cs.objects) # {} /\ FreeSlots(cs.tables[0]) # {}
  BY SMT, <1>1, TakeOne
<1>3. RootPost(cs, "Memory", all, root)
  BY MintRootSpec DEF init_root, Kind, Right
<1>4. /\ root.ok
      /\ \E o \in FreeOids(cs.objects) :
            FreeOids(root.cs.objects) = FreeOids(cs.objects) \ {o}
      /\ root.cptr \in FreeSlots(cs.tables[0])
      /\ FreeSlots(root.cs.tables[0]) = FreeSlots(cs.tables[0]) \ {root.cptr}
      /\ Live(root.cs.objects, root.cs.tables[0][root.cptr])
  BY <1>2, MintRootRoom DEF init_root, Kind, Right
<1> HIDE DEF root
<1>5. /\ root.cs \in CapState /\ root.cptr \in Slot
      /\ root.cs.tables[0][root.cptr] \in CapEntry
      /\ root.cs.tables[0][root.cptr].rights = all
      /\ root.cs.tables[F] = EmptyCapTable
  BY <1>0, <1>3, <1>4 DEF RootPost
<1>6. mem.ok
  <2>1. 0 \in FreeSlots(root.cs.tables[F])
    BY SMTT(30), <1>5, SizeAssumption DEF FreeSlots, EmptyCapTable, Slot
  <2>2. root.cs.tables[0][root.cptr] # NoCap
    BY <1>5, NoCapAssumption
  <2>3. {"INVOKE"} \in SUBSET Right
    BY DEF Right
  <2> QED
    BY <1>0, <1>4, <1>5, <2>1, <2>2, <2>3, DelegateFromRootRoom
<1>7. DelegatedPost(root.cs, F, root.cptr, {"INVOKE"}, mem)
  BY <1>0, <1>5, DelegateFromRootSpec DEF Right
<1> HIDE DEF mem
<1>8. /\ mem.cs \in CapState /\ mem.cs.objects = root.cs.objects
      /\ mem.cs.tables[0] = root.cs.tables[0]
  BY <1>0, <1>7 DEF DelegatedPost
<1>9. /\ Cardinality(FreeSlots(mem.cs.tables[0]))
            = Cardinality(FreeSlots(cs.tables[0])) - 1
      /\ Cardinality(FreeOids(mem.cs.objects))
            = Cardinality(FreeOids(cs.objects)) - 1
  BY <1>1, <1>4, <1>8, TakeOne
<1>10. FreeOids(mem.cs.objects) # {} /\ FreeSlots(mem.cs.tables[0]) # {}
  <2>1. /\ Cardinality(FreeSlots(mem.cs.tables[0])) # 0
        /\ Cardinality(FreeOids(mem.cs.objects)) # 0
    <3>1. /\ Cardinality(FreeSlots(cs.tables[0])) \in Nat
          /\ Cardinality(FreeOids(cs.objects)) \in Nat
      BY <1>1, TakeOne
    <3> QED
      BY SMTT(30), <1>9, <3>1
  <2> QED
    BY <1>1, <2>1, TakeOne
<1>11. RootPost(mem.cs, "TimeSlice", {"INVOKE"}, ts)
  BY <1>8, MintRootSpec DEF mint_timeslice, Kind, Right
<1>12. /\ ts.ok
       /\ \E o \in FreeOids(mem.cs.objects) :
             FreeOids(ts.cs.objects) = FreeOids(mem.cs.objects) \ {o}
       /\ ts.cptr \in FreeSlots(mem.cs.tables[0])
       /\ FreeSlots(ts.cs.tables[0]) = FreeSlots(mem.cs.tables[0]) \ {ts.cptr}
       /\ Live(ts.cs.objects, ts.cs.tables[0][ts.cptr])
  BY <1>8, <1>10, MintRootRoom DEF mint_timeslice, Kind, Right
<1> HIDE DEF ts
<1>13. admit_check(ts.cs, ts.cptr) = "Ok"
  <2>1. /\ ts.cptr \in Slot /\ ts.cs.tables[0][ts.cptr] \in CapEntry
        /\ ts.cs.tables[0][ts.cptr].rights = {"INVOKE"}
    BY <1>11, <1>12 DEF RootPost
  <2> QED
    BY <1>12, <2>1, NoCapAssumption
       DEF admit_check, invoke, lookup, Occupied
<1>14. /\ r.cs = ts.cs /\ r.restarts = restarts - 1 /\ r.admit
  <2>1. r = [cs |-> ts.cs, restarts |-> restarts - 1,
             admit |-> /\ mem.ok /\ ts.ok
                       /\ admit_check(ts.cs, ts.cptr) = "Ok"]
    BY <1>4 DEF on_domain_death, Restart, RestartWith, root, mem, ts
  <2> HIDE DEF r
  <2> QED
    BY <1>6, <1>12, <1>13, <2>1
<1>15. /\ Cardinality(FreeSlots(ts.cs.tables[0]))
             = Cardinality(FreeSlots(mem.cs.tables[0])) - 1
       /\ Cardinality(FreeOids(ts.cs.objects))
             = Cardinality(FreeOids(mem.cs.objects)) - 1
  BY <1>1, <1>12, TakeOne
<1>16. /\ 2 * (restarts - 1) <= Cardinality(FreeSlots(ts.cs.tables[0]))
       /\ 2 * (restarts - 1) <= Cardinality(FreeOids(ts.cs.objects))
  <2>1. /\ Cardinality(FreeSlots(cs.tables[0])) \in Nat
        /\ Cardinality(FreeOids(cs.objects)) \in Nat
    BY <1>1, TakeOne
  <2> QED
    BY SMTT(30), <1>9, <1>15, <2>1
<1> HIDE DEF r
<1>17. /\ r.admit /\ r.restarts = restarts - 1
       /\ 2 * r.restarts <= Cardinality(FreeSlots(r.cs.tables[0]))
       /\ 2 * r.restarts <= Cardinality(FreeOids(r.cs.objects))
  BY <1>14, <1>16
<1> QED
  BY <1>17 DEF r

\* DeadDomainPowerless without the endpoints, for which ParkRest suffices.
DeadEmpty ==
    \A d \in Staffed : ~Alive(d) =>
        tables[d] = EmptyCapTable /\ ledger[d] = <<>>

(***************************************************************************)
(* A fault leaves the domain it kills empty or restarted, and every domain *)
(* that was dead before as it was.                                         *)
(***************************************************************************)
LEMMA FaultKeepsDead ==
    ASSUME IInv, DeadEmpty, Room, Fault
    PROVE  DeadEmpty' /\ Room'
<1> DEFINE c == current
           d == domain[c]
           cs == Reaped(d)
           sup == on_domain_death(d, cs)
           new == IF sup.admit THEN {free_slot(c)} ELSE {}
<1>1. /\ c \in Task /\ c # 0 /\ present[c] /\ d \in Domain
      /\ tables \in [Domain -> CapTable] /\ restarts \in Nat
      /\ ledger \in [Domain -> Seq(Page)] /\ domain \in [Task -> Domain]
  BY DEF IInv, TypeOK, CpuOK, Fault, Running
<1>2. d # 0 /\ 0 \in Domain /\ FaultDomain \in Domain \ {0}
  BY SMTT(30), <1>1, NotRoot, BootAssumption, DomainAssumption DEF Domain
<1>3. /\ cs \in CapState /\ cs.objects = objects
      /\ cs.tables[d] = EmptyCapTable
      /\ \A e \in Domain \ {d} : cs.tables[e] = tables[e]
  BY <1>1 DEF Reaped, CapState, IInv, TypeOK, EmptyCapTable, CapTable
<1>4. /\ objects' = sup.cs.objects /\ tables' = sup.cs.tables
      /\ restarts' = sup.restarts
      /\ ledger' = [ledger EXCEPT ![d] = <<>>]
      /\ present' = [u \in Task |-> u \in new \/ (u # c /\ present[u])]
      /\ domain' = [u \in Task |-> IF u \in new THEN FaultDomain
                                                ELSE domain[u]]
  BY DEF Fault
<1>5. \A n \in new : n \in Task /\ (n = c \/ ~present[n])
  BY <1>1, FreeSlotSpec
<1>6. sup.admit => free_slot(c) \in new
  OBVIOUS
<1>7. SupervisorPost(d, cs, sup)
  BY <1>1, <1>3, SupervisorSpec
<1>8. d = FaultDomain /\ restarts # 0 =>
         /\ sup.admit
         /\ 2 * sup.restarts <= Cardinality(FreeSlots(sup.cs.tables[0]))
         /\ 2 * sup.restarts <= Cardinality(FreeOids(sup.cs.objects))
  BY <1>1, <1>2, <1>3, RestartSucceeds DEF Room
<1>9. d # FaultDomain \/ restarts = 0 =>
         sup.cs = cs /\ sup.restarts = restarts
  BY DEF on_domain_death
<1> HIDE DEF cs, sup, new
<1>10. Room'
  BY <1>2, <1>3, <1>4, <1>8, <1>9 DEF Room
<1>11. ASSUME NEW e \in Staffed, ~Alive(e)'
       PROVE  tables'[e] = EmptyCapTable /\ ledger'[e] = <<>>
  <2>1. e \in Domain
    BY <1>2, BootAssumption DEF Staffed
  <2>2. e # 0
    BY <1>11, FaultKeepsParked, BootAssumption DEF DomainsApart, Alive, Task
  <2>3. sup.admit => e # FaultDomain
    <3> SUFFICES ASSUME sup.admit PROVE Alive(FaultDomain)'
      BY <1>11
    <3>1. free_slot(c) \in Task /\ free_slot(c) \in new
      BY <1>5, <1>6
    <3> HIDE DEF c
    <3>2. present'[free_slot(c)] /\ domain'[free_slot(c)] = FaultDomain
      BY <1>4, <3>1
    <3> QED
      BY <3>1, <3>2 DEF Alive
  <2>4. CASE e = d
    <3>1. d # FaultDomain \/ restarts = 0
      BY <1>8, <2>3, <2>4
    <3> QED
      BY <1>1, <1>3, <1>4, <1>9, <2>4, <3>1
  <2>5. CASE e # d
    <3>1. ~Alive(e)
      <4> SUFFICES ASSUME NEW u \in Task, present[u], domain[u] = e
                   PROVE  Alive(e)'
        BY <1>11 DEF Alive
      <4>1. u # c /\ u \notin new
        BY <1>5, <2>5
      <4>2. present'[u] /\ domain'[u] = e
        BY <1>4, <4>1
      <4> QED
        BY <4>2 DEF Alive
    <3>2. tables[e] = EmptyCapTable /\ ledger[e] = <<>>
      BY <3>1 DEF DeadEmpty
    <3>3. sup.cs.tables[e] = cs.tables[e]
      BY <1>7, <1>8, <1>9, <2>1, <2>2, <2>3 DEF SupervisorPost
    <3> HIDE DEF d
    <3> QED
      BY <1>1, <1>3, <1>4, <2>1, <2>5, <3>2, <3>3
  <2> QED
    BY <2>4, <2>5
<1> QED
  BY <1>10, <1>11 DEF DeadEmpty

(***************************************************************************)
(* A domain whose task died and was not restarted stays reaped, whatever   *)
(* the survivors send, grant and map, as long as boot left room for the    *)
(* restarts it budgeted for: the supervisor's two grants then never fail   *)
(* half way.                                                               *)
(***************************************************************************)
THEOREM DeadStayPowerless ==
    ASSUME RestartsFit
    PROVE  Spec => []DeadDomainPowerless
<1>1. Init => DeadEmpty /\ Room
  <2> SUFFICES ASSUME Init PROVE DeadEmpty /\ Room
    OBVIOUS
  <2>1. \A d \in Staffed : Alive(d)
    BY BootAssumption DEF Init, Staffed, Alive, RestartsFit
  <2>2. Room
    BY DEF Init, Room, RestartsFit
  <2> QED
    BY <2>1, <2>2 DEF DeadEmpty
<1>2. IInv /\ DeadEmpty /\ Room /\ [Next]_vars => DeadEmpty' /\ Room'
  <2> SUFFICES ASSUME IInv, DeadEmpty, Room, [Next]_vars
               PROVE  DeadEmpty' /\ Room'
    OBVIOUS
  <2> USE DEF capVars, mapVars, taskVars
  <2>1. \A d \in Staffed : d \in Domain
    BY BootAssumption DEF Staffed
  <2>2. /\ tables \in [Domain -> CapTable] /\ ledger \in [Domain -> Seq(Page)]
        /\ current \in Task /\ currentDomain \in Domain /\ 0 \in Domain
        /\ endpoints \in [Oid -> EpSlot]
    BY SMT, DomainAssumption DEF IInv, TypeOK, Domain
  <2>3. Alive(currentDomain)
    BY <2>2 DEF Alive, IInv, CpuOK
  <2>4. ASSUME UNCHANGED <<objects, present, domain, restarts>>,
               tables'[0] = tables[0],
               \A d \in Domain : ~Alive(d) => /\ tables'[d] = tables[d]
                                              /\ ledger'[d] = ledger[d]
        PROVE  DeadEmpty' /\ Room'
    <3>1. \A d \in Domain : Alive(d)' <=> Alive(d)
      BY <2>4 DEF Alive
    <3> QED
      BY <2>1, <2>4, <3>1 DEF DeadEmpty, Room
  <2>5. CASE \/ UNCHANGED <<capVars, ledger, endpoints, blocked, staged,
                            inKernel, taskVars>>
             \/ Resume \/ Park
    <3>1. UNCHANGED <<objects, tables, ledger, present, domain, restarts>>
      BY <2>5 DEF Resume, Park, SendParks, RecvParks
    <3> QED
      BY <2>4, <3>1
  <2>6. ASSUME NEW pages \in Seq(Page), MapPages(pages)
        PROVE  DeadEmpty' /\ Room'
    <3>1. /\ UNCHANGED <<objects, tables, present, domain, restarts>>
          /\ \A d \in Domain \ {currentDomain} : ledger'[d] = ledger[d]
      BY <2>2, <2>6 DEF MapPages
    <3> QED
      BY <2>3, <2>4, <3>1
  <2>7. ASSUME NEW o \in Oid, NEW r, Meets(o, r)
        PROVE  DeadEmpty' /\ Room'
    <3> DEFINE w == endpoints[o].peer_task
               p == endpoints[o].peer_domain
    <3>1. w \in Task /\ Parked(o, w) /\ Running
      BY <2>2, <2>7 DEF Meets, EpSlot, Parked
    <3>2. Alive(p)
      BY <3>1 DEF IInv, ParkRest, Alive
    <3>3. p # 0 /\ currentDomain # 0
      BY <3>1, NotRoot DEF Parked
    <3>4. /\ UNCHANGED <<objects, ledger, present, domain, restarts>>
          /\ \A d \in Domain \ {currentDomain, p} : tables'[d] = tables[d]
      BY <2>7 DEF Meets
    <3> QED
      BY <2>2, <2>3, <2>4, <3>2, <3>3, <3>4
  <2>8. CASE Fault
    BY <2>8, FaultKeepsDead
  <2>9. Kinds
    BY KindsSpec
  <2> QED
    BY <2>5, <2>6, <2>7, <2>8, <2>9 DEF Kinds
<1>3. IInv /\ DeadEmpty => DeadDomainPowerless
  <2> SUFFICES ASSUME IInv, NEW d \in Staffed, ~Alive(d), NEW o \in Oid,
                      endpoints[o].state # "Idle"
               PROVE  endpoints[o].peer_domain # d
    BY DEF DeadEmpty, DeadDomainPowerless
  <2>1. endpoints[o].peer_task \in Task /\ Parked(o, endpoints[o].peer_task)
    BY DEF IInv, TypeOK, EpSlot, Parked
  <2> QED
    BY ZenonT(30), <2>1 DEF IInv, ParkRest, Alive
<1> QED
  BY <1>1, <1>2, <1>3, Inductive, PTL DEF Spec

-----------------------------------------------------------------------------
(* Grants *)

\* The places of all tables that hold a capability that is u but for its
\* badge.
Places(tb, u) ==
    {p \in Domain \X Slot : tb[p[1]][p[2]] # NoCap
                            /\ Unbadged(tb[p[1]][p[2]]) = u}

(***************************************************************************)
(* A place fewer and another one more are as many places.                  *)
(***************************************************************************)
LEMMA MovePlace ==
    ASSUME NEW P \in SUBSET (Domain \X Slot), NEW a \in P, NEW b, b \notin P
    PROVE  Cardinality((P \ {a}) \cup {b}) = Cardinality(P)
<1>1. IsFiniteSet(Domain) /\ IsFiniteSet(Slot)
  BY SMT, FS_Interval, SizeAssumption, DomainAssumption DEF Slot, Domain
<1>2. IsFiniteSet(P)
  <2>1. IsFiniteSet(Domain \X Slot)
    BY <1>1, FS_Product
  <2> QED
    BY <2>1, FS_Subset
<1>3. IsFiniteSet(P \ {a}) /\ Cardinality(P \ {a}) = Cardinality(P) - 1
  BY <1>2, FS_RemoveElement
<1>4. Cardinality((P \ {a}) \cup {b}) = Cardinality(P \ {a}) + 1
  BY <1>3, FS_AddElement
<1>5. Cardinality(P) \in Nat
  BY <1>2, FS_CardinalityType
<1> QED
  BY SMT, <1>3, <1>4, <1>5

(***************************************************************************)
(* do_cap_transfer leaves as many copies of every capability as it found.  *)
(***************************************************************************)
LEMMA TransferMoves ==
    ASSUME NEW cs \in CapState, NEW src \in Domain, NEW dst \in Domain,
           NEW cptr, NEW k
    PROVE  Copies(do_cap_transfer(cs, src, cptr, dst).tables, k)
              = Copies(cs.tables, k)
<1> DEFINE r == delegate(cs.objects, cs.tables[src], cptr, Right, 0,
                         cs.tables[dst])
           x == do_cap_transfer(cs, src, cptr, dst)
<1>1. CASE src = dst \/ r.status # "Ok"
  BY <1>1 DEF do_cap_transfer
<1>2. CASE src # dst /\ r.status = "Ok"
  <2> DEFINE e == cs.tables[src][cptr]
             f == ChildEntry(e, Right, 0)
             u == Unbadged(k)
             a == <<src, cptr>>
             b == <<dst, r.cptr>>
             tb == x.tables
             P == Places(cs.tables, u)
             Q == Places(tb, u)
  <2>1. /\ cs.objects \in ObjectTable /\ cs.tables \in [Domain -> CapTable]
        /\ cs.tables[src] \in CapTable /\ cs.tables[dst] \in CapTable
    BY DEF CapState
  <2>2. DelegatePost(cs.objects, cs.tables[src], cptr, Right, 0,
                     cs.tables[dst], r)
    BY <2>1, DelegateSpec, SizeAssumption
  <2>3. tb = [cs.tables EXCEPT ![dst] = r.dst, ![src][cptr] = NoCap]
    BY <1>2 DEF do_cap_transfer
  <2> HIDE DEF r, x
  <2>4. /\ cptr \in Slot /\ e \in CapEntry /\ r.cptr \in Slot
        /\ cs.tables[dst][r.cptr] = NoCap
        /\ r.dst \in CapTable /\ r.dst[r.cptr] = f /\ f \in CapEntry
        /\ \A s \in Slot \ {r.cptr} : r.dst[s] = cs.tables[dst][s]
    BY <1>2, <2>2 DEF DelegatePost
  <2>5. e # NoCap /\ f # NoCap
    BY <2>4, NoCapAssumption
  <2>6. Unbadged(f) = Unbadged(e)
    <3>1. e.rights \cap Right = e.rights
      BY <2>4 DEF CapEntry
    <3> QED
      BY <2>4, <3>1 DEF Unbadged, ChildEntry, CapEntry
  <2>7. /\ tb[dst] = r.dst
        /\ tb[src] = [cs.tables[src] EXCEPT ![cptr] = NoCap]
        /\ \A d \in Domain \ {src, dst} : tb[d] = cs.tables[d]
    BY <1>2, <2>1, <2>3
  <2>8. /\ tb[src][cptr] = NoCap /\ tb[dst][r.cptr] = f
        /\ \A d \in Domain, s \in Slot :
              <<d, s>> # a /\ <<d, s>> # b => tb[d][s] = cs.tables[d][s]
    <3>1. tb[src][cptr] = NoCap /\ tb[dst][r.cptr] = f
      BY <2>1, <2>4, <2>7 DEF CapTable
    <3>2. ASSUME NEW d \in Domain, NEW s \in Slot, <<d, s>> # a, <<d, s>> # b
          PROVE  tb[d][s] = cs.tables[d][s]
      <4>1. CASE d = src
        BY <1>2, <2>1, <2>4, <2>7, <3>2, <4>1 DEF CapTable
      <4>2. CASE d = dst
        BY <1>2, <2>4, <2>7, <3>2, <4>2
      <4> QED
        BY <2>7, <4>1, <4>2
    <3> QED
      BY <3>1, <3>2
  <2> HIDE DEF tb, e, f, u
  <2>9. \A d \in Domain, s \in Slot :
              /\ <<d, s>> \in P <=> /\ cs.tables[d][s] # NoCap
                                    /\ Unbadged(cs.tables[d][s]) = u
              /\ <<d, s>> \in Q <=> /\ tb[d][s] # NoCap
                                    /\ Unbadged(tb[d][s]) = u
    BY DEF Places
  <2>10. a \in Domain \X Slot /\ b \in Domain \X Slot /\ a # b
    BY <1>2, <2>4
  <2>11. /\ a \notin Q /\ b \notin P
         /\ a \in P <=> Unbadged(e) = u
         /\ b \in Q <=> Unbadged(e) = u
    <3>1. a \notin Q
      BY <2>4, <2>8, <2>9
    <3>2. b \notin P
      BY <2>4, <2>9
    <3>3. a \in P <=> Unbadged(e) = u
      BY <2>4, <2>5, <2>9 DEF e
    <3>4. b \in Q <=> Unbadged(e) = u
      BY <2>4, <2>5, <2>6, <2>8, <2>9
    <3> QED
      BY <3>1, <3>2, <3>3, <3>4
  <2>12. \A p \in (Domain \X Slot) \ {a, b} : p \in Q <=> p \in P
    <3> SUFFICES ASSUME NEW d \in Domain, NEW s \in Slot,
                        <<d, s>> # a, <<d, s>> # b
                 PROVE  <<d, s>> \in Q <=> <<d, s>> \in P
      BY SMT
    <3>1. tb[d][s] = cs.tables[d][s]
      BY <2>8
    <3> QED
      BY <2>9, <3>1
  <2>13. P \in SUBSET (Domain \X Slot) /\ Q \in SUBSET (Domain \X Slot)
    BY DEF Places
  <2>14. Cardinality(Q) = Cardinality(P)
    <3> HIDE DEF P, Q, a, b
    <3>1. CASE Unbadged(e) = u
      <4>1. Q = (P \ {a}) \cup {b}
        BY <2>10, <2>11, <2>12, <2>13, <3>1
      <4> QED
        BY <2>11, <2>13, <3>1, <4>1, MovePlace
    <3>2. CASE Unbadged(e) # u
      <4>1. Q = P
        <5>1. \A p \in Domain \X Slot : p \in Q <=> p \in P
          BY <2>11, <2>12, <3>2
        <5> QED
          BY <2>13, <5>1
      <4> QED
        BY <4>1
    <3> QED
      BY <3>1, <3>2
  <2> QED
    BY <2>14 DEF Copies, Places, u, tb, x
<1> QED
  BY <1>1, <1>2

(***************************************************************************)
(* A fault is a step that reaps.                                           *)
(***************************************************************************)
LEMMA FaultReaps ==
    ASSUME IInv, Fault
    PROVE  ReapStep
<1> DEFINE c == current
           d == domain[c]
           sup == on_domain_death(d, Reaped(d))
           new == IF sup.admit THEN {free_slot(c)} ELSE {}
<1>1. c \in Task /\ present[c] /\ restarts \in Nat
  BY DEF IInv, TypeOK, CpuOK
<1>2. /\ restarts' = sup.restarts
      /\ present' = [u \in Task |-> u \in new \/ (u # c /\ present[u])]
  BY DEF Fault
<1>3. CASE d # FaultDomain \/ restarts = 0
  <2>1. sup = [cs |-> Reaped(d), restarts |-> restarts, admit |-> FALSE]
    BY <1>3 DEF on_domain_death
  <2>2. new = {}
    BY SMTT(30), <2>1
  <2>3. ~present'[c]
    BY <1>1, <1>2, <2>2
  <2> QED
    BY <1>1, <2>3 DEF ReapStep
<1>4. CASE d = FaultDomain /\ restarts # 0
  <2>1. sup.restarts = restarts - 1
    BY <1>4 DEF on_domain_death, Restart, RestartWith
  <2> QED
    BY SMTT(30), <1>1, <1>2, <2>1 DEF ReapStep
<1> QED
  BY <1>3, <1>4

(***************************************************************************)
(* A rendezvous moves capabilities between tables: for any tables and any  *)
(* interleaving, nothing but a reap changes how many slots of the system   *)
(* hold a given capability.                                                *)
(***************************************************************************)
THEOREM GrantsOnlyMove == Spec => GrantsMove
<1>1. IInv /\ [Next]_vars => [MoveStep]_vars
  <2> SUFFICES ASSUME IInv, [Next]_vars PROVE MoveStep
    OBVIOUS
  <2>1. ASSUME NEW src \in Domain, NEW dst \in Domain, NEW xfer,
               tables' = Transfer(src, xfer, dst).tables
        PROVE  MoveStep
    <3>1. CASE xfer = CPTR_NONE
      BY <2>1, <3>1 DEF Transfer, MoveStep
    <3>2. CASE xfer # CPTR_NONE
      <4> DEFINE cs == [objects |-> objects, tables |-> tables]
      <4>1. cs \in CapState /\ cs.tables = tables
        BY DEF IInv, TypeOK, CapState
      <4>2. tables' = do_cap_transfer(cs, src, xfer, dst).tables
        BY <2>1, <3>2 DEF Transfer
      <4> HIDE DEF cs
      <4>3. \A k : Copies(tables', k) = Copies(tables, k)
        <5> SUFFICES ASSUME NEW k
                     PROVE  Copies(tables', k) = Copies(tables, k)
          OBVIOUS
        <5>1. Copies(do_cap_transfer(cs, src, xfer, dst).tables, k)
                 = Copies(cs.tables, k)
          BY SMT, <4>1, TransferMoves
        <5> QED
          BY <4>1, <4>2, <5>1
      <4> QED
        BY <4>3 DEF MoveStep
    <3> QED
      BY <3>1, <3>2
  <2>2. ASSUME NEW cptr \in Slot,
               \/ \E msg \in Word, xfer \in XferArgs : SendMeets(cptr, msg, xfer)
               \/ RecvMeets(cptr)
        PROVE  MoveStep
    <3>1. Invokes(cptr, "Endpoint", {})
      BY <2>2 DEF SendMeets, RecvMeets
    <3>2. Target(cptr) \in Oid
      BY <3>1, TargetIsObject DEF IInv
    <3>3. /\ endpoints[Target(cptr)].peer_domain \in Domain
          /\ currentDomain \in Domain
      BY <3>2 DEF IInv, TypeOK, EpSlot
    <3> QED
      BY <2>1, <2>2, <3>3 DEF SendMeets, RecvMeets
  <2>3. CASE Fault
    BY <2>3, FaultReaps DEF MoveStep
  <2>4. \/ UNCHANGED tables
        \/ Fault
        \/ \E cptr \in Slot :
              \/ \E msg \in Word, xfer \in XferArgs : SendMeets(cptr, msg, xfer)
              \/ RecvMeets(cptr)
    BY DEF vars, capVars, Next, Stay, Resume, AllocFrame, notify_signal,
           notify_take, extent_map, devqueue_map, MapPages, SendRefused,
           RecvRefused, Tick, Park, SendParks, RecvParks
  <2> QED
    BY <2>2, <2>3, <2>4 DEF MoveStep
<1> QED
  BY <1>1, Inductive, PTL DEF Spec, GrantsMove

-----------------------------------------------------------------------------
(* Endpoints implement Rendezvous *)

\* What the task parked at endpoint o asks for.
AskOf(o) ==
    LET e == endpoints[o]
    IN  IF e.state = "RecvWait" THEN [op |-> "recv", channel |-> o]
        ELSE [op |-> "send", channel |-> o, msg |-> e.msg0,
              grant |-> e.xfer_cptr # CPTR_NONE]

Requests == [t \in Task |-> RequestOf(t)]
Results  == [t \in Task |-> ResultOf(t)]

(***************************************************************************)
(* A parked task waits at one endpoint, which holds its request.           *)
(***************************************************************************)
LEMMA ParkedAsks ==
    \A o \in Oid, t \in Task :
        ParkRest /\ Parked(o, t) => RequestOf(t) = AskOf(o)
<1> SUFFICES ASSUME NEW o \in Oid, NEW t \in Task, ParkRest, Parked(o, t)
             PROVE  RequestOf(t) = AskOf(o)
  OBVIOUS
<1>1. Waits(t) \in Oid /\ Parked(Waits(t), t)
  BY DEF Waits
<1>2. Waits(t) = o
  BY <1>1 DEF ParkRest
<1>3. blocked[t]
  BY DEF ParkRest
<1> QED
  BY <1>2, <1>3 DEF RequestOf, AskOf

(***************************************************************************)
(* The same after a step.                                                  *)
(***************************************************************************)
LEMMA ParkedAsksNext ==
    (\A o \in Oid, t \in Task :
        ParkRest /\ Parked(o, t) => RequestOf(t) = AskOf(o))'
BY ParkedAsks, PTL

(***************************************************************************)
(* Whoever is not parked asks for nothing.                                 *)
(***************************************************************************)
LEMMA ReadyAsksNothing ==
    ASSUME NEW t \in Task
    PROVE  /\ ~blocked[t] => RequestOf(t) = R!Idle
           /\ ~blocked'[t] => RequestOf(t)' = R!Idle
BY DEF RequestOf, R!Idle

(***************************************************************************)
(* A request is a send or a receive of Rendezvous, on the endpoint where   *)
(* the task is parked, and no request is idle.                             *)
(***************************************************************************)
LEMMA AskIsRequest ==
    ASSUME TypeOK, NEW o \in Oid
    PROVE  /\ AskOf(o).channel = o /\ AskOf(o) # R!Idle
           /\ endpoints[o].state = "RecvWait" => AskOf(o) \in R!Recvs
           /\ endpoints[o].state = "SendWait" => AskOf(o) \in R!Sends
<1>1. endpoints[o] \in EpSlot
  BY DEF TypeOK
<1>2. CASE endpoints[o].state = "RecvWait"
  <2>1. AskOf(o) = [op |-> "recv", channel |-> o]
    BY <1>2 DEF AskOf
  <2>2. AskOf(o).op # R!Idle.op
    BY SMT, <2>1 DEF R!Idle
  <2> QED BY SMTT(30), <1>2, <2>1, <2>2 DEF R!Recvs
<1>3. CASE endpoints[o].state # "RecvWait"
  <2>1. AskOf(o) = [op |-> "send", channel |-> o, msg |-> endpoints[o].msg0,
                    grant |-> endpoints[o].xfer_cptr # CPTR_NONE]
    BY <1>3 DEF AskOf
  <2>2. AskOf(o).op # R!Idle.op
    BY SMT, <2>1 DEF R!Idle
  <2>3. endpoints[o].msg0 \in Word
    BY <1>1 DEF EpSlot
  <2>4. AskOf(o) \in R!Sends
    BY SMTT(30), <2>1, <2>3 DEF R!Sends
  <2> QED BY SMTT(30), <1>3, <2>1, <2>2, <2>4
<1> QED
  BY <1>2, <1>3

(***************************************************************************)
(* A task that stays parked at an endpoint nobody touches keeps its        *)
(* request.                                                                *)
(***************************************************************************)
LEMMA RequestStays ==
    ASSUME ParkRest, ParkRest', NEW t \in Task, NEW o \in Oid, Parked(o, t),
           endpoints'[o] = endpoints[o]
    PROVE  RequestOf(t)' = RequestOf(t)
<1>1. Parked(o, t)'
  BY SMT DEF Parked
<1>2. RequestOf(t)' = AskOf(o)' /\ RequestOf(t) = AskOf(o)
  BY <1>1, ParkedAsks, ParkedAsksNext
<1> QED
  BY <1>2 DEF AskOf

(***************************************************************************)
(* A transfer hands over a slot exactly when one was asked for.            *)
(***************************************************************************)
LEMMA TransferHandle ==
    ASSUME TypeOK, NEW src \in Domain, NEW dst \in Domain, NEW xfer
    PROVE  LET x == Transfer(src, xfer, dst)
           IN  /\ x.status \in Status
               /\ x.status = "Ok" => /\ x.cptr \in Slot \cup {CPTR_NONE}
                                     /\ x.cptr # CPTR_NONE <=> xfer # CPTR_NONE
               /\ xfer = CPTR_NONE => x.status = "Ok"
<1> DEFINE cs == [objects |-> objects, tables |-> tables]
           x  == Transfer(src, xfer, dst)
           r  == delegate(cs.objects, cs.tables[src], xfer, Right, 0,
                          cs.tables[dst])
<1>1. x.status \in Status
  BY TransferSpec DEF TransferPost
<1>2. CASE xfer = CPTR_NONE
  <2>1. x = [status |-> "Ok", cptr |-> CPTR_NONE, tables |-> tables]
    BY <1>2 DEF Transfer
  <2> HIDE DEF x
  <2>2. x.status = "Ok" /\ x.cptr = CPTR_NONE
    BY <2>1
  <2> QED BY <1>1, <1>2, <2>2 DEF x
<1>3. CASE xfer # CPTR_NONE
  <2>1. cs.objects \in ObjectTable /\ cs.tables[src] \in CapTable
        /\ cs.tables[dst] \in CapTable
    BY DEF TypeOK
  <2>2. DelegatePost(cs.objects, cs.tables[src], xfer, Right, 0,
                     cs.tables[dst], r)
    BY <2>1, DelegateSpec, SizeAssumption
  <2>3. r.status = "Ok" => r.cptr \in Slot
    BY <2>2 DEF DelegatePost
  <2>4. x = do_cap_transfer(cs, src, xfer, dst)
    BY <1>3 DEF Transfer
  <2>5. x.status = "Ok" => r.status = "Ok" /\ x.cptr = r.cptr
    BY SMT, <2>4 DEF do_cap_transfer
  <2>6. CPTR_NONE \notin Slot
    BY SMT, SizeAssumption DEF CPTR_NONE, Slot
  <2> HIDE DEF x, r
  <2>7. /\ x.status = "Ok" => x.cptr \in Slot /\ x.cptr # CPTR_NONE
    BY <2>3, <2>5, <2>6
  <2> QED BY <1>1, <1>3, <2>7 DEF x
<1> QED
  BY <1>2, <1>3

\* Endpoint o wakes its peer w with r while the running task returns with s.
Wakes(o, w, r, s) ==
    /\ Running
    /\ endpoints[o].state # "Idle" /\ endpoints[o].peer_task = w
    /\ endpoints' = [endpoints EXCEPT ![o].state = "Idle"]
    /\ unblock(w, r) /\ Return(s)
    /\ inKernel' = inKernel

\* The request parked at o has ended, with results r and s.
Ended(o, w, r, s) ==
    /\ w \in Task \ {current} /\ current \in Task
    /\ Requests[current] = R!Idle /\ Requests[w] = AskOf(o)
    /\ Requests' = [Requests EXCEPT ![w] = R!Idle]
    /\ Results' = [Results EXCEPT ![current] = s, ![w] = r]
    /\ Results' = [Results EXCEPT ![w] = r, ![current] = s]

(***************************************************************************)
(* A rendezvous at endpoint o ends the request parked there and no other,  *)
(* and the two results are those the waker returns and stages.             *)
(***************************************************************************)
LEMMA WakeEnds ==
    ASSUME IInv, IInv', NEW o \in Oid, NEW w, NEW r, NEW s, Wakes(o, w, r, s)
    PROVE  Ended(o, w, r, s)
<1>0. /\ Running
      /\ endpoints[o].state # "Idle" /\ endpoints[o].peer_task = w
      /\ endpoints' = [endpoints EXCEPT ![o].state = "Idle"]
      /\ staged' = [staged EXCEPT ![w] = r]
      /\ blocked' = [blocked EXCEPT ![w] = FALSE]
      /\ outcome' = [outcome EXCEPT ![current] = s]
      /\ inKernel' = inKernel
  BY DEF Wakes, unblock, Return
<1>1. /\ endpoints \in [Oid -> EpSlot] /\ blocked \in [Task -> BOOLEAN]
      /\ staged \in [Task -> Result] /\ outcome \in [Task -> Result]
      /\ current \in Task /\ w \in Task
  BY <1>0 DEF IInv, TypeOK, EpSlot
<1>2. Parked(o, w)
  BY <1>0 DEF Parked
<1>3. blocked[w] /\ inKernel[w] /\ ~blocked[current] /\ ~inKernel[current]
  BY <1>0, <1>1, <1>2 DEF IInv, ParkRest, CpuOK, Running
<1>4. w # current
  BY <1>3
<1>5. /\ \A t \in Task : staged'[t] = IF t = w THEN r ELSE staged[t]
      /\ \A t \in Task : blocked'[t] = IF t = w THEN FALSE ELSE blocked[t]
      /\ \A t \in Task : outcome'[t] = IF t = current THEN s ELSE outcome[t]
      /\ inKernel' = inKernel
  BY <1>0, <1>1
<1>6. Requests[current] = R!Idle /\ Requests[w] = AskOf(o)
  BY <1>1, <1>2, <1>3, ReadyAsksNothing, ParkedAsks DEF Requests, IInv
<1>7. ASSUME NEW t \in Task
      PROVE  RequestOf(t)' = IF t = w THEN R!Idle ELSE RequestOf(t)
  <2>1. CASE t = w
    BY <1>1, <1>5, <2>1, ReadyAsksNothing
  <2>2. CASE t # w /\ ~blocked[t]
    BY <1>5, <2>2, ReadyAsksNothing
  <2>3. CASE t # w /\ blocked[t]
    <3>1. PICK p \in Oid : Parked(p, t)
      BY <2>3 DEF IInv, ParkRest
    <3>2. p # o
      BY <1>0, <2>3, <3>1 DEF Parked
    <3>3. endpoints'[p] = endpoints[p]
      BY <1>0, <1>1, <3>2
    <3> QED BY <2>3, <3>1, <3>3, RequestStays DEF IInv
  <2> QED BY <2>1, <2>2, <2>3
<1>8. Requests' = [Requests EXCEPT ![w] = R!Idle]
  BY <1>1, <1>7 DEF Requests
<1>9. ASSUME NEW t \in Task
      PROVE  ResultOf(t)' = IF t = current THEN s
                            ELSE IF t = w THEN r ELSE ResultOf(t)
  BY <1>1, <1>3, <1>4, <1>5 DEF ResultOf
<1>10. /\ Results' = [Results EXCEPT ![current] = s, ![w] = r]
       /\ Results' = [Results EXCEPT ![w] = r, ![current] = s]
  BY <1>1, <1>4, <1>9 DEF Results
<1> QED
  BY <1>1, <1>4, <1>6, <1>8, <1>10 DEF Ended

(***************************************************************************)
(* The results a transfer leads to are those of a delivery, or those of an *)
(* abort.                                                                  *)
(***************************************************************************)
LEMMA MeetEnds ==
    ASSUME TypeOK, NEW src \in Domain, NEW dst \in Domain, NEW xfer, NEW msg,
           NEW a \in Task, NEW b \in Task, NEW q,
           q.msg = msg, q.grant = (xfer # CPTR_NONE),
           NEW x, x = Transfer(src, xfer, dst),
           Results' = [Results EXCEPT ![a] = Plain(x.status),
                                      ![b] = Received(x, msg)]
    PROVE  R!Ends(a, b, q)
<1>1. /\ x.status \in Status
      /\ x.status = "Ok" => /\ x.cptr \in Slot \cup {CPTR_NONE}
                            /\ x.cptr # CPTR_NONE <=> xfer # CPTR_NONE
      /\ xfer = CPTR_NONE => x.status = "Ok"
  BY SMT, TransferHandle
<1>2. Results' = [Results EXCEPT ![a] = Plain(x.status), ![b] = Received(x, msg)]
  OBVIOUS
<1>3. CASE x.status = "Ok"
  <2>1. Plain(x.status) = R!Sent /\ Received(x, msg) = R!Got(msg, x.cptr)
    BY <1>3 DEF Plain, Received, R!Sent, R!Got
  <2>2. Results' = [Results EXCEPT ![a] = R!Sent, ![b] = R!Got(msg, x.cptr)]
    BY <1>2, <2>1
  <2>3. R!Deliver(a, b, q, x.cptr)
    BY <1>1, <1>3, <2>2 DEF R!Deliver, Results
  <2> QED BY <1>1, <1>3, <2>3 DEF R!Ends
<1>4. CASE x.status # "Ok"
  <2>1. Plain(x.status) = R!Failed(x.status)
        /\ Received(x, msg) = R!Failed(x.status)
    BY <1>4 DEF Plain, Received, R!Failed
  <2>2. Results' = [Results EXCEPT ![a] = R!Failed(x.status),
                                   ![b] = R!Failed(x.status)]
    BY <1>2, <2>1
  <2>3. R!Abort(a, b, q, x.status)
    BY <1>1, <1>4, <2>2 DEF R!Abort, Results
  <2> QED BY <1>1, <1>4, <2>3 DEF R!Ends
<1> QED
  BY <1>3, <1>4

(***************************************************************************)
(* A send that finds a receiver meets it.                                  *)
(***************************************************************************)
LEMMA SendMeetsStep ==
    ASSUME IInv, IInv', NEW cptr \in Slot, NEW msg \in Word, NEW xfer,
           SendMeets(cptr, msg, xfer)
    PROVE  R!Next
<1>1. Invokes(cptr, "Endpoint", {}) /\ Running
  BY DEF SendMeets, Invokes
<1>2. PICK o \in Oid : o = Target(cptr)
  BY <1>1, TargetIsObject DEF IInv
<1>3. PICK w : w = endpoints[o].peer_task
  OBVIOUS
<1>4. PICK x : x = Transfer(currentDomain, xfer, endpoints[o].peer_domain)
  OBVIOUS
<1>5. /\ endpoints[o].state = "RecvWait"
      /\ Wakes(o, w, Received(x, msg), Plain(x.status))
  BY <1>1, <1>2, <1>3, <1>4 DEF SendMeets, Wakes
<1>6. endpoints[o].peer_domain \in Domain /\ currentDomain \in Domain
  BY DEF IInv, TypeOK, EpSlot
<1>7. /\ w \in Task \ {current} /\ current \in Task
      /\ Requests[current] = R!Idle /\ Requests[w] = AskOf(o)
      /\ Requests' = [Requests EXCEPT ![w] = R!Idle]
      /\ Results' = [Results EXCEPT ![current] = Plain(x.status),
                                    ![w] = Received(x, msg)]
  <2>1. Ended(o, w, Received(x, msg), Plain(x.status))
    BY <1>5, WakeEnds
  <2> QED BY <2>1 DEF Ended
<1>8. PICK q : q = [op |-> "send", channel |-> o, msg |-> msg,
                    grant |-> xfer # CPTR_NONE]
  OBVIOUS
<1>9. q \in R!Sends /\ q.channel = o /\ q.msg = msg
      /\ q.grant = (xfer # CPTR_NONE)
  BY <1>8 DEF R!Sends
<1>10. AskOf(o) \in R!Recvs /\ AskOf(o).channel = o /\ AskOf(o) # R!Idle
  BY <1>5, AskIsRequest DEF IInv
<1>11. R!Ends(current, w, q)
  BY ZenonT(30), <1>4, <1>6, <1>7, <1>9, MeetEnds DEF IInv
<1>12. R!MeetReceiver(current, q, w)
  BY <1>7, <1>9, <1>10, <1>11 DEF R!MeetReceiver, R!Pending, Requests
<1> QED
  BY <1>7, <1>9, <1>12 DEF R!Next

(***************************************************************************)
(* A receive that finds a sender meets it, with the message and the grant  *)
(* the sender left when it parked.                                         *)
(***************************************************************************)
LEMMA RecvMeetsStep ==
    ASSUME IInv, IInv', NEW cptr \in Slot, RecvMeets(cptr)
    PROVE  R!Next
<1>1. Invokes(cptr, "Endpoint", {}) /\ Running
  BY DEF RecvMeets, Invokes
<1>2. PICK o \in Oid : o = Target(cptr)
  BY <1>1, TargetIsObject DEF IInv
<1>3. PICK w, xfer, msg : /\ w = endpoints[o].peer_task
                          /\ xfer = endpoints[o].xfer_cptr
                          /\ msg = endpoints[o].msg0
  OBVIOUS
<1>4. PICK x : x = Transfer(endpoints[o].peer_domain, xfer, currentDomain)
  OBVIOUS
<1>5. /\ endpoints[o].state = "SendWait"
      /\ Wakes(o, w, Plain(x.status), Received(x, msg))
  BY ZenonT(30), <1>1, <1>2, <1>3, <1>4 DEF RecvMeets, Wakes
<1>6. endpoints[o].peer_domain \in Domain /\ currentDomain \in Domain
  BY DEF IInv, TypeOK, EpSlot
<1>7. /\ w \in Task \ {current} /\ current \in Task
      /\ Requests[current] = R!Idle /\ Requests[w] = AskOf(o)
      /\ Requests' = [Requests EXCEPT ![w] = R!Idle]
      /\ Results' = [Results EXCEPT ![w] = Plain(x.status),
                                    ![current] = Received(x, msg)]
  <2>1. Ended(o, w, Plain(x.status), Received(x, msg))
    BY <1>5, WakeEnds
  <2> QED BY <2>1 DEF Ended
<1>8. PICK q : q = [op |-> "recv", channel |-> o]
  OBVIOUS
<1>9. q \in R!Recvs /\ q.channel = o
  BY <1>8 DEF R!Recvs
<1>10. AskOf(o) \in R!Sends /\ AskOf(o).channel = o /\ AskOf(o) # R!Idle
  BY <1>5, AskIsRequest DEF IInv
<1>11. AskOf(o).msg = msg /\ AskOf(o).grant = (xfer # CPTR_NONE)
  BY <1>3, <1>5 DEF AskOf
<1>12. R!Ends(w, current, AskOf(o))
  BY <1>4, <1>6, <1>7, <1>11, MeetEnds DEF IInv
<1>13. R!MeetSender(current, q, w)
  BY <1>7, <1>9, <1>10, <1>12 DEF R!MeetSender, R!Pending, Requests
<1> QED
  BY <1>7, <1>9, <1>13 DEF R!Next

(***************************************************************************)
(* A call that is refused ends at once, and nobody else notices.           *)
(***************************************************************************)
LEMMA RefusedAbstract ==
    ASSUME IInv, Running, NEW e \in Status \ {"Ok"}, Return(Plain(e)),
           UNCHANGED <<endpoints, blocked, staged, inKernel>>
    PROVE  R!Next
<1>1. /\ current \in Task /\ outcome \in [Task -> Result]
      /\ ~blocked[current] /\ ~inKernel[current]
  BY DEF IInv, TypeOK, CpuOK, Running
<1>2. Requests' = Requests /\ Requests[current] = R!Idle
  BY <1>1, ReadyAsksNothing DEF Requests, RequestOf, Waits, Parked
<1>3. \A t \in Task : ResultOf(t)' = IF t = current THEN Plain(e) ELSE ResultOf(t)
  BY <1>1 DEF ResultOf, Return
<1>4. Results' = [Results EXCEPT ![current] = R!Failed(e)]
  BY <1>1, <1>3 DEF Results, Plain, R!Failed
<1>5. R!Refuse(current, e)
  BY <1>2, <1>4 DEF R!Refuse, Requests, Results
<1> QED
  BY <1>1, <1>5 DEF R!Next

(***************************************************************************)
(* The refusals of ep_send and ep_recv.                                    *)
(***************************************************************************)
LEMMA RefusedStep ==
    ASSUME IInv, NEW cptr \in Slot,
           RecvRefused(cptr) \/ \E xfer \in XferArgs : SendRefused(cptr, xfer)
    PROVE  R!Next
<1>1. Running /\ UNCHANGED <<endpoints, blocked, staged, inKernel>>
  BY DEF RecvRefused, SendRefused, Invokes
<1>2. \E e \in Status \ {"Ok"} : Return(Plain(e))
  <2>1. "ErrRights" \in Status \ {"Ok"}
    BY DEF Status
  <2>2. \A xfer \in XferArgs : GrantStatus(cptr, xfer) # "Ok"
           => GrantStatus(cptr, xfer) \in Status \ {"Ok"}
    BY DEF GrantStatus, Status
  <2> QED BY <2>1, <2>2 DEF RecvRefused, SendRefused
<1> QED
  BY <1>1, <1>2, RefusedAbstract

\* The running task parks at endpoint o.
ParksAt(o) ==
    /\ Running
    /\ endpoints[o].state = "Idle"
    /\ endpoints'[o].state # "Idle" /\ endpoints'[o].peer_task = current
    /\ \A p \in Oid \ {o} : endpoints'[p] = endpoints[p]
    /\ block_current
    /\ UNCHANGED <<staged, outcome>>

(***************************************************************************)
(* A call that parks posts its request on a channel nobody waits on.       *)
(***************************************************************************)
LEMMA ParkAbstract ==
    ASSUME IInv, IInv', NEW o \in Oid, ParksAt(o)
    PROVE  R!Next
<1>0. /\ Running /\ endpoints[o].state = "Idle"
      /\ endpoints'[o].state # "Idle" /\ endpoints'[o].peer_task = current
      /\ \A p \in Oid \ {o} : endpoints'[p] = endpoints[p]
      /\ blocked' = [blocked EXCEPT ![current] = TRUE]
      /\ inKernel' = [inKernel EXCEPT ![current] = TRUE]
      /\ staged' = staged /\ outcome' = outcome
  BY DEF ParksAt, block_current
<1>1. /\ blocked \in [Task -> BOOLEAN] /\ inKernel \in [Task -> BOOLEAN]
      /\ current \in Task /\ ~blocked[current] /\ ~inKernel[current]
      /\ ParkRest /\ ParkRest' /\ TypeOK /\ TypeOK'
  BY <1>0 DEF IInv, TypeOK, CpuOK, Running
<1>2. PICK c \in Task : c = current
  BY <1>1
<1>3. Parked(o, c)'
  BY <1>0, <1>2 DEF Parked
<1>4. PICK q : q = AskOf(o)'
  OBVIOUS
<1>5. RequestOf(c)' = q
  BY <1>1, <1>3, <1>4, ParkedAsksNext
<1>6. q.channel = o /\ q \in R!Sends \cup R!Recvs
  <2>1. endpoints'[o] \in EpSlot
    BY <1>1 DEF TypeOK
  <2>2. CASE endpoints'[o].state = "RecvWait"
    <3>1. q = [op |-> "recv", channel |-> o]
      BY <1>4, <2>2 DEF AskOf
    <3> QED BY <3>1 DEF R!Recvs
  <2>3. CASE endpoints'[o].state # "RecvWait"
    <3>1. q = [op |-> "send", channel |-> o, msg |-> endpoints'[o].msg0,
               grant |-> endpoints'[o].xfer_cptr # CPTR_NONE]
      BY <1>4, <2>3 DEF AskOf
    <3>2. endpoints'[o].msg0 \in Word
      BY <2>1 DEF EpSlot
    <3> QED BY <3>1, <3>2 DEF R!Sends
  <2> QED BY <2>2, <2>3
<1>7. ASSUME NEW t \in Task, t # c PROVE RequestOf(t)' = RequestOf(t)
  <2>1. CASE ~blocked[t]
    <3>1. ~blocked'[t]
      BY <1>0, <1>1, <1>2, <1>7, <2>1
    <3> QED BY <2>1, <3>1, ReadyAsksNothing
  <2>2. CASE blocked[t]
    <3>1. PICK p \in Oid : Parked(p, t)
      BY <1>1, <2>2 DEF ParkRest
    <3>2. p # o
      BY <1>0, <3>1 DEF Parked
    <3>3. endpoints'[p] = endpoints[p]
      BY <1>0, <3>2
    <3> QED BY ZenonT(30), <1>1, <3>1, <3>3, RequestStays
  <2> QED BY <2>1, <2>2
<1>8. Requests' = [Requests EXCEPT ![c] = q] /\ Requests[c] = R!Idle
  BY ZenonT(30), <1>1, <1>2, <1>5, <1>7, ReadyAsksNothing DEF Requests
<1>9. \A t \in Task : ResultOf(t)' = ResultOf(t)
  BY <1>0, <1>1 DEF ResultOf
<1>10. Results' = Results
  BY <1>9 DEF Results
<1>11. ASSUME NEW u \in Task, Requests[u] # R!Idle
       PROVE  Requests[u].channel # o
  <2>1. RequestOf(u) # R!Idle
    BY <1>11 DEF Requests
  <2>2. blocked[u]
    BY <2>1, ReadyAsksNothing
  <2>3. PICK p \in Oid : Parked(p, u)
    BY <1>1, <2>2 DEF ParkRest
  <2>4. Requests[u] = AskOf(p) /\ p # o
    BY <1>0, <1>1, <2>3, ParkedAsks DEF Requests, Parked
  <2> QED BY <1>1, <2>4, AskIsRequest
<1>12. \A u \in Task : ~R!Pending(u, q)
  BY <1>6, <1>11 DEF R!Pending, Requests
<1>13. R!Post(c, q)
  BY <1>8, <1>10, <1>12 DEF R!Post, Requests, Results
<1> QED
  BY <1>2, <1>6, <1>13 DEF R!Next

(***************************************************************************)
(* ep_send and ep_recv on an idle endpoint.                                *)
(***************************************************************************)
LEMMA ParkStep ==
    ASSUME IInv, IInv', Park
    PROVE  R!Next
<1>1. PICK cptr \in Slot :
         \/ \E msg \in Word, xfer \in XferArgs : SendParks(cptr, msg, xfer)
         \/ RecvParks(cptr)
  BY DEF Park
<1>2. Invokes(cptr, "Endpoint", {})
  BY <1>1 DEF SendParks, RecvParks
<1>3. PICK o \in Oid : o = Target(cptr)
  BY <1>2, TargetIsObject DEF IInv
<1>4. Running /\ endpoints \in [Oid -> EpSlot]
  BY <1>2 DEF Invokes, IInv, TypeOK
<1>5. ASSUME NEW msg, NEW xfer, SendParks(cptr, msg, xfer)
      PROVE  ParksAt(o)
  <2>1. /\ endpoints[o].state = "Idle"
        /\ endpoints' = [endpoints EXCEPT ![o] =
                           [state |-> "SendWait", peer_task |-> current,
                            peer_domain |-> currentDomain, msg0 |-> msg,
                            xfer_cptr |-> xfer]]
        /\ block_current /\ UNCHANGED <<staged, outcome>>
    BY <1>3, <1>5 DEF SendParks
  <2> QED BY <1>4, <2>1 DEF ParksAt
<1>6. ASSUME RecvParks(cptr) PROVE ParksAt(o)
  <2>1. /\ endpoints[o].state = "Idle"
        /\ endpoints' = [endpoints EXCEPT ![o].state = "RecvWait",
                                          ![o].peer_task = current,
                                          ![o].peer_domain = currentDomain]
        /\ block_current /\ UNCHANGED <<staged, outcome>>
    BY <1>3, <1>6 DEF RecvParks
  <2>2. /\ endpoints'[o].state = "RecvWait" /\ endpoints'[o].peer_task = current
        /\ \A p \in Oid \ {o} : endpoints'[p] = endpoints[p]
    BY <1>4, <2>1 DEF EpSlot
  <2> QED BY <1>4, <2>1, <2>2 DEF ParksAt
<1> QED
  BY <1>1, <1>5, <1>6, ParkAbstract

(***************************************************************************)
(* Resuming returns a result the task already had.                         *)
(***************************************************************************)
LEMMA ResumeStutters ==
    ASSUME IInv, Resume
    PROVE  Requests' = Requests /\ Results' = Results
<1>1. /\ outcome' = [outcome EXCEPT ![current] = staged[current]]
      /\ inKernel' = [inKernel EXCEPT ![current] = FALSE]
      /\ UNCHANGED <<endpoints, blocked, staged>> /\ inKernel[current]
  BY DEF Resume, Return
<1>2. /\ outcome \in [Task -> Result] /\ inKernel \in [Task -> BOOLEAN]
      /\ ~blocked[current]
  BY DEF IInv, TypeOK, CpuOK
<1>3. Requests' = Requests
  BY <1>1 DEF Requests, RequestOf, Waits, Parked
<1>4. \A t \in Task : ResultOf(t)' = ResultOf(t)
  BY <1>1, <1>2 DEF ResultOf
<1> QED
  BY <1>3, <1>4 DEF Results

(***************************************************************************)
(* A fault ends no request; a restart renews the slot of a task that was   *)
(* not waiting.                                                            *)
(***************************************************************************)
LEMMA FaultStep ==
    ASSUME IInv, IInv', Inside, Fault
    PROVE  R!Next \/ (Requests' = Requests /\ Results' = Results)
<1> DEFINE sup == on_domain_death(domain[current], Reaped(domain[current]))
           new == IF sup.admit THEN {free_slot(current)} ELSE {}
<1>1. /\ current \in Task /\ current # 0
      /\ ~blocked[current] /\ ~inKernel[current]
  BY DEF IInv, TypeOK, CpuOK, Fault, Running
<1>2. /\ endpoints' = Scrubbed(current)
      /\ blocked' = [u \in Task |-> u \notin new \cup {current} /\ blocked[u]]
      /\ inKernel' = [u \in Task |-> u \notin new /\ inKernel[u]]
      /\ staged' = [u \in Task |-> IF u \in new THEN NoResult ELSE staged[u]]
      /\ outcome' = [u \in Task |-> IF u \in new THEN NoResult
                                                 ELSE outcome[u]]
  BY DEF Fault
<1>3. \A n \in new : /\ n \in Task /\ (n = current \/ ~present[n])
                     /\ new = {n}
  BY <1>1, FreeSlotSpec
<1> HIDE DEF new
<1>4. \A n \in new : ~blocked[n]
  BY <1>1, <1>3 DEF IInv, ParkRest
<1>5. \A t \in Task : blocked'[t] <=> blocked[t]
  BY <1>1, <1>2, <1>4
<1>6. ASSUME NEW t \in Task PROVE RequestOf(t)' = RequestOf(t)
  <2>1. CASE ~blocked[t]
    BY <1>5, <2>1, ReadyAsksNothing
  <2>2. CASE blocked[t]
    <3>1. PICK p \in Oid : Parked(p, t)
      BY <2>2 DEF IInv, ParkRest
    <3>2. endpoints'[p] = endpoints[p]
      BY <1>1, <1>2, <2>2, <3>1 DEF Scrubbed, Parked
    <3> QED BY <3>1, <3>2, RequestStays DEF IInv
  <2> QED BY <2>1, <2>2
<1>7. Requests' = Requests
  BY <1>6 DEF Requests
<1>8. ASSUME NEW t \in Task, t \notin new PROVE ResultOf(t)' = ResultOf(t)
  <2>1. /\ staged'[t] = staged[t] /\ outcome'[t] = outcome[t]
        /\ inKernel'[t] <=> inKernel[t]
    BY <1>2, <1>8
  <2>2. blocked'[t] <=> blocked[t]
    BY <1>5
  <2> QED BY <2>1, <2>2 DEF ResultOf
<1>9. CASE new = {}
  BY <1>7, <1>8, <1>9 DEF Results
<1>10. ASSUME NEW n \in new PROVE R!Next
  <2>1. n \in Task /\ new = {n} /\ ~blocked[n]
    BY <1>3, <1>4
  <2>2. ResultOf(n)' = NoResult
    BY <1>2, <2>1 DEF ResultOf
  <2>3. Results' = [Results EXCEPT ![n] = NoResult]
    BY <1>8, <2>1, <2>2 DEF Results
  <2>4. Requests[n] = R!Idle
    BY <2>1, ReadyAsksNothing DEF Requests
  <2>5. R!Renew(n)
    BY <1>7, <2>3, <2>4 DEF R!Renew, Requests, Results
  <2> QED BY <2>1, <2>5 DEF R!Next
<1> QED
  BY <1>9, <1>10

(***************************************************************************)
(* Every step of the kernel is a step of Rendezvous, or none.              *)
(***************************************************************************)
LEMMA RendezvousStep ==
    ASSUME IInv, IInv', Inside, [Next]_vars
    PROVE  R!Next \/ (Requests' = Requests /\ Results' = Results)
<1>1. CASE UNCHANGED <<endpoints, blocked, staged, inKernel, outcome>>
  BY <1>1 DEF Requests, RequestOf, Waits, Parked, Results, ResultOf
<1>2. ASSUME NEW cptr \in Slot,
             \/ \E xfer \in XferArgs : SendRefused(cptr, xfer)
             \/ \E msg \in Word, xfer \in XferArgs : SendMeets(cptr, msg, xfer)
             \/ RecvRefused(cptr)
             \/ RecvMeets(cptr)
      PROVE  R!Next
  BY <1>2, RefusedStep, SendMeetsStep, RecvMeetsStep
<1>3. \/ UNCHANGED <<endpoints, blocked, staged, inKernel, outcome>>
      \/ Resume \/ Park \/ Fault
      \/ \E cptr \in Slot :
            \/ \E xfer \in XferArgs : SendRefused(cptr, xfer)
            \/ \E msg \in Word, xfer \in XferArgs : SendMeets(cptr, msg, xfer)
            \/ RecvRefused(cptr)
            \/ RecvMeets(cptr)
  BY ZenonT(30) DEF vars, ipcVars, Next, Stay, AllocFrame, notify_signal,
         notify_take, extent_map, devqueue_map, MapPages, Tick
<1> QED
  BY <1>1, <1>2, <1>3, ResumeStutters, ParkStep, FaultStep

(***************************************************************************)
(* Endpoint IPC is a synchronous rendezvous for any number of tasks,       *)
(* domains and endpoints: a request ends only by meeting its opposite, the *)
(* message and the capability go to the task that waited for them, and     *)
(* both ends see the same status, whatever parking, preemption, faults and *)
(* restarts happen in between.                                             *)
(***************************************************************************)
THEOREM EndpointsRendezvous == Spec => ImplementsRendezvous
<1>1. Init => R!Init
  <2> SUFFICES ASSUME Init PROVE R!Init
    OBVIOUS
  <2>1. \A t \in Task : RequestOf(t) = R!Idle
    BY ReadyAsksNothing DEF Init
  <2>2. \A t \in Task : ResultOf(t) = NoResult
    BY DEF Init, ResultOf
  <2> QED BY <2>1, <2>2 DEF R!Init
<1>2. IInv /\ IInv' /\ Inside /\ [Next]_vars
         => [R!Next]_<<[t \in Task |-> RequestOf(t)], [t \in Task |-> ResultOf(t)]>>
  BY RendezvousStep DEF Requests, Results
<1> QED
  BY <1>1, <1>2, Inductive, InsideHolds, PTL
     DEF Spec, ImplementsRendezvous, R!Spec

-----------------------------------------------------------------------------
\* What holds whichever ready task runs next holds under EDF: no lost and no
\* stray wakeup, every call resolved in its caller's table, no authority that
\* boot did not give, parked tasks frozen, results delivered, fresh restarts,
\* grants that move, and endpoints that are a rendezvous.
THEOREM EdfKeepsPromises ==
    EdfSafety => /\ [](TypeOK /\ ParkedIffBlocked /\ CallerIdentity /\ AuthorityFromBoot)
                 /\ ParkedStateFrozen /\ ResultDelivered
                 /\ RestartIsFresh /\ GrantsMove
                 /\ ImplementsRendezvous
  BY EdfRefinesKernel, TypeCorrect, NoLostWakeup, CallsAreAttributed,
     NoAmbientAuthority, ParkedStayFrozen, StagedResultsArrive,
     RestartsStartAfresh, GrantsOnlyMove, EndpointsRendezvous, PTL
     DEF ImplementsKernel

=============================================================================
