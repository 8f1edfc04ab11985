------------------------------- MODULE Kernel -------------------------------
(***************************************************************************)
(* The running kernel, from `sti` on: the ring-3 tasks of kernel/src/      *)
(* sched.rs, the system calls of capspace.rs they make, the blocking       *)
(* endpoint rendezvous, and the crash-only path (terminate_current,        *)
(* reap_domain, the supervisor's restart).                                 *)
(*                                                                         *)
(* One CPU; a system call and a fault handler run with interrupts off, so  *)
(* each is one step, except that a call which parks its caller ends when   *)
(* the CPU is handed to another task and is finished by Resume.  Which     *)
(* ready task gets the CPU is left open here (Switch); KernelEdf fixes it. *)
(* The actions say what a step does to everything but the CPU.             *)
(*                                                                         *)
(* A call that is refused before it changes anything (a bad, revoked or    *)
(* too weak capability, an unknown method, a stray xfer), and the methods  *)
(* that only answer (M_FREE, X_READ, X_WRITE, X_COMMIT, DQ_INFO, DQ_REPORT,*)
(* DQ_SUBMIT), are stuttering steps and have no action.                    *)
(*                                                                         *)
(* A definition named Mutant... is a deliberately wrong variant of the one *)
(* below it; the specification does not use it (see README.md).            *)
(***************************************************************************)
EXTENDS CapSpace, Sequences

CONSTANTS
    TaskCount,      \* MAX_TASKS (5 in the code); task 0 is idle
    FaultDomain,    \* FAULT_DOMAIN, the restartable domain
    Bits,           \* the bits of a message or notification word
    DqPageCount,    \* pages DQ_MAP maps (5 in the code)
    MaxMaps,        \* MAX_MAPS_PER_DOMAIN (8 in the code)
    \* What boot leaves behind:
    BootCaps,       \* the object table and the capability tables
    BootTasks,      \* the admitted tasks
    BootDomain,     \* the domain of each task slot
    BootMaps,       \* the mapping ledger of each domain
    BootFrames,     \* free physical frames
    BootRestarts,   \* the restart budget given to register_faulter
    LoadedExtents,  \* objects with data_frame_phys # 0
    SeededQueues,   \* objects with buf_phys # 0
    XferArgs        \* bound: the xfer arguments tasks pass to E_SEND

Task == 0 .. TaskCount - 1

\* A 64-bit word is the set of its bits.
Word == SUBSET Bits

\* User pages X_MAP and DQ_MAP install: EXTENT_MAP_BASE, and the window at
\* DQ_BASE.
ExtentPages == <<0>>
QueuePages  == [i \in 1 .. DqPageCount |-> i]
Page        == 0 .. DqPageCount

EpState == {"Idle", "SendWait", "RecvWait"}

EpSlot == [state: EpState, peer_task: Task, peer_domain: Domain, msg0: Word,
           xfer_cptr: CPtr]

EP_EMPTY == [state |-> "Idle", peer_task |-> 0, peer_domain |-> 0,
             msg0 |-> {}, xfer_cptr |-> 0]

\* What an endpoint call returns: status, message word, received slot.
Result == [status: Status, reply: Word, cptr: CPtr]

\* The ipc_* fields of Task::EMPTY.
NoResult == [status |-> "Ok", reply |-> {}, cptr |-> 0]

(***************************************************************************)
(* What main.rs sets up: idle runs in the root domain, every ring-3 task   *)
(* has a domain of its own, and nobody is admitted without a task slot.    *)
(***************************************************************************)
ASSUME BootAssumption ==
    /\ TaskCount \in Nat \ {0}
    /\ FaultDomain \in Domain \ {0}
    /\ DqPageCount \in Nat \ {0}
    /\ MaxMaps \in Nat
    /\ BootCaps \in CapState
    /\ BootTasks \subseteq Task
    /\ 0 \in BootTasks
    /\ BootDomain \in [Task -> Domain]
    /\ BootDomain[0] = 0
    /\ \A t, u \in BootTasks : t # u => BootDomain[t] # BootDomain[u]
    /\ BootMaps \in [Domain -> Seq(Page)]
    /\ \A d \in Domain : Len(BootMaps[d]) <= MaxMaps
    /\ BootFrames \in Nat
    /\ BootRestarts \in Nat
    /\ LoadedExtents \subseteq Oid
    /\ SeededQueues \subseteq Oid
    /\ XferArgs \subseteq CPtr

VARIABLES
    objects, tables,        \* OBJECTS, DOMAINS
    endpoints, notify,      \* ENDPOINTS, NOTIFY
    frames,                 \* free frames of FRAME_ALLOCATOR
    mapped, ledger,         \* present user mappings; DOMAIN_MAPS
    present, domain,        \* SCHED.tasks[t].present, .domain
    blocked, staged,        \* SCHED.tasks[t].blocked, .ipc_*
    inKernel,               \* t's saved context is inside block_current
    outcome,                \* what t's last endpoint call returned to ring 3
    current, currentDomain, \* SCHED.current, CURRENT_DOMAIN
    restarts                \* FAULTER_RESTARTS

capVars  == <<objects, tables>>
mapVars  == <<mapped, ledger>>
taskVars == <<present, domain, restarts>>
ipcVars  == <<endpoints, blocked, staged, inKernel, outcome>>
cpuVars  == <<current, currentDomain>>

vars == <<capVars, mapVars, taskVars, ipcVars, cpuVars, notify, frames>>

(***************************************************************************)
(* Every kernel table holds entries of its type.                           *)
(***************************************************************************)
TypeOK ==
    /\ objects \in ObjectTable
    /\ tables \in [Domain -> CapTable]
    /\ endpoints \in [Oid -> EpSlot]
    /\ notify \in [Oid -> Word]
    /\ frames \in Nat
    /\ mapped \subseteq Page
    /\ ledger \in [Domain -> Seq(Page)]
    /\ present \in [Task -> BOOLEAN]
    /\ domain \in [Task -> Domain]
    /\ blocked \in [Task -> BOOLEAN]
    /\ staged \in [Task -> Result]
    /\ inKernel \in [Task -> BOOLEAN]
    /\ outcome \in [Task -> Result]
    /\ current \in Task
    /\ currentDomain \in Domain
    /\ restarts \in Nat

Pages(led) == {led[i] : i \in DOMAIN led}

Init ==
    /\ objects = BootCaps.objects
    /\ tables = BootCaps.tables
    /\ endpoints = [o \in Oid |-> EP_EMPTY]
    /\ notify = [o \in Oid |-> {}]
    /\ frames = BootFrames
    /\ ledger = BootMaps
    /\ mapped = UNION {Pages(BootMaps[d]) : d \in Domain}
    /\ present = [t \in Task |-> t \in BootTasks]
    /\ domain = BootDomain
    /\ blocked = [t \in Task |-> FALSE]
    /\ staged = [t \in Task |-> NoResult]
    /\ inKernel = [t \in Task |-> FALSE]
    /\ outcome = [t \in Task |-> NoResult]
    /\ current = 0
    /\ currentDomain = 0
    /\ restarts = BootRestarts

-----------------------------------------------------------------------------
(* The scheduler's part of a step *)

\* The ring-3 tasks pick_next may choose; idle is the floor.
Ready(p, b) == {t \in Task \ {0} : p[t] /\ ~b[t]}

Candidates(p, b) == IF Ready(p, b) = {} THEN {0} ELSE Ready(p, b)

MutantSwitch ==
    /\ current' \in Candidates(present', blocked')
    /\ currentDomain' = domain'[current]

\* Hand the CPU over and publish the incoming task's domain.
Switch ==
    /\ current' \in Candidates(present', blocked')
    /\ currentDomain' = domain'[current']

\* schedule_tick.  A task inside the kernel runs with interrupts off.
Tick ==
    /\ ~inKernel[current]
    /\ UNCHANGED <<capVars, mapVars, taskVars, ipcVars, notify, frames>>

\* A ring-3 task is executing.
Running == current # 0 /\ ~inKernel[current]

-----------------------------------------------------------------------------
(* System calls that do not block *)

\* The running task's capability in slot cptr, valid for a method of a kind
\* of object that needs the rights `extra` besides INVOKE.
Invokes(cptr, kind, extra) ==
    /\ Running
    /\ invoke(objects, tables[currentDomain], cptr, {"INVOKE"}) = "Ok"
    /\ tables[currentDomain][cptr].type_tag = kind
    /\ extra \subseteq tables[currentDomain][cptr].rights

Target(cptr) == tables[currentDomain][cptr].object_id

\* M_ALLOC; with no frame left the call is refused and nothing changes.
AllocFrame(cptr) ==
    /\ Invokes(cptr, "Memory", {})
    /\ frames > 0
    /\ frames' = frames - 1
    /\ UNCHANGED <<capVars, mapVars, taskVars, ipcVars, notify>>

notify_signal(cptr, bits) ==
    /\ Invokes(cptr, "Notification", {"WRITE"})
    /\ notify' = [notify EXCEPT ![Target(cptr)] = @ \cup bits]
    /\ UNCHANGED <<capVars, mapVars, taskVars, ipcVars, frames>>

notify_take(cptr) ==
    /\ Invokes(cptr, "Notification", {"READ"})
    /\ notify' = [notify EXCEPT ![Target(cptr)] = {}]
    /\ UNCHANGED <<capVars, mapVars, taskVars, ipcVars, frames>>

MutantRecord(led, pages) ==
    IF Len(pages) < DqPageCount THEN led ELSE led \o pages

\* Entries are dropped when the ledger is full.
record_domain_map(led, pages) ==
    IF Len(led) + Len(pages) <= MaxMaps
    THEN led \o pages
    ELSE SubSeq(led \o pages, 1, MaxMaps)

\* Levels of page table below the root that a mapping may have to create.
TableLevels == 3

\* Map and record `pages` in order.  map_user_phys takes frames for missing
\* page tables; it refuses a page that is already mapped, and any page when
\* there is no frame for a table.  The k pages before the refused one stay
\* mapped and recorded, and the tables stay too.
MapPages(pages) ==
    \E k \in 0 .. Len(pages), n \in 0 .. TableLevels :
        /\ \A i \in 1 .. k : pages[i] \notin mapped
        /\ mapped' = mapped \cup {pages[i] : i \in 1 .. k}
        /\ ledger' = [ledger EXCEPT ![currentDomain] =
                                      record_domain_map(@, SubSeq(pages, 1, k))]
        /\ n <= frames
        /\ frames' = frames - n
        /\ UNCHANGED <<capVars, taskVars, ipcVars, notify>>

extent_map(cptr) ==
    /\ Invokes(cptr, "Extent", {"MAP"})
    /\ Target(cptr) \in LoadedExtents
    /\ MapPages(ExtentPages)

devqueue_map(cptr) ==
    /\ Invokes(cptr, "DeviceQueue", {"MAP"})
    /\ Target(cptr) \in SeededQueues
    /\ MapPages(QueuePages)

-----------------------------------------------------------------------------
(* Endpoint calls *)

\* The validation of a requested transfer, before any park.
GrantStatus(cptr, xfer) ==
    IF xfer = CPTR_NONE THEN "Ok"
    ELSE IF "GRANT_CAP" \notin tables[currentDomain][cptr].rights
    THEN "ErrRights"
    ELSE IF xfer \notin Slot THEN "ErrBadCPtr"
    ELSE "Ok"

\* The transfer made at a rendezvous, if one was asked for.
Transfer(src, xfer, dst) ==
    IF xfer = CPTR_NONE
    THEN [status |-> "Ok", cptr |-> CPTR_NONE, tables |-> tables]
    ELSE do_cap_transfer([objects |-> objects, tables |-> tables],
                         src, xfer, dst)

\* A result that carries nothing; with "Ok", what a sender gets.
Plain(st) == [status |-> st, reply |-> {}, cptr |-> CPTR_NONE]

MutantReceived(x, msg) == [status |-> "Ok", reply |-> msg, cptr |-> x.cptr]

\* What the receiver gets from a rendezvous whose transfer went as x says.
Received(x, msg) ==
    IF x.status = "Ok"
    THEN [status |-> "Ok", reply |-> msg, cptr |-> x.cptr]
    ELSE Plain(x.status)

\* Return to ring 3 with r.
Return(r) == outcome' = [outcome EXCEPT ![current] = r]

\* Stage r for task t, then make it ready.
unblock(t, r) ==
    /\ staged' = [staged EXCEPT ![t] = r]
    /\ blocked' = [blocked EXCEPT ![t] = FALSE]

\* Park the running task.
block_current ==
    /\ blocked' = [blocked EXCEPT ![current] = TRUE]
    /\ inKernel' = [inKernel EXCEPT ![current] = TRUE]

\* ep_send refused: by the transfer request, or because a sender is parked.
SendRefused(cptr, xfer) ==
    /\ Invokes(cptr, "Endpoint", {})
    /\ \/ /\ GrantStatus(cptr, xfer) # "Ok"
          /\ Return(Plain(GrantStatus(cptr, xfer)))
       \/ /\ GrantStatus(cptr, xfer) = "Ok"
          /\ endpoints[Target(cptr)].state = "SendWait"
          /\ Return(Plain("ErrRights"))
    /\ UNCHANGED <<capVars, mapVars, taskVars, notify, frames,
                   endpoints, blocked, staged, inKernel>>

\* ep_send with a receiver parked.
SendMeets(cptr, msg, xfer) ==
    LET o  == Target(cptr)
        ep == endpoints[o]
        x  == Transfer(currentDomain, xfer, ep.peer_domain)
    IN  /\ Invokes(cptr, "Endpoint", {})
        /\ GrantStatus(cptr, xfer) = "Ok"
        /\ ep.state = "RecvWait"
        /\ endpoints' = [endpoints EXCEPT ![o].state = "Idle"]
        /\ tables' = x.tables
        /\ unblock(ep.peer_task, Received(x, msg))
        /\ Return(Plain(x.status))
        /\ UNCHANGED <<mapVars, taskVars, notify, frames, objects,
                       inKernel>>

\* ep_send on an idle endpoint.
SendParks(cptr, msg, xfer) ==
    LET o == Target(cptr)
    IN  /\ Invokes(cptr, "Endpoint", {})
        /\ GrantStatus(cptr, xfer) = "Ok"
        /\ endpoints[o].state = "Idle"
        /\ endpoints' = [endpoints EXCEPT ![o] =
                           [state |-> "SendWait", peer_task |-> current,
                            peer_domain |-> currentDomain, msg0 |-> msg,
                            xfer_cptr |-> xfer]]
        /\ block_current
        /\ UNCHANGED <<capVars, mapVars, taskVars, notify, frames, staged,
                       outcome>>

\* ep_recv with a receiver already parked.
RecvRefused(cptr) ==
    /\ Invokes(cptr, "Endpoint", {})
    /\ endpoints[Target(cptr)].state = "RecvWait"
    /\ Return(Plain("ErrRights"))
    /\ UNCHANGED <<capVars, mapVars, taskVars, notify, frames,
                   endpoints, blocked, staged, inKernel>>

\* ep_recv with a sender parked.
RecvMeets(cptr) ==
    LET o  == Target(cptr)
        ep == endpoints[o]
        x  == Transfer(ep.peer_domain, ep.xfer_cptr, currentDomain)
    IN  /\ Invokes(cptr, "Endpoint", {})
        /\ ep.state = "SendWait"
        /\ endpoints' = [endpoints EXCEPT ![o].state = "Idle"]
        /\ tables' = x.tables
        /\ unblock(ep.peer_task, Plain(x.status))
        /\ Return(Received(x, ep.msg0))
        /\ UNCHANGED <<mapVars, taskVars, notify, frames, objects,
                       inKernel>>

\* ep_recv on an idle endpoint: the staged message and transfer of an
\* earlier sender are left in the slot.
RecvParks(cptr) ==
    LET o == Target(cptr)
    IN  /\ Invokes(cptr, "Endpoint", {})
        /\ endpoints[o].state = "Idle"
        /\ endpoints' = [endpoints EXCEPT ![o].state = "RecvWait",
                                          ![o].peer_task = current,
                                          ![o].peer_domain = currentDomain]
        /\ block_current
        /\ UNCHANGED <<capVars, mapVars, taskVars, notify, frames, staged,
                       outcome>>

MutantResume ==
    /\ inKernel[current]
    /\ Return(Plain("Ok"))
    /\ inKernel' = [inKernel EXCEPT ![current] = FALSE]
    /\ UNCHANGED <<capVars, mapVars, taskVars, notify, frames,
                   endpoints, blocked, staged>>

\* The parked call continues after block_current and returns to ring 3.
Resume ==
    /\ inKernel[current]
    /\ Return(staged[current])
    /\ inKernel' = [inKernel EXCEPT ![current] = FALSE]
    /\ UNCHANGED <<capVars, mapVars, taskVars, notify, frames,
                   endpoints, blocked, staged>>

-----------------------------------------------------------------------------
(* A ring-3 fault: terminate_current *)

\* reap_domain's scrub of the endpoints where the dead task was parked.
Scrubbed(t) ==
    [o \in Oid |-> IF endpoints[o].state # "Idle" /\ endpoints[o].peer_task = t
                   THEN EP_EMPTY ELSE endpoints[o]]

MutantReaped(d) == [objects |-> objects, tables |-> tables]

MutantReapedAll(d) ==
    [objects |-> objects,
     tables |-> [e \in Domain |-> IF e = 0 THEN tables[0] ELSE EmptyCapTable]]

\* The capability state after domain d was reaped.
Reaped(d) ==
    [objects |-> objects, tables |-> [tables EXCEPT ![d] = EmptyCapTable]]

\* A restart: the capability state it leaves, the budget left, and whether
\* the caps for a new instance are there and pass the admission gate.  The
\* Memory half is granted first and is not taken back when the TimeSlice
\* half fails.
RestartWith(cs, mask) ==
    LET root == init_root(cs)
        mem  == IF root.ok
                THEN delegate_from_root(root.cs, FaultDomain, root.cptr, mask)
                ELSE root
        ts   == mint_timeslice(mem.cs)
    IN  [cs |-> ts.cs, restarts |-> restarts - 1,
         admit |-> mem.ok /\ ts.ok /\ admit_check(ts.cs, ts.cptr) = "Ok"]

MutantRestart(cs) == RestartWith(cs, {"INVOKE", "MAP"})

Restart(cs) == RestartWith(cs, {"INVOKE"})

MutantOnDomainDeath(d, cs) ==
    IF d # FaultDomain
    THEN [cs |-> cs, restarts |-> restarts, admit |-> FALSE]
    ELSE Restart(cs)

\* The supervisor; a domain it may not restart stays reaped.
on_domain_death(d, cs) ==
    IF d # FaultDomain \/ restarts = 0
    THEN [cs |-> cs, restarts |-> restarts, admit |-> FALSE]
    ELSE Restart(cs)

MutantFreeSlot(t) == Max(Task)

\* free_slot, once the dead task t has given up its own.
free_slot(t) == Min({u \in Task \ {0} : u = t \/ ~present[u]})

Fault ==
    LET t   == current
        d   == domain[t]
        sup == on_domain_death(d, Reaped(d))
        new == IF sup.admit THEN {free_slot(t)} ELSE {}
    IN  /\ Running
        /\ objects' = sup.cs.objects
        /\ tables' = sup.cs.tables
        /\ endpoints' = Scrubbed(t)
        /\ mapped' = mapped \ Pages(ledger[d])
        /\ ledger' = [ledger EXCEPT ![d] = <<>>]
        /\ restarts' = sup.restarts
        /\ present' = [u \in Task |-> u \in new \/ (u # t /\ present[u])]
        /\ domain' = [u \in Task |-> IF u \in new THEN FaultDomain
                                                  ELSE domain[u]]
        /\ blocked' = [u \in Task |-> u \notin new \cup {t} /\ blocked[u]]
        /\ inKernel' = [u \in Task |-> u \notin new /\ inKernel[u]]
        /\ staged' = [u \in Task |-> IF u \in new THEN NoResult ELSE staged[u]]
        /\ outcome' = [u \in Task |-> IF u \in new THEN NoResult
                                                   ELSE outcome[u]]
        /\ UNCHANGED <<notify, frames>>

-----------------------------------------------------------------------------

\* The steps that leave the CPU with the running task.
Stay ==
    \/ Resume
    \/ \E cptr \in Slot :
          \/ AllocFrame(cptr)
          \/ \E bits \in Word : notify_signal(cptr, bits)
          \/ notify_take(cptr)
          \/ extent_map(cptr)
          \/ devqueue_map(cptr)
          \/ \E xfer \in XferArgs : SendRefused(cptr, xfer)
          \/ \E msg \in Word, xfer \in XferArgs : SendMeets(cptr, msg, xfer)
          \/ RecvRefused(cptr)
          \/ RecvMeets(cptr)

\* A call that parks its caller.
Park ==
    \E cptr \in Slot :
        \/ \E msg \in Word, xfer \in XferArgs : SendParks(cptr, msg, xfer)
        \/ RecvParks(cptr)

Next ==
    \/ Stay /\ UNCHANGED cpuVars
    \/ Tick /\ Switch
    \/ Park /\ Switch
    \/ Fault /\ Switch

Spec == Init /\ [][Next]_vars

-----------------------------------------------------------------------------
(* What the kernel promises *)

\* Task t is the parked peer of endpoint o.
Parked(o, t) == endpoints[o].state # "Idle" /\ endpoints[o].peer_task = t

(***************************************************************************)
(* No lost and no stray wakeup: a task is off the run queue exactly when   *)
(* one endpoint, and only one, has it parked, so the partner that comes    *)
(* along will wake it; and what the endpoint recorded when it parked is    *)
(* still true: the task is there, suspended inside the kernel, and the     *)
(* recorded domain is its own.  (The endpoint scrub of reap_domain, the    *)
(* reuse of task slots and the stale fields an endpoint keeps when idle    *)
(* could each break it.)                                                   *)
(***************************************************************************)
ParkedIffBlocked ==
    /\ \A t \in Task : blocked[t] => \E o \in Oid : Parked(o, t)
    /\ \A o \in Oid, t \in Task : Parked(o, t) =>
          /\ blocked[t] /\ present[t] /\ inKernel[t]
          /\ t # 0 /\ t # current
          /\ endpoints[o].peer_domain = domain[t]
    /\ \A o, p \in Oid, t \in Task : Parked(o, t) /\ Parked(p, t) => o = p

(***************************************************************************)
(* A system call resolves its CPtrs in the table of the task that made it: *)
(* whatever switch came before (tick, park, fault, restart), the published *)
(* domain is the running task's, that task is alive, and no other live     *)
(* task shares the domain.                                                 *)
(***************************************************************************)
CallerIdentity ==
    /\ present[current] /\ currentDomain = domain[current]
    /\ \A t, u \in Task : present[t] /\ present[u] /\ domain[t] = domain[u]
                             => t = u

\* A step that reaps a domain.
ReapStep == present' # present \/ restarts' # restarts

CapsOf(tb) ==
    {tb[d][s] : d \in Domain, s \in Slot} \ {NoCap}

Unbadged(c) == [c EXCEPT !.badge = 0]

\* How many slots of all domains hold capability c, its badge aside.
Copies(tb, c) ==
    Cardinality({p \in Domain \X Slot :
        /\ tb[p[1]][p[2]] # NoCap
        /\ Unbadged(tb[p[1]][p[2]]) = Unbadged(c)})

MoveStep ==
    \/ ReapStep \/ UNCHANGED tables
    \/ \A c \in CapsOf(tables) \cup CapsOf(tables') :
          Copies(tables', c) = Copies(tables, c)

(***************************************************************************)
(* A rendezvous moves a capability, it never copies or loses one: across   *)
(* every step but a reap, each capability occupies as many slots of all    *)
(* the domains' tables afterwards as before, whether the grant succeeded,  *)
(* failed for want of DELEGATE or a full table, or none was asked for.     *)
(***************************************************************************)
GrantsMove == [][MoveStep]_vars

FrozenStep ==
    \A t \in Task : blocked[t] /\ blocked'[t] =>
        /\ tables'[domain[t]] = tables[domain[t]]
        /\ ledger'[domain[t]] = ledger[domain[t]]
        /\ staged'[t] = staged[t]
        /\ \A o \in Oid : Parked(o, t) => endpoints'[o] = endpoints[o]

(***************************************************************************)
(* A parked sender names the capability it grants by a slot number, read   *)
(* again at the rendezvous.  Nothing changes meanwhile: while a task stays *)
(* parked, its domain's table and mappings, the request staged in the      *)
(* endpoint and its own result fields all keep their values.               *)
(***************************************************************************)
ParkedStateFrozen == [][FrozenStep]_vars

DeliverStep ==
    \A t \in Task : inKernel[t] /\ ~blocked[t] =>
        /\ staged'[t] = staged[t]
        /\ inKernel'[t] \/ outcome'[t] = staged[t]

(***************************************************************************)
(* A woken task returns to ring 3 with the very result its waker staged:   *)
(* between the wake and the resume nobody stages another one, and the task *)
(* cannot be reaped or replaced.                                           *)
(***************************************************************************)
ResultDelivered == [][DeliverStep]_vars

\* Capability c is one boot granted outside the root, weakened at most, or a
\* restart's.
Authorised(c) ==
    \/ \E e \in Domain \ {0}, r \in Slot :
          LET b == BootCaps.tables[e][r]
          IN  /\ b # NoCap
              /\ b.object_id = c.object_id
              /\ c.rights \subseteq b.rights
    \/ /\ ~BootCaps.objects[c.object_id].present
       /\ c.rights = {"INVOKE"}

(***************************************************************************)
(* CAP_ABI.md I1, "no sequence of user operations yields authority not     *)
(* derivable from an initially granted cap", across IPC, faults and        *)
(* restarts: a capability outside the root domain is one boot granted to   *)
(* some domain, with no more rights, or the INVOKE-only capability of a    *)
(* restart to an object boot did not have.                                 *)
(***************************************************************************)
AuthorityFromBoot ==
    \A d \in Domain \ {0}, s \in Slot :
        tables[d][s] # NoCap => Authorised(tables[d][s])

\* The domains that had a task at boot.
Staffed == {BootDomain[t] : t \in BootTasks} \cup {FaultDomain}

Alive(d) == \E t \in Task : present[t] /\ domain[t] = d

(***************************************************************************)
(* A domain whose task died and was not restarted "stays reaped": it holds *)
(* no capability, no mapping, and no place at an endpoint, and nobody      *)
(* hands it one later.                                                     *)
(***************************************************************************)
DeadDomainPowerless ==
    \A d \in Staffed : ~Alive(d) =>
        /\ tables[d] = EmptyCapTable
        /\ ledger[d] = <<>>
        /\ \A o \in Oid : endpoints[o].state # "Idle"
                             => endpoints[o].peer_domain # d

RestartStep ==
    restarts' # restarts =>
        /\ \A s \in Slot : tables'[FaultDomain][s] # NoCap =>
              /\ tables'[FaultDomain][s].type_tag = "Memory"
              /\ tables'[FaultDomain][s].rights = {"INVOKE"}
              /\ tables'[FaultDomain][s].object_id \in FreeOids(objects)
        /\ ledger'[FaultDomain] = <<>>
        /\ restarts' = restarts - 1
        /\ \A t \in Task : present'[t] /\ domain'[t] = FaultDomain
              => ~blocked'[t] /\ ~inKernel'[t]

(***************************************************************************)
(* A restarted domain starts afresh: one unit of budget is spent, and the  *)
(* new instance holds nothing but an INVOKE-only capability to a brand new *)
(* Memory object, however much its predecessor had been granted or had     *)
(* mapped.                                                                 *)
(***************************************************************************)
RestartIsFresh == [][RestartStep]_vars

(***************************************************************************)
(* The mapping ledger is exact: every user page that is mapped is recorded *)
(* once, under one domain, so the death of that domain, and of no other,   *)
(* unmaps it, also after a DQ_MAP that failed half way.                    *)
(***************************************************************************)
LedgerExact ==
    /\ mapped = UNION {Pages(ledger[d]) : d \in Domain}
    /\ \A d, e \in Domain : \A i \in DOMAIN ledger[d], j \in DOMAIN ledger[e] :
          ledger[d][i] = ledger[e][j] => d = e /\ i = j

=============================================================================
