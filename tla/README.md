# Cairn in TLA+

Specifications of the Cairn microkernel: its capability tables, the running
kernel (system calls, blocking IPC, scheduling, crash-only restart), its page
tables and frame allocators, its block driver and its object store. TLC checks
them on small instances; TLAPS proves the main safety properties for every value
of the constants.

## The system and what models it

| Part | Source | Module | Status |
|---|---|---|---|
| object and capability tables | `crates/cap-core/src/{table,capability}.rs` | `CapCore` (operators), `CapTables` (any sequence of calls) | modelled |
| capability spaces, boot objects | `kernel/src/capspace.rs` | `CapSpace` | partly: boot's revocation demos left out |
| system calls, notifications, mappings | `capspace.rs`, `syscall.rs` | `Kernel` | modelled |
| endpoint rendezvous, capability transfer | `capspace.rs` | `Kernel`; `Rendezvous` is the promise, `KernelChannel` the mapping | modelled |
| scheduler, block and wake | `sched.rs`, `apic.rs` | `Kernel` (open choice), `KernelEdf` (EDF) | modelled |
| crash-only supervision | `sched.rs`, `supervisor.rs`, `interrupts.rs` | `Kernel` (`Fault`) | modelled |
| object store | `objstore.rs` | `ObjStore`; `DurableRoot` is the promise | modelled |
| virtio-blk driver | `virtio_blk.rs` | `VirtQueue`; `BlockDevice` is the promise | modelled |
| hand-over of the queue, ring-3 block driver | `main.rs`, `user.rs`, `capspace.rs` | `DeviceQueue` (extends `VirtQueue`) | modelled |
| frame allocators | `memory.rs`, `crates/frame-alloc` | `FrameAlloc`, `BitmapAlloc`; `FramePool` is the promise of both, `FrameMirror` runs them side by side | modelled |
| page tables, W^X, stack guard | `paging.rs`, `interrupts.rs`, `user.rs` | `Paging`; `AddressSpace` is the promise | partly: two functions nobody calls are left out |
| TimeSlice admission | `sched.rs`, `capspace.rs` | restart path in `Kernel` | partly |
| boot, interrupts, APIC, other user blobs | `main.rs`, ... | as far as the modules above need them | partly |
| PCI, serial, heap | `pci.rs`, `serial.rs`, `memory.rs` | - | not modelled: register I/O, output, one-time setup |

How they interact: the kernel resolves every system call in the caller's
capability table (`Kernel` over `CapSpace` over `CapCore`). X_MAP and DQ_MAP
record the pages they lend in a ledger (`Kernel`), and `Paging` has the same
calls down to the table entries. The store talks to the block layer; `ObjStore`
uses the outcomes that `BlockDevice` allows, and `VirtQueue` shows that the
driver keeps to it. Paging, the driver and the store take frames from the
allocator of `FrameAlloc`.

### Capabilities: CapCore, CapTables, CapSpace

A capability is a record (object, rights, epoch, type, badge); a table is a
function from slots to capabilities or `NoCap`; rights are a set of names.
Every Rust function is an operator of the same name that maps tables to tables
and a status. `CapTables` lets several holders call them in any order and keeps
two history variables: `gen`, how often an object id was revoked, and `lineage`,
the generation and rights of a capability's minted ancestor. `CapSpace` has the
domains' tables, the boot-time constructors and `do_cap_transfer`.

### The running kernel: Kernel, KernelEdf

The kernel runs on one CPU with interrupts off, so a system call or a fault is
one step. The exception is a call that parks its caller: it ends where the CPU is
handed over (`SendParks`, `RecvParks`) and is finished by `Resume` when the task
runs again. Ring-3 code is arbitrary: the running task may make any call, be
preempted (`Tick`) or fault (`Fault`). `Fault` is the whole of
`terminate_current`: free the slot, reap the domain (table, endpoints, mappings),
restart it if it is the faulter and has budget, and switch.

State: `objects`/`tables` are OBJECTS and DOMAINS; `endpoints`, `notify`,
`ledger` are ENDPOINTS, NOTIFY, DOMAIN_MAPS; `present`, `domain`, `blocked`,
`staged` are fields of SCHED's tasks; `current`, `currentDomain` are
SCHED.current and CURRENT_DOMAIN; `restarts` is FAULTER_RESTARTS. `inKernel` says
that a task's saved context is inside `block_current`; `outcome` is what its
last endpoint call returned. Calls refused before they change anything, and
methods that only answer, are stuttering steps.

`KernelEdf` adds deadlines, kept as the distance from now in ticks, and replaces
the open choice by `roll_deadlines` and `pick_next`.

### Frames: FrameAlloc, BitmapAlloc, FrameMirror

`FrameAlloc` is the fixed array of ranges of `memory.rs`: `init` from a memory
map of entries in bytes, allocation of the lowest frame, `free` with `coalesce`,
and the one client that gives a frame back, `load_extent`. `held` and `lost` are
histories; `lost` collects what `free` drops when no slot of the array is left.
`BitmapAlloc` is the bitmap of the crate, a word being the set of its bits.
`FrameMirror` marks the frames of the booted range list free in a bitmap, one by
one as the crate asks of its caller, and makes every call of both.
`FramePool` is a set of free frames that may lose one only when it already has
as many runs of adjacent frames as the array has slots.

### The block driver: VirtQueue, DeviceQueue

The driver and the device share a request frame and two ring indices. `submit`
publishes one request and polls with interrupts off; the device fetches requests,
completes them, with or without an error, and writes back its cache at its own
pace, so that it may answer after the driver gave up. A timeout disables the
device for the kernel. `BlockDevice` is the layer callers rely on.

`DeviceQueue` runs a boot over that queue: smoke test and store, the seeding of
the scratch sector, DQ_SUBMIT, the sentinel, and the ring-3 driver of `user.rs`,
instruction by instruction as far as it touches the rings. DQ_SUBMIT may time out
and leave its read with the device when the driver takes over.

### Page tables: Paging

Tables are named by their frames, a page is the sequence of its indices, and
every call walks and changes entries as `paging.rs` and the mapper of the
`x86_64` crate do: missing tables are made one by one (and stay when a later one
cannot be made), USER is set on the tables above a user page, an unmapping
flushes. The processor may keep one translation, of any page in `Watched`, until
it is flushed. Boot's mappings happen in boot's order; then X_MAP, DQ_MAP, faults
of the kernel and reaps in any order.

`PagingAssumption` says what the kernel is started on. The boot loader's tables
form a tree, apart from the free frames. An entry of theirs is a table that
denies neither writing nor execution, or a page that ring 3 may not reach; a huge
page is outside ring 3's half. Device windows, and the frames that X_MAP and
DQ_MAP lend, are neither tables nor free (`map_user_phys` does not allocate). The
guard is no device or user page. TLC evaluates the assumption on the tables of
the run.

### The object store: ObjStore

A disk of sectors under a volatile write-back cache. The steps are those of a
boot (smoke test, `mount`, format, `recover`, puts, scratch seed); `put` is one
step per device request. At any moment the device may write back any cached
sector, the machine may reset, or the power may fail, which loses the cache and
tears any of the sectors in it. A failed write may or may not have arrived; a
timeout disables the device. FNV-1a is taken as collision free.

## What the runs check

| Run | Properties | Shows |
|---|---|---|
| `cap_tables` | `RevocationComplete`, `NoAmplification`, `SlotsOnlyWeaken` | any sequence of calls by two holders, one object being destroyed and its id reused: revocation of the other is complete, rights never grow, occupied slots are never overwritten |
| `kernel_ipc` | `ParkedIffBlocked`, `AuthorityFromBoot`, `DeadDomainPowerless` | client, server, restartable faulter: no lost wakeup, no new authority, a dead domain holds nothing |
| `kernel_peers` | `TypeOK`, `CallerIdentity`, `GrantsMove`, `ParkedStateFrozen`, `ResultDelivered`, `ImplementsRendezvous` | two granting peers, one with an almost full table: grants move capabilities, parked requests stay frozen, results reach their task, calls resolve in the caller's table, the endpoint implements `Rendezvous` |
| `kernel_maps` | `LedgerExact`, `RestartIsFresh` | the ledger is exact, also after a DQ_MAP that failed half way; a restart inherits nothing |
| `kernel_edf` | `EdfTypeOK`, `ImplementsKernel`, `ForemostRuns` | EDF implements `Kernel`'s open choice; the first ready task is not starved |
| `frame_alloc` | `TypeOK`, `FramesAccounted`, `MirrorAgrees`, `ImplementsPool`, `BitmapImplementsPool` | no frame is duplicated, invented or forgotten; range list and bitmap implement the pool and answer alike until a free finds no slot |
| `device_queue` | `TypeOK`, `CompletionIsOwn`, `DriverCompletionIsOwn`, `HonestMatch`, `DriverReadsSeed`, `CallsReturn`, `DriverReports`, `ImplementsBlockDevice` | completions belong to their requests across timeouts and index wraps, for the kernel's driver and the ring-3 one; every call returns and the ring-3 driver always reports; a matching report is honest |
| `paging` | `TypeOK`, `TablesFormTree`, `WriteXorExecute`, `TlbCoherent`, `GuardHolds`, `ImplementsAddressSpace` | with frames running out at different points: tables stay a tree apart from free memory, no frame is writable through one page and executable through another, no stale translation, the stack guard stays unmapped, calls do just what they answer |
| `obj_store_puts` | `TypeOK`, `RootIntact`, `CommittedSlotKept`, `ImplementsDurableRoot` | two puts per boot, failing writes and flushes, timeouts, resets and power losses: the store implements `DurableRoot` |

The store run has three conditions: reads do not fail; a put that failed is not
followed by another put of the same boot; the log does not reach the scratch
sectors, which lie just past it. The first two are shown to be needed by runs
below, the third by a configuration kept for reference.

### Where the code and its documentation disagree

| Run | Disagreement |
|---|---|
| `kernel_edf_woken` | "EDF picks the woken task on a later tick" fails when a busy task of lower index has the same deadline. |
| `obj_store_flush` | a put after a put whose last flush failed overwrites data the newer superblock may already name. `main.rs` makes one put per boot. |
| `obj_store_read` | with one slot unreadable, `mount` takes the other; the next put overwrites the unreadable one, which may be the latest. |

Four more configurations find a property violated and are kept for reference;
they are further from anything the kernel does today:

- `CapTablesWrap.cfg` (`MCCapTables`, `RevocationComplete`): `CAP_ABI.md:87` says
  ids are retired when the epoch wraps; `revoke` just wraps. It takes 2^32
  revocations of one object.
- `KernelLeak.cfg` (`MCKernel`, `DeadDomainPowerless`): a restart whose TimeSlice
  half fails leaves the Memory capability in the dead domain, of which
  `supervisor.rs:37` says "Otherwise it stays reaped." It takes a full root table;
  boot's budget of 2 restarts does not fill it.
- `ObjStoreSmoke.cfg` (`MCObjStore`, `RootIntact`): `put` has no upper limit, so
  the log eventually reaches the scratch sectors, which the smoke test and the
  driver demo overwrite at every boot. `virtio_blk.rs:499-500` says the smoke test
  "must NOT scribble anywhere the log can reach". With two sectors per boot that
  is after about 16000 boots on the 16 MiB disk.
- `DeviceQueueTimeout.cfg` (`MCDeviceQueue`, `TimeoutIsMismatch`): `user.rs:142-143`
  says of a timeout "we still report, so the proof line always prints, just
  match=false"; a device that answers between the last poll and the read makes
  it match. The report is honest all the same (`HonestMatch`).

Two smaller ones have no configuration. `memory.rs:236` says "Align outward for
safety", and the code rounds inward, which is what is safe. `create_object`
restarts a reused id at epoch 0, so a capability revoked before its object was
destroyed is accepted again for the next one; the kernel never destroys objects,
and `RevocationComplete` speaks of ids that are not destroyed.

### Bounds

- `CapTables`: two holders, two slots each, two objects, two epochs: enough for a
  delegation chain across holders, a full table and a stale epoch.
- `Kernel`: three or four tasks including idle, one endpoint, one message bit,
  one or two restarts. Two parties make a rendezvous and the third is the
  bystander or the faulter. Tables are sized so that a grant finds one full.
- `KernelEdf`: periods of 2 and 3 ticks, so that deadlines tie and differ.
- `FrameMirror`: 8 frames of 2 bytes, 3 ranges, words of 3 bits (so the last word
  has a bit beyond `FRAMES`), four memory maps: one block, unaligned blocks,
  adjacent blocks out of order, blocks smaller than a frame. Three ranges are
  enough for a free that merges two, and for one that finds no slot.
- `DeviceQueue`: indices modulo 4, so that they wrap within a boot; one failed
  poll of the kernel and two of the driver, so that either can time out; two
  sectors, the scratch sector and one more; a device with and without a write
  cache, and one that `init` turns down.
- `Paging`: four levels of two entries; pools of 0, 3, 5 and 14 frames, the last
  enough for everything and the others failing at different tables; two device
  windows that share a page, two ring-3 images, two lent windows of one and two
  pages. The TLB keeps one translation, of the guard or of a page of each window.
- `ObjStore`: two objects, superblocks up to sequence number 3 (format and two
  commits: both slots have been used and one reused), and a log that reaches the
  end of the device. `Unlike` has an empty object and one of two sectors, `Alike`
  two of one sector.

### Fairness

- `KernelEdf`: `SF(EdfTick)`, the periodic timer keeps firing and a tick that
  finds interrupts off stays pending; `WF(EdfResume)`, kernel code that has the
  CPU runs on. Nothing is assumed of ring-3 code.
- `VirtQueue`, `DeviceQueue`: `WF(Poll)`, the poll is a loop of the boot thread
  with a bound; `WF(Driver)`, the ring-3 driver has the shortest period of all
  tasks and so has the earliest deadline again and again. Nothing is assumed of
  the device, which may stay silent for ever.

### Mutants

A definition `Mutant...` is a wrong variant of the one that follows it, such as a
dropped guard or a missing reset. No specification uses it. Each property of a
passing run is paired in `PROJECT.json` with a mutant; with the mutant in place
of the original TLC must find the property violated, which shows that the
property depends on what the code does.

## What is proved

For any table sizes, number of domains and tasks, and any boot state that satisfies
`BootAssumption`:

- `CapTablesProofs`: `TypeCorrect`, `RightsNeverAmplify`, `SlotsNeverOverwritten`;
  `RevocationIsComplete` under `MaxRevokes < EpochMod`, for ids outside
  `Destroyable`, by the invariant that such an object's epoch is its number of
  revocations.
- `KernelProofs`: `TypeCorrect`, `NoLostWakeup` (`ParkedIffBlocked`),
  `CallsAreAttributed` (`CallerIdentity`), `NoAmbientAuthority`
  (`AuthorityFromBoot`). `ParkedIffBlocked` is not inductive alone: a wake is only
  right if the endpoint's peer is a live task of the recorded domain, which needs
  that domains are not shared and that the running task is not parked. Hence
  `IInv == TypeOK /\ ParkRest /\ DomainsApart /\ CpuOK`. `AuthorityFromBoot`
  adds `AInv`.
- `KernelReapProofs`, all on top of `IInv`:
  - `LedgerStaysExact` (`LedgerExact`), for a ledger with room for every user page
    (`DqPageCount + 1 <= MaxMaps`; 6 and 8 in the code) and a boot that records no
    page twice. An exact ledger has no repetition, so by the pigeonhole principle
    it is not full while a page is left to map, and `record_domain_map` never
    drops one.
  - `ParkedStayFrozen` (`ParkedStateFrozen`), `StagedResultsArrive`
    (`ResultDelivered`), `RestartsStartAfresh` (`RestartIsFresh`): a step touches
    only the running task, its domain, and at a rendezvous the one peer it wakes.
    The first two need the invariant `Inside`: a task suspended in `block_current`
    still has its task slot, so that a restart does not take it.
  - `DeadStayPowerless` (`DeadDomainPowerless`), when the restartable domain has a
    task at boot and boot leaves two free root slots and two free object ids for
    each restart of the budget (`RestartsFit`). The invariant adds `Room`, which
    says the same of the budget that is left: no restart then fails half way.
    `KernelLeak.cfg` shows that without the room the property fails.
  - `GrantsOnlyMove` (`GrantsMove`): the places that hold a capability are as many
    after a transfer as before, since one is vacated and one that was free is
    taken.
  - `EndpointsRendezvous` (`ImplementsRendezvous`): one lemma per branch of
    `ep_send` and `ep_recv` shows that it is a `Post`, `Meet` or `Refuse` of
    `Rendezvous`. By `ParkRest` a parked task waits at one endpoint, which holds
    its request, so a rendezvous ends the requests of exactly the two tasks that
    meet; a fault renews at most one slot, of a task that waits for nothing.
  - `EdfKeepsPromises`: through `EdfRefinesKernel` (`KernelProofs`, with
    `EdfTypeCorrect`), whatever holds of `Kernel` without conditions holds under
    EDF, the rendezvous included.
- `FrameAllocProofs`: `FrameTypes` (`TypeOK`), `FramesAreAccounted`
  (`FramesAccounted`) and `RangeListIsPool` (`ImplementsPool`), for any number of
  slots, any page size and any memory maps, overlapping and unsorted ones
  included, with no more entries than slots (`FrameAssumption`; the comment on
  `MAX_REGIONS` says so). The two properties are not inductive: a list may hold
  the right frames in ranges that touch, and then a freed frame is dropped
  although its run would fit. `Inv` adds `Tidy`: no range is empty, and any two
  have a frame between them that is on neither. Then a full list has as many runs
  as slots (`FullListRuns`, a bijection), and the lowest range holds the lowest
  frame. `coalesce` makes any list tidy: the ranks of the ranges in use are the
  numbers from 1 up (`Ranks`), so sorting loses none, and each round of the merge
  keeps `Joined`, that the output is tidy and has the frames seen so far.
  For the bitmap by itself, `BitmapTypeCorrect` and `BitmapIsPool`, for every
  number of frames, every word width and any arguments: bits beyond `FRAMES` stay 0
  and the bitmap implements `FramePool`. For the two side by side
  (`MirrorAssumption`: the bitmap is as large as the memory): `MirrorRunsList`,
  that the first three theorems hold there too; `BitmapMirrorsList`
  (`MirrorAgrees`); and `MirrorIsPool` (`BitmapImplementsPool`). `MirrorAgrees`
  says nothing once a frame was lost, and a failed load then still has to find a
  frame in both. So the invariant `MirrorInv` adds to `Inv` that the frames of the
  range list are always among the free ones of the bitmap, and the same ones until
  one was lost. That the two counts agree rests on `SumCounts`: a loop that
  adds up the sizes of disjoint sets counts their union.
- `PagingProofs`, for any number of levels and entries, any frames, and any boot
  tables, boot calls and windows that `PagingAssumption` allows: `TypeCorrect`,
  `TablesStayTree` (`TablesFormTree`), `NeverWriteAndExecute`
  (`WriteXorExecute`), `TlbStaysCoherent` (`TlbCoherent`), `GuardStaysUnmapped`
  (`GuardHolds`) and `TablesImplementSpace` (`ImplementsAddressSpace`). All rest on
  one invariant, `Inv`. The properties speak of walks, and a change of one entry
  must be followed through all of them, so the tree is described from the tables'
  side: `Tree(pt, spare, T, D, P, U)` says that each table `f` in `T` has a depth
  `D[f]` and a path `P[f]` from the root, that an entry of it is absent, a table
  one level down whose path extends its own, or a page that is neither a table
  nor spare, and that `U` are the tables ring 3 may pass. From this every walk is
  known: it ends in the one table of `T` that lies on the page's path and does not
  lead further (`StopExists`). Then three changes are followed: an entry
  opened to ring 3 leaves every walk as it was; a new table in an absent entry
  extends `T`; and a leaf changes the walk of its own page and no other. The
  descent of the mapper, the calls, and the loops over the requests are put
  together from them. `Inv` further has that a pool frame is the page of one entry
  at most and a user page that may be written is not executable (together they give
  W^X of the memory), that the ledger names each of its pages once and all of them
  are mapped (else a reap would not remove just its pages), and that the TLB
  agrees with the tables.
- `VirtQueueProofs`: `QueueTypeCorrect`, `PreciseTarget` (`CompletionIsOwn`) and
  `DriverIsBlockDevice` (`ImplementsBlockDevice`), for any disk and any index width
  above 2. The invariant `QueueInv` says that the one request there may be is in
  the ring, with the device, or done; that a present device is idle between calls
  (a timeout makes it absent); and that a completed read has put the sector into
  the buffer.
  For the boot with its ring-3 driver (`QueueSpec`), under `DriverAssumption`:
  `BootTypeCorrect`, `BootPreciseTarget`, `DriverTarget`
  (`DriverCompletionIsOwn`), `MatchIsHonest` (`HonestMatch`), `DriverSeesSeed`
  (`DriverReadsSeed`) and `BootIsBlockDevice`. `BootInv` has a part for each
  phase. Up to the hand-over `QueueInv` holds, and a seeding write that completed
  well has put the magic into the scratch sector. While the driver runs, at most
  two requests are outstanding, both reads of the scratch sector: the kernel's
  late one and the driver's own; the driver's target is the index after both, and
  the buffer holds the sentinel until a read overwrites it. Afterwards the device
  may still work on what is left. `BootInv` also says that a device without a
  write cache has nothing cached; else a write that goes straight to the disk
  could stay hidden behind a cached sector.
- `ObjStoreProofs`: `StoreTypes` (`TypeOK`) without conditions;
  `RootAlwaysIntact` (`RootIntact`), `CommittedSlotIsKept` (`CommittedSlotKept`)
  and `StoreIsDurableRoot` (`ImplementsDurableRoot`) for any objects, disk and
  number of puts under `Steady(m)`: no read fails, no put follows a failed one in
  a boot, no object has more than `m` sectors, and `MaxSeq` records of `m + 1`
  sectors end below the scratch sectors. These are the conditions of the run, and
  the violation runs above show that they are needed. The invariant has two layers.
  `SlotInv` is about the two slots on the disk and in the cache: at most one
  superblock is not on the disk yet, it is the later one and not in the slot of
  the earlier, log heads grow with sequence numbers, and every root a mount could
  find is settled (on the disk, not just in the cache) and ends below the log head.
  `RunInv` says what the running `mount` or `put` has done so far, at each of its
  steps.

`CapCoreProofs` holds the lemmas about the operators of `CapCore`; those about
`CapSpace` are the first part of `KernelProofs`. The instances of `kernel_ipc`,
`kernel_peers` and `kernel_maps` satisfy the extra assumptions of
`KernelReapProofs`, and that of `obj_store_puts` satisfies `Steady(2)`. Zenon is
the default prover of every module (`USE Zenon`); leaves it cannot do cite SMT.

Only model-checked: liveness (`ForemostRuns`, `CallsReturn`, `DriverReports`),
which is out of the prover's reach. So are the library's induction theorems, which
take an operator. `FrameAllocProofs` and `PagingProofs` do without: they prove
induction for a set of numbers from the well-foundedness of `<` (`InductionTo`),
and from it that a loop is a function (`LoopExists`, `LoopedIs`), which
gives the loops of `memory.rs`, of the bitmap and of `paging.rs` their equations.
For this the models write loops as recursive functions rather than as folds.

## Not modelled

- Machine-level detail: register frames, `swapgs`, the GDT, cache attributes,
  virtio register programming, PCI enumeration, the serial console, heap setup.
- `map_one_page` and `dump_walk` of `paging.rs`, which nothing calls.
- The frames, up to three, that virtio `init` keeps when it takes some and then
  fails, and queues of fewer than three entries, which the driver does not expect.
- DQ_SUBMIT while the ring-3 driver runs: `capspace.rs:1051-1053` rules it out, boot
  makes the call once, before the hand-over, and `DeviceQueue` has that order.
- The revocation of a TimeSlice after its task was admitted: the code checks it
  at admission only.
- Boot's printed self-tests.
- A survivor parked on an endpoint whose partner died waits for ever;
  `docs/CRASH_ONLY.md:62-66` documents it and no property claims otherwise.

## Plan

1. `ObjStore` composed with `BlockDevice` by INSTANCE rather than by its outcomes.
