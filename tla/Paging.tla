------------------------------- MODULE Paging -------------------------------
(***************************************************************************)
(* kernel/src/paging.rs: the page tables of the one address space, over    *)
(* what the boot loader built, with the calls the kernel makes of it: the  *)
(* stack guard, the page-fault backstop, device windows, ring-3 images,    *)
(* and the pages that X_MAP and DQ_MAP lend to a domain until it dies.     *)
(*                                                                         *)
(* A page is the sequence of its table indices, the root's first.  A table *)
(* is named by its frame.  The x86_64 crate's mapper and the processor's   *)
(* walk and TLB are external.  NO_CACHE, and what pages contain, are left  *)
(* out.                                                                    *)
(*                                                                         *)
(* A definition named Mutant... is a deliberately wrong variant of the one *)
(* below it; the specification does not use it (see README.md).            *)
(***************************************************************************)
EXTENDS Integers, Sequences, FiniteSetsExt

CONSTANTS
    Levels,         \* levels of tables (4)
    Index,          \* entries of a table (512)
    NoEntry,        \* an entry that is not present
    Cr3,            \* the root table
    BootTables,     \* the tables the boot loader may leave: frame -> entries
    Pools,          \* the free frames there may be
    Guard,          \* the page below the kernel stack
    KernelVa,       \* the window of the page-fault backstop
    UserVa,         \* the pages of ring 3
    DeviceFrame,    \* the frame of each device page
    BootCalls,      \* what boot maps, in order: device windows, the local
                    \* APIC's page, and the code and stack of ring-3 images
    Windows,        \* what X_MAP and DQ_MAP map: pages, frames and writability
    Watched         \* bound: the pages whose translation the TLB may keep

Va == [1 .. Levels -> Index]

Pte(frame, user, write, nx, huge) ==
    [frame |-> frame, user |-> user, write |-> write, nx |-> nx, huge |-> huge]

Entry(frame, user, write, nx) == Pte(frame, user, write, nx, FALSE)

Entries == [frame : Nat, user : BOOLEAN, write : BOOLEAN, nx : BOOLEAN,
            huge : BOOLEAN]

EmptyTable == [i \in Index |-> NoEntry]

Frame == UNION Pools \cup UNION {DOMAIN pt : pt \in BootTables}

\* The memory that boot finds.
BootPte == {[f \in Frame |-> IF f \in DOMAIN pt THEN pt[f] ELSE EmptyTable] :
               pt \in BootTables}

VARIABLES
    pte,        \* the tables, by frame
    free,       \* free frames
    lost,       \* history: frames taken for a page that could not be mapped
    tlb,        \* one translation the processor may hold
    armed,      \* the stack guard is in place
    ledger,     \* pages lent to the domain, DOMAIN_MAPS
    todo,       \* the calls boot has still to make
    phase,      \* "boot", "up" or "halted"
    answer      \* the last call and what it returned

vars == <<pte, free, lost, tlb, armed, ledger, todo, phase, answer>>

\* What a call works on.
mem == [pte |-> pte, free |-> free, lost |-> lost]

-----------------------------------------------------------------------------
(* The processor *)

\* The rights of an entry below what the walk has met so far.
Through(s, e) ==
    [e EXCEPT !.user = @ /\ s.user, !.write = @ /\ s.write, !.nx = @ \/ s.nx]

IsTable(s) == s # NoEntry /\ ~s.huge

\* One level down, from entry s.  A huge page ends the walk.
Down(pt, s, i) ==
    IF ~IsTable(s) THEN s
    ELSE IF pt[s.frame][i] = NoEntry THEN NoEntry
    ELSE Through(s, pt[s.frame][i])

\* Where the walk for va stands after each level: nowhere, or at the entry it
\* read.  (The set gives the last step a name, so that TLC evaluates it once.)
Steps(pt, va) ==
    LET S[k \in 0 .. Levels] ==
            IF k = 0 THEN Entry(Cr3, TRUE, TRUE, FALSE)
            ELSE CHOOSE t \in {Down(pt, s, va[k]) : s \in {S[k - 1]}} : TRUE
    IN  S

\* The translation of va, if it has one.
Walk(pt, va) == Steps(pt, va)[Levels]

\* The last table on the way to va, if it is there.
HasLeaf(pt, va) == IsTable(Steps(pt, va)[Levels - 1])

LeafTable(pt, va) == Steps(pt, va)[Levels - 1].frame

\* The tables of the tree, each with the path that leads to it.
Reached(pt) ==
    {<<Steps(pt, p[1])[p[2]].frame, [j \in 1 .. p[2] |-> p[1][j]]>> :
        p \in {q \in Va \X (0 .. Levels - 1) : IsTable(Steps(pt, q[1])[q[2]])}}

IsTree(pt) == \A p, q \in Reached(pt) : p[1] = q[1] => p = q

\* What the boot loader leaves in the entry that the walk for va reads at level
\* k: a table of its own, open to writing and execution below, or a page of
\* the kernel's, outside the tables and the pools.  Only the lower levels of
\* ring 3's half may be in use, by tables.
LoaderEntry(e, va, k) ==
    IF k < Levels /\ ~e.huge
    THEN e.write /\ ~e.nx /\ e.frame \in Frame \ UNION Pools
    ELSE /\ ~e.user /\ e.frame \notin Frame
         /\ k < Levels => e.write /\ va \notin UserVa

\* The kernel runs over tables that form a tree apart from the free frames.
\* Device windows, and the frames lent to ring 3, are neither.  The guard is
\* a page of the kernel's own.
ASSUME PagingAssumption ==
    /\ Levels \in Nat \ {0}
    /\ Frame \subseteq Nat /\ NoEntry \notin Entries
    /\ Cr3 \in Frame \ UNION Pools
    /\ \A pt \in BootPte :
          /\ pt \in [Frame -> [Index -> Entries \cup {NoEntry}]]
          /\ IsTree(pt)
          /\ \A va \in Va, k \in 1 .. Levels :
                LET s == Steps(pt, va)[k - 1]
                IN  IsTable(s) /\ pt[s.frame][va[k]] # NoEntry =>
                        LoaderEntry(pt[s.frame][va[k]], va, k)
    /\ Guard \in KernelVa /\ KernelVa \subseteq Va /\ Watched \subseteq Va
    /\ UserVa \subseteq Va \ {Guard}
    /\ DOMAIN DeviceFrame \subseteq Va \ {Guard}
    /\ \A va \in DOMAIN DeviceFrame : DeviceFrame[va] \in Nat \ Frame
    /\ BootCalls \in Seq([call : {"range", "lapic"},
                          pages : Seq(DOMAIN DeviceFrame)]
                         \cup [call : {"image"}, code : UserVa, stack : UserVa])
    /\ Windows \subseteq Seq([va : UserVa, phys : Nat \ Frame, write : BOOLEAN])

NoTranslation == [va |-> <<>>, to |-> NoEntry]

\* invlpg for each of the pages.
Flushed(vas) == IF tlb.va \in vas THEN NoTranslation ELSE tlb

-----------------------------------------------------------------------------
(* paging.rs; a call returns ok and the memory it leaves. *)

Fails(m) == [ok |-> FALSE, m |-> m]

MutantAllocate(m) == [frame |-> Min(m.free), m |-> m]

\* KernelFrames::allocate_frame, when there is a frame.
allocate_frame(m) ==
    [frame |-> Min(m.free), m |-> [m EXCEPT !.free = @ \ {Min(m.free)}]]

\* Entry i of table t, set to e.
Put(m, t, i, e) == [m EXCEPT !.pte[t][i] = e]

\* One level of the mapper's descent, to a table that may have to be made.
create_next_table(s, i, user) ==
    LET e == s.m.pte[s.table][i]
        a == allocate_frame(s.m)
    IN  CASE ~s.ok -> s
          [] s.ok /\ e = NoEntry /\ s.m.free = {} -> [s EXCEPT !.ok = FALSE]
          [] s.ok /\ e = NoEntry /\ s.m.free # {} ->
                [ok |-> TRUE, table |-> a.frame,
                 m  |-> Put([a.m EXCEPT !.pte[a.frame] = EmptyTable],
                            s.table, i, Entry(a.frame, user, TRUE, FALSE))]
          [] s.ok /\ e # NoEntry ->
                [ok |-> ~e.huge, table |-> e.frame,
                 m  |-> Put(s.m, s.table, i,
                            Pte(e.frame, e.user \/ user, TRUE, e.nx, e.huge))]

\* The descent to the last table, level by level.
Descent(m, va, user) ==
    LET d[k \in 0 .. Levels - 1] ==
            IF k = 0 THEN [ok |-> TRUE, table |-> Cr3, m |-> m]
            ELSE create_next_table(d[k - 1], va[k], user)
    IN  d

\* The leaf must be unused; tables made on the way stay.
map_to_with_table_flags(m, va, entry, user) ==
    LET d == Descent(m, va, user)[Levels - 1]
        i == va[Levels]
    IN  IF ~d.ok THEN Fails(d.m)
        ELSE IF d.m.pte[d.table][i] # NoEntry THEN Fails(d.m)
        ELSE [ok |-> TRUE, m |-> Put(d.m, d.table, i, entry)]

\* The tables down to the leaf must be there; the entry gets a fresh frame.
manual_map(m, va) ==
    LET t == LeafTable(m.pte, va)
        a == allocate_frame(m)
    IN  IF ~HasLeaf(m.pte, va) THEN Fails(m)
        ELSE IF m.pte[t][va[Levels]] # NoEntry THEN [ok |-> TRUE, m |-> m]
        ELSE IF m.free = {} THEN Fails(m)
        ELSE [ok |-> TRUE, m |-> Put(a.m, t, va[Levels],
                                     Entry(a.frame, FALSE, TRUE, FALSE))]

\* The backing frame is not freed.
unmap_page(m, va) ==
    IF ~HasLeaf(m.pte, va) THEN Fails(m)
    ELSE [ok |-> TRUE,
          m  |-> Put(m, LeafTable(m.pte, va), va[Levels], NoEntry)]

DeviceEntry(va) == Entry(DeviceFrame[va], FALSE, TRUE, TRUE)

map_mmio(m, va) == map_to_with_table_flags(m, va, DeviceEntry(va), FALSE)

\* translate_page: a 4 KiB mapping exists.
translate_page(m, va) ==
    HasLeaf(m.pte, va) /\ m.pte[LeafTable(m.pte, va)][va[Levels]] # NoEntry

\* One round of map_mmio_range.
RangePage(m, va) ==
    IF translate_page(m, va) THEN [ok |-> TRUE, m |-> m] ELSE map_mmio(m, va)

\* A frame is taken first, and not given back if the page cannot be mapped.
map_user_page(m, va, writable, exec) ==
    LET a == allocate_frame(m)
        r == map_to_with_table_flags(
                 a.m, va, Entry(a.frame, TRUE, writable, ~exec), TRUE)
    IN  IF m.free = {} THEN Fails(m)
        ELSE IF r.ok THEN r
        ELSE Fails([r.m EXCEPT !.lost = @ \cup {a.frame}])

MutantUserPhys(m, va, phys, writable, exec) ==
    map_to_with_table_flags(m, va, Entry(phys, TRUE, writable, ~exec), FALSE)

map_user_phys(m, va, phys, writable, exec) ==
    map_to_with_table_flags(m, va, Entry(phys, TRUE, writable, ~exec), TRUE)

\* What a caller asks for one page.
Request(call, va, phys, user, write, nx) ==
    [call |-> call, va |-> va, phys |-> phys, user |-> user, write |-> write,
     nx |-> nx]

\* The call that request q makes.
map_page(m, q) ==
    CASE q.call = "range"  -> RangePage(m, q.va)
      [] q.call = "lapic"  -> map_mmio(m, q.va)
      [] q.call = "image"  -> map_user_page(m, q.va, q.write, ~q.nx)
      [] q.call = "window" -> map_user_phys(m, q.va, q.phys, q.write, FALSE)

-----------------------------------------------------------------------------
(* The callers *)

Init ==
    /\ pte \in BootPte
    /\ free \in Pools
    /\ lost = {}
    /\ tlb = NoTranslation
    /\ armed = FALSE
    /\ ledger = <<>>
    /\ todo = BootCalls
    /\ phase = "boot"
    /\ answer = [op |-> "none"]

Commit(m) == pte' = m.pte /\ free' = m.free /\ lost' = m.lost

Answered(reqs, strict, ok) ==
    answer' = [op |-> "map", reqs |-> reqs, strict |-> strict, ok |-> ok]

\* The next request, if none failed; done counts the pages.
Round(s, q) ==
    LET r == map_page(s.m, q)
    IN  IF ~s.ok THEN s
        ELSE [ok |-> r.ok, m |-> r.m, done |-> IF r.ok THEN s.done + 1 ELSE s.done]

Rounds(m, reqs) ==
    LET s[n \in 0 .. Len(reqs)] ==
            IF n = 0 THEN [ok |-> TRUE, m |-> m, done |-> 0]
            ELSE Round(s[n - 1], reqs[n])
    IN  s

\* The requests in turn, until one fails.
InOrder(reqs) == Rounds(mem, reqs)[Len(reqs)]

MutantUnmapFlush(vas) == tlb

\* The flush of unmap_page.
UnmapFlush(vas) == Flushed(vas)

\* The stack guard, before there is a frame allocator.
ArmGuard ==
    LET r == unmap_page(mem, Guard)
    IN  /\ phase = "boot" /\ phase' = "up"
        /\ Commit(r.m) /\ armed' = r.ok
        /\ tlb' = IF r.ok THEN UnmapFlush({Guard}) ELSE tlb
        /\ answer' = [op |-> "unmap", vas |-> {Guard}, ok |-> r.ok]
        /\ UNCHANGED <<ledger, todo>>

MutantOverflow(va) == FALSE

\* The tripwire, which halts.
Overflow(va) == va = Guard

\* A supervisor access to a page that is not present.
page_fault_handler(va) ==
    LET r      == manual_map(mem, va)
        Mapped == ~Overflow(va) /\ va \in KernelVa /\ r.ok
    IN  /\ phase = "up" /\ Walk(pte, va) = NoEntry
        /\ \/ /\ Mapped
              /\ Commit(r.m) /\ tlb' = Flushed({va})
              /\ Answered(<<Request("fault", va, 0, FALSE, TRUE, FALSE)>>,
                          FALSE, TRUE)
              /\ UNCHANGED phase
           \/ /\ ~Mapped
              /\ phase' = "halted"
              /\ UNCHANGED <<pte, free, lost, tlb, answer>>
        /\ UNCHANGED <<armed, ledger, todo>>

\* A call that maps pages, as far as it gets.
Maps(r, reqs, strict) ==
    /\ phase = "up"
    /\ Commit(r.m)
    /\ tlb' = Flushed({reqs[i].va : i \in 1 .. r.done})
    /\ Answered(reqs, strict, r.ok)
    /\ UNCHANGED <<armed, phase>>

\* The calls from the first one that is not the driver's.
AfterDriver(calls) ==
    LET others == {i \in DOMAIN calls : calls[i].call # "range"}
    IN  IF others = {} THEN <<>> ELSE SubSeq(calls, Min(others), Len(calls))

\* What boot still does after its next call: a device window that cannot be
\* mapped ends the driver's set-up, and without the APIC there is no ring 3.
Rest(ok) ==
    LET c == Head(todo).call
    IN  IF ok \/ c = "image" THEN Tail(todo)
        ELSE IF c = "lapic" THEN <<>>
        ELSE AfterDriver(Tail(todo))

\* The next thing boot does.
Boot(call, reqs, strict) ==
    /\ todo # <<>> /\ Head(todo).call = call
    /\ Maps(InOrder(reqs), reqs, strict)
    /\ todo' = Rest(InOrder(reqs).ok)
    /\ UNCHANGED ledger

DeviceRequests(c) ==
    [i \in DOMAIN c.pages |->
        Request(c.call, c.pages[i], DeviceFrame[c.pages[i]], FALSE, TRUE, TRUE)]

\* virtio_blk::init.
map_mmio_range == Boot("range", DeviceRequests(Head(todo)), FALSE)

\* apic::init_timer.
MapLapic == Boot("lapic", DeviceRequests(Head(todo)), TRUE)

MutantImage(task) ==
    <<Request("image", task.code, 0, TRUE, TRUE, FALSE),
      Request("image", task.stack, 0, TRUE, TRUE, TRUE)>>

\* The code page, read-only and executable, then the stack page.
Image(task) ==
    <<Request("image", task.code, 0, TRUE, FALSE, FALSE),
      Request("image", task.stack, 0, TRUE, TRUE, TRUE)>>

setup_user_task == Boot("image", Image(Head(todo)), TRUE)

WindowRequests(pages) ==
    [i \in DOMAIN pages |->
        Request("window", pages[i].va, pages[i].phys, TRUE, pages[i].write, TRUE)]

\* extent_map and devqueue_map: each page mapped goes into the ledger.
MapWindow(pages) ==
    LET reqs == WindowRequests(pages)
        r    == InOrder(reqs)
    IN  /\ Maps(r, reqs, TRUE)
        /\ ledger' = ledger \o [i \in 1 .. r.done |-> reqs[i].va]
        /\ UNCHANGED todo

\* The memory after each of the pages is unmapped.
Unmapping(m, vas) ==
    LET u[n \in 0 .. Len(vas)] ==
            IF n = 0 THEN m ELSE unmap_page(u[n - 1], vas[n]).m
    IN  u

MutantCleared == ledger

\* dm.count = 0.
Cleared == <<>>

\* reap_domain, for the domain that holds the windows.
Reap ==
    LET vas == Range(ledger)
    IN  /\ phase = "up" /\ ledger # <<>>
        /\ Commit(Unmapping(mem, ledger)[Len(ledger)])
        /\ ledger' = Cleared
        /\ tlb' = UnmapFlush(vas)
        /\ answer' = [op |-> "unmap", vas |-> vas, ok |-> TRUE]
        /\ UNCHANGED <<armed, todo, phase>>

\* The processor keeps a translation, in place of any other.
Fill(va) ==
    /\ phase # "halted" /\ Walk(pte, va) # NoEntry
    /\ tlb' = [va |-> va, to |-> Walk(pte, va)]
    /\ UNCHANGED <<pte, free, lost, armed, ledger, todo, phase, answer>>

Next ==
    \/ ArmGuard
    \/ \E va \in Va : page_fault_handler(va)
    \/ \E va \in Watched : Fill(va)
    \/ map_mmio_range
    \/ MapLapic
    \/ setup_user_task
    \/ \E pages \in Windows : MapWindow(pages)
    \/ Reap

Spec == Init /\ [][Next]_vars

-----------------------------------------------------------------------------
(* What paging promises *)

(***************************************************************************)
(* Entries name frames, and the ledger and the translation name pages.     *)
(***************************************************************************)
TypeOK ==
    /\ pte \in [Frame -> [Index -> Entries \cup {NoEntry}]]
    /\ free \subseteq Frame /\ lost \subseteq Frame
    /\ tlb = NoTranslation \/ tlb.va \in Va
    /\ Range(ledger) \subseteq Va
    /\ IsInjective(ledger)
    /\ Range(todo) \subseteq Range(BootCalls)
    /\ armed \in BOOLEAN /\ phase \in {"boot", "up", "halted"}

\* What the processor may reach, and how.
Translations == {Walk(pte, va) : va \in Va} \ {NoEntry}

(***************************************************************************)
(* The tables form a tree of their own: none is reached along two paths,   *)
(* and none is free, was lost, or is the page of a mapping; nor is a free  *)
(* or lost frame mapped.  Calls that fail half way, after tables were made *)
(* or a frame was taken, keep it so.                                       *)
(***************************************************************************)
TablesFormTree ==
    LET Tables == {p[1] : p \in Reached(pte)}
        Pages  == {t.frame : t \in Translations}
        Unused == free \cup lost
    IN  /\ IsTree(pte)
        /\ Tables \cap Unused = {} /\ Tables \cap Pages = {}
        /\ Pages \cap Unused = {} /\ free \cap lost = {}

(***************************************************************************)
(* "W^X invariant: never simultaneously writable and executable"           *)
(* (map_user_page), of the memory and not only of the page: no frame that  *)
(* ring 3 can execute through one page can it write through any.           *)
(***************************************************************************)
WriteXorExecute ==
    LET User == {t \in Translations : t.user}
    IN  \A x, w \in User : ~x.nx /\ w.write => x.frame # w.frame

(***************************************************************************)
(* The processor never uses a translation the tables no longer hold: each  *)
(* change of an entry is followed by the flush of its page.                *)
(***************************************************************************)
TlbCoherent == tlb # NoTranslation => tlb.to = Walk(pte, tlb.va)

(***************************************************************************)
(* Once armed the stack guard stays unmapped: the fault handler, which     *)
(* maps missing kernel pages on demand, halts on it instead (it "would map *)
(* the guard and mask the bug").                                           *)
(***************************************************************************)
GuardHolds == armed => Walk(pte, Guard) = NoEntry

Space == INSTANCE AddressSpace WITH
             NoMapping <- NoEntry, space <- [va \in Va |-> Walk(pte, va)]

(***************************************************************************)
(* The tables implement the address space: a call maps just the pages it   *)
(* answers for, with the rights asked for (ring 3 reaches a page only if   *)
(* every table above it lets it, and no kernel page through a table that   *)
(* came to be shared), and an unmapping just its pages.                    *)
(***************************************************************************)
ImplementsAddressSpace == Space!Spec

=============================================================================
