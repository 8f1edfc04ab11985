----------------------------- MODULE FrameAlloc -----------------------------
(***************************************************************************)
(* The kernel's physical frame allocator (memory.rs): a fixed array of     *)
(* ranges of free frames, filled from the boot loader's memory map, and    *)
(* its one client that gives a frame back, load_extent of objstore.rs.     *)
(***************************************************************************)
EXTENDS Integers, Sequences, FiniteSetsExt

CONSTANTS
    MaxRegions,     \* MAX_REGIONS
    PageSize,       \* 0x1000
    LowFrame,       \* 0x100: frames below 1 MiB are never used
    MemMaps,        \* the memory maps the boot loader may hand over
    NoRegion,       \* an empty slot of the array
    NoFrame         \* None, as the answer of an allocation

ASSUME FrameAssumption ==
    /\ MaxRegions \in Nat \ {0}
    /\ PageSize \in Nat \ {0}
    /\ LowFrame \in Nat
    /\ NoRegion \notin [start : Nat, end : Nat]
    /\ NoFrame \notin Nat
    /\ MemMaps \subseteq Seq([base : Nat, length : Nat, usable : BOOLEAN])
    \* "Deliberately larger than any realistic Limine map entry count."
    /\ \A mm \in MemMaps : Len(mm) <= MaxRegions

VARIABLES
    memmap,     \* the memory map of this boot
    regions,    \* FrameAllocator::regions
    held,       \* history: the frames handed out and not given back
    lost,       \* history: the frames a free had no room for
    answer      \* what the last allocation returned

vars == <<memmap, regions, held, lost, answer>>

Slots == 1..MaxRegions

NoRegions == [i \in Slots |-> NoRegion]

Used(regs) == {i \in Slots : regs[i] # NoRegion}

\* The frames of a range, its end excluded.
Frames(r) == r.start .. r.end - 1

\* Put a range into the first empty slot; without one it is dropped.
add_region(regs, r) ==
    LET empty == Slots \ Used(regs)
    IN  IF r.start >= r.end \/ empty = {} THEN regs
        ELSE [regs EXCEPT ![Min(empty)] = r]

LiveSlots(regs) == {i \in Used(regs) : regs[i].start < regs[i].end}

\* By start; the insertion sort keeps equal ones in order.
Before(regs, i, j) ==
    \/ regs[i].start < regs[j].start
    \/ regs[i].start = regs[j].start /\ i < j

\* The place of slot i's range among the sorted ones.
Rank(regs, i) ==
    Cardinality({j \in LiveSlots(regs) : Before(regs, j, i)}) + 1

\* The ranges in use, sorted.
Live(regs) ==
    [k \in 1 .. Cardinality(LiveSlots(regs)) |->
        regs[CHOOSE i \in LiveSlots(regs) : Rank(regs, i) = k]]

MutantMerge(out, r) ==          \* joins ranges with one frame between them
    IF out # <<>> /\ out[Len(out)].end + 1 >= r.start
    THEN [out EXCEPT ![Len(out)].end = Max({@, r.end})]
    ELSE Append(out, r)

\* Append a range to a list, or join it to the last one it touches.
Merge(out, r) ==
    IF out # <<>> /\ out[Len(out)].end >= r.start
    THEN [out EXCEPT ![Len(out)].end = Max({@, r.end})]
    ELSE Append(out, r)

\* The output after each of the sorted ranges.
Merging(live) ==
    LET out[n \in 0 .. Len(live)] ==
            IF n = 0 THEN <<>> ELSE Merge(out[n - 1], live[n])
    IN  out

MutantCoalesce(regs) == regs    \* no merging after a free

coalesce(regs) ==
    LET merged == Merging(Live(regs))[Len(Live(regs))]
    IN  [i \in Slots |-> IF i \in DOMAIN merged THEN merged[i] ELSE NoRegion]

\* The slot alloc takes from: the range with the lowest start.
BestSlot(regs) ==
    CHOOSE i \in Used(regs) : \A j \in Used(regs) :
        \/ regs[i].start < regs[j].start
        \/ regs[i].start = regs[j].start /\ i <= j

alloc(regs) ==
    IF Used(regs) = {} THEN [frame |-> NoFrame, regs |-> regs]
    ELSE LET i == BestSlot(regs)
             r == regs[i]
         IN  [frame |-> r.start,
              regs |-> IF r.start + 1 >= r.end
                       THEN [regs EXCEPT ![i] = NoRegion]
                       ELSE [regs EXCEPT ![i].start = @ + 1]]

\* The slots whose range a frame extends at its end or at its start.
Extends(regs, f) ==
    {i \in Used(regs) : regs[i].end = f \/ regs[i].start = f + 1}

Extended(r, f) ==
    IF r.end = f THEN [r EXCEPT !.end = f + 1] ELSE [r EXCEPT !.start = f]

free(regs, f) ==
    coalesce(IF Extends(regs, f) # {}
             THEN [regs EXCEPT ![Min(Extends(regs, f))] = Extended(@, f)]
             ELSE add_region(regs, [start |-> f, end |-> f + 1]))

\* FreeRegion::len of what a slot holds; an empty slot counts for nothing.
len(r) == IF r = NoRegion THEN 0
          ELSE IF r.end <= r.start THEN 0 ELSE r.end - r.start

free_count(regs) ==
    LET sum[n \in 0 .. MaxRegions] ==
            IF n = 0 THEN 0 ELSE sum[n - 1] + len(regs[n])
    IN  sum[MaxRegions]

-----------------------------------------------------------------------------
MutantEntryRegion(e) ==         \* rounds both ends outward
    [start |-> Max({e.base \div PageSize, LowFrame}),
     end   |-> (e.base + e.length + PageSize - 1) \div PageSize]

\* The whole frames of a memory map entry, above the first MiB.
EntryRegion(e) ==
    [start |-> Max({(e.base + PageSize - 1) \div PageSize, LowFrame}),
     end   |-> (e.base + e.length) \div PageSize]

\* The list after each entry of the memory map: the usable ones go in.
Adding(mm) ==
    LET regs[n \in 0 .. Len(mm)] ==
            IF n = 0 THEN NoRegions
            ELSE IF mm[n].usable
                 THEN add_region(regs[n - 1], EntryRegion(mm[n]))
                 ELSE regs[n - 1]
    IN  regs

init(mm) == coalesce(Adding(mm)[Len(mm)])

Init ==
    /\ memmap \in MemMaps
    /\ regions = init(memmap)
    /\ held = {}
    /\ lost = {}
    /\ answer = NoFrame

allocate_frame ==
    LET a == alloc(regions)
    IN  /\ answer' = a.frame
        /\ regions' = a.regs
        /\ held' = held \cup ({a.frame} \ {NoFrame})
        /\ UNCHANGED <<memmap, lost>>

\* The frames on the list.
FreeFrames(regs) == UNION {Frames(regs[i]) : i \in Used(regs)}

\* A holder gives a frame back.  When the frame touches no range and every
\* slot is taken, it is on no list afterwards.
deallocate_frame(f) ==
    /\ f \in held
    /\ regions' = free(regions, f)
    /\ held' = held \ {f}
    /\ lost' = IF f \in FreeFrames(regions') THEN lost ELSE lost \cup {f}
    /\ UNCHANGED <<memmap, answer>>

\* load_extent when a sector cannot be read: the frame it has just allocated
\* goes back.  (When every read succeeds, it is allocate_frame.)
load_extent_fails ==
    LET a == alloc(regions)
    IN  /\ a.frame # NoFrame
        /\ answer' = a.frame
        /\ regions' = free(a.regs, a.frame)
        /\ UNCHANGED <<memmap, held, lost>>

Next ==
    \/ allocate_frame
    \/ load_extent_fails
    \/ \E f \in held : deallocate_frame(f)

Spec == Init /\ [][Next]_vars

-----------------------------------------------------------------------------
\* The reference for init: a frame above the first MiB belongs to the pool
\* when one usable entry covers all of its bytes.
Usable(mm) ==
    UNION {{f \in LowFrame .. mm[i].base + mm[i].length :
               /\ mm[i].usable
               /\ mm[i].base <= f * PageSize
               /\ (f + 1) * PageSize <= mm[i].base + mm[i].length} :
           i \in DOMAIN mm}

TypeOK ==
    /\ memmap \in MemMaps
    /\ \A i \in Used(regions) : regions[i].start < regions[i].end
    /\ held \subseteq Usable(memmap)
    /\ lost \subseteq Usable(memmap)
    /\ answer \in Usable(memmap) \cup {NoFrame}

\* Every usable frame of the memory map, and no other, is on the list, handed
\* out or lost, and only one of them: init takes exactly the whole usable
\* frames, and no sequence of allocations, frees and merges of ranges
\* duplicates a frame, invents one or forgets one.
FramesAccounted ==
    /\ FreeFrames(regions) \cup held \cup lost = Usable(memmap)
    /\ FreeFrames(regions) \cap held = {}
    /\ (FreeFrames(regions) \cup held) \cap lost = {}

Pool == INSTANCE FramePool WITH
            MaxRuns <- MaxRegions, Reservable <- {}, pool <- FreeFrames(regions)

\* The range list is a pool that hands out its lowest frame first, refuses only
\* when it is empty, never loses the frame load_extent gives back after an
\* error, and loses another one only when the free frames themselves form
\* MAX_REGIONS separate runs and it touches none of them: merging leaves no
\* slot taken without need.
ImplementsPool == Pool!Spec

=============================================================================
