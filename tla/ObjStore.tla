------------------------------ MODULE ObjStore ------------------------------
(***************************************************************************)
(* kernel/src/objstore.rs, the Cairnlog store, over the block device of    *)
(* virtio_blk.rs with a volatile write cache: mount, recover and put, one  *)
(* step per sector written and per flush, with a reset or a power loss     *)
(* between any two, across any number of boots.                            *)
(*                                                                         *)
(* A sector is a tagged record.  Content hashes are ideal: a superblock    *)
(* sector that is not whole is "torn" and fails its hash, and root_len and *)
(* root_hash together are the object they name.                            *)
(*                                                                         *)
(* A definition named Mutant... is a deliberately wrong variant of the one *)
(* below it; the specification does not use it (see README.md).            *)
(***************************************************************************)
EXTENDS Integers

CONSTANTS
    Object,         \* the byte strings callers put
    SectorsOf,      \* data sectors of each; 0 for the empty one
    NoRoot,         \* root_len = 0 of a fresh store
    LbaCount,       \* sectors of the device (32768)
    SmokeLba,       \* SMOKE_LBA, written by every boot before the mount
    ScratchLba,     \* DQ_SCRATCH_LBA, written by every boot after its put
    FlushOk,        \* flush_ok: the device has a write cache to flush
    Faults,         \* the requests that may fail: "read", "write", "flush"
    PutsPerBoot,    \* puts a boot makes (main.rs makes one)
    PutAgain,       \* whether a boot puts again after a put that failed
    MaxSeq          \* bound: the highest sequence number

Lba      == 0 .. LbaCount - 1
LBA_SB_A == 0
LBA_SB_B == 1
SbSlot   == {LBA_SB_A, LBA_SB_B}

LBA_LOG_START == 2

(***************************************************************************)
(* The geometry: a log to write to, and scratch sectors outside the slots. *)
(***************************************************************************)
ASSUME StoreAssumption ==
    /\ SectorsOf \in [Object -> Nat]
    /\ NoRoot \notin Object
    /\ LbaCount \in Nat /\ LbaCount > LBA_LOG_START
    /\ SmokeLba \in Nat \ SbSlot /\ ScratchLba \in Nat \ SbSlot
    /\ FlushOk \in BOOLEAN
    /\ Faults \subseteq {"read", "write", "flush"}
    /\ PutsPerBoot \in Nat
    /\ PutAgain \in BOOLEAN
    /\ MaxSeq \in Nat \ {0}

Superblock ==
    [seq: 0 .. MaxSeq, log_head_lba: Nat, root_lba: Nat,
     root: Object \cup {NoRoot}]

\* MOUNTED before the mount, and what a format writes.
Unmounted == [seq |-> 0, log_head_lba |-> 0, root_lba |-> 0, root |-> NoRoot]
Formatted == [seq |-> 1, log_head_lba |-> LBA_LOG_START, root_lba |-> 0,
              root |-> NoRoot]

Blank        == [tag |-> "blank"]
Torn         == [tag |-> "torn"]
TestPattern  == [tag |-> "test"]
SbSector(s)  == [tag |-> "sb", sb |-> s]
Data(o, i)   == [tag |-> "data", object |-> o, index |-> i]
Header(o, p) == [tag |-> "header", object |-> o, prev |-> p]

\* A cache line that holds nothing.
Clean == [tag |-> "clean"]

VARIABLES
    disk, cache,        \* durable sectors; sectors in the device's cache
    present,            \* VBLK.present
    mounted, sb, slot,  \* MOUNTED_OK, MOUNTED, MOUNTED_SLOT
    pc,                 \* where the boot or the put stands
    op, done,           \* the object being put; data sectors written
    puts,               \* puts made in this boot
    answer              \* what recover or put returned last in this boot

device == <<disk, cache, present>>
ram    == <<mounted, sb, slot>>
run    == <<pc, op, done, puts, answer>>
vars   == <<device, ram, run>>

Putting == {"data", "flush", "flip", "commit"}

(***************************************************************************)
(* Sectors, the mounted superblock and the steps of a put are well formed. *)
(***************************************************************************)
TypeOK ==
    /\ \A l \in Lba :
          \A s \in {disk[l], cache[l]} :
              s.tag = "sb" => s.sb \in Superblock /\ s.sb.seq > 0
    /\ mounted \in BOOLEAN
    /\ sb \in Superblock /\ slot \in SbSlot
    /\ mounted => sb.seq > 0 /\ sb.log_head_lba >= LBA_LOG_START
    /\ pc \in Putting \cup {"off", "mount", "format", "formatted", "recover",
                            "idle"}
    /\ pc \in Putting => mounted /\ op \in Object /\ done <= SectorsOf[op]
    /\ puts \in 0 .. PutsPerBoot

Init ==
    /\ disk = [l \in Lba |-> Blank]
    /\ cache = [l \in Lba |-> Clean]
    /\ present = FALSE
    /\ mounted = FALSE /\ sb = Unmounted /\ slot = LBA_SB_A
    /\ pc = "off" /\ op = NoRoot /\ done = 0 /\ puts = 0
    /\ answer = [op |-> "none"]

-----------------------------------------------------------------------------
(* The block layer: the outcomes of a request, ok or not.  A request that   *)
(* fails with an error status leaves the device up; one that times out     *)
(* disables it.  A failed write may still have reached the device.         *)

\* What reads return: the cache over the disk.
Seen(d, c) == [l \in Lba |-> IF c[l] = Clean THEN d[l] ELSE c[l]]

Now(ok, up) == [ok |-> ok, disk |-> disk, cache |-> cache, up |-> up]

Stored(ok, up, lba, s) ==
    IF FlushOk
    THEN [ok |-> ok, disk |-> disk, cache |-> [cache EXCEPT ![lba] = s],
          up |-> up]
    ELSE [ok |-> ok, disk |-> [disk EXCEPT ![lba] = s], cache |-> cache,
          up |-> up]

write_sector(up, lba, s) ==
    IF ~up THEN {Now(FALSE, FALSE)}
    ELSE IF lba \notin Lba THEN {Now(FALSE, TRUE)}
    ELSE {Stored(TRUE, TRUE, lba, s)} \cup
         (IF "write" \in Faults
          THEN UNION {{Stored(FALSE, b, lba, s), Now(FALSE, b)} : b \in BOOLEAN}
          ELSE {})

\* A flush that fails has written back what Destage says, or nothing.
flush(up) ==
    IF ~up THEN {Now(FALSE, FALSE)}
    ELSE IF ~FlushOk THEN {Now(TRUE, TRUE)}
    ELSE {[ok |-> TRUE, disk |-> Seen(disk, cache),
           cache |-> [l \in Lba |-> Clean], up |-> TRUE]} \cup
         (IF "flush" \in Faults THEN {Now(FALSE, b) : b \in BOOLEAN} ELSE {})

read_sector(up, lba) ==
    IF ~up THEN {[ok |-> FALSE, s |-> Clean, up |-> FALSE]}
    ELSE {[ok |-> TRUE, s |-> Seen(disk, cache)[lba], up |-> TRUE]} \cup
         (IF "read" \in Faults
          THEN {[ok |-> FALSE, s |-> Clean, up |-> b] : b \in BOOLEAN}
          ELSE {})

\* The device ends up as outcome w says.
Device(w) == disk' = w.disk /\ cache' = w.cache /\ present' = w.up

-----------------------------------------------------------------------------
(* Boot and mount *)

\* Device init, which may fail, and the smoke test's write.
Boot ==
    /\ pc = "off"
    /\ \E w \in {Now(FALSE, FALSE)}
                  \cup write_sector(TRUE, SmokeLba, TestPattern) :
          Device(w)
    /\ pc' = "mount"
    /\ UNCHANGED <<ram, op, done, puts, answer>>

\* SlotRead: Io, Invalid or Valid.
read_superblock(r) ==
    IF ~r.ok THEN [read |-> "Io"]
    ELSE IF r.s.tag # "sb" THEN [read |-> "Invalid"]
    ELSE [read |-> "Valid", sb |-> r.s.sb]

MutantBest(a, b) ==
    {s \in SbSlot :
        LET mine   == IF s = LBA_SB_A THEN a ELSE b
            theirs == IF s = LBA_SB_A THEN b ELSE a
        IN  /\ mine.read = "Valid"
            /\ \/ theirs.read # "Valid"
               \/ mine.sb.seq < theirs.sb.seq
               \/ mine.sb.seq = theirs.sb.seq /\ s = LBA_SB_A}

\* The slot of the higher valid sequence number, A on a tie; none if neither
\* slot is valid.
best(a, b) ==
    {s \in SbSlot :
        LET mine   == IF s = LBA_SB_A THEN a ELSE b
            theirs == IF s = LBA_SB_A THEN b ELSE a
        IN  /\ mine.read = "Valid"
            /\ \/ theirs.read # "Valid"
               \/ mine.sb.seq > theirs.sb.seq
               \/ mine.sb.seq = theirs.sb.seq /\ s = LBA_SB_A}

\* Publish the superblock of the slot.
Publish(newSb, newSlot) == mounted' = TRUE /\ sb' = newSb /\ slot' = newSlot

\* Found, to be formatted, or refused.
mount ==
    /\ pc = "mount"
    /\ \E ra \in read_sector(present, LBA_SB_A) :
       \E rb \in read_sector(ra.up, LBA_SB_B) :
          LET a == read_superblock(ra)
              b == read_superblock(rb)
          IN  /\ present' = rb.up
              /\ \/ \E s \in best(a, b) :
                       /\ Publish(IF s = LBA_SB_A THEN a.sb ELSE b.sb, s)
                       /\ pc' = "recover"
                 \/ /\ a.read = "Invalid" /\ b.read = "Invalid"
                    /\ pc' = "format"
                    /\ UNCHANGED ram
                 \/ /\ best(a, b) = {} /\ "Io" \in {a.read, b.read}
                    /\ pc' = "recover"
                    /\ UNCHANGED ram
    /\ UNCHANGED <<disk, cache, op, done, puts, answer>>

\* write_superblock for a fresh store: the sector, then the flush.
FormatWrite ==
    /\ pc = "format"
    /\ \E w \in write_sector(present, LBA_SB_A, SbSector(Formatted)) :
          /\ Device(w)
          /\ pc' = IF w.ok THEN "formatted" ELSE "recover"
    /\ UNCHANGED <<ram, op, done, puts, answer>>

FormatFlush ==
    /\ pc = "formatted"
    /\ \E w \in flush(present) :
          /\ Device(w)
          /\ IF w.ok THEN Publish(Formatted, LBA_SB_A) ELSE UNCHANGED ram
    /\ pc' = "recover"
    /\ UNCHANGED <<op, done, puts, answer>>

-----------------------------------------------------------------------------
(* recover *)

HasData(o) == o # NoRoot /\ SectorsOf[o] > 0

\* extent_content_hash: the sectors hash to the name in the superblock.
Intact(sectors, s) ==
    \A i \in 1 .. SectorsOf[s.root] :
        sectors[s.root_lba + i - 1] = Data(s.root, i)

\* None when nothing is mounted or a sector cannot be read; None too, but
\* told apart here, when there is no root or its bytes do not match.
recover ==
    /\ pc = "recover"
    /\ \/ /\ mounted /\ (HasData(sb.root) => present)
          /\ answer' = [op |-> "recover",
                        root |-> IF /\ HasData(sb.root)
                                    /\ Intact(Seen(disk, cache), sb)
                                 THEN sb.root ELSE NoRoot]
          /\ UNCHANGED present
       \/ /\ ~mounted \/ (HasData(sb.root) /\ ~present)
          /\ answer' = [op |-> "unavailable"]
          /\ UNCHANGED present
       \/ /\ mounted /\ HasData(sb.root) /\ present /\ "read" \in Faults
          /\ answer' = [op |-> "unavailable"]
          /\ present' \in BOOLEAN
    /\ pc' = "idle"
    /\ UNCHANGED <<disk, cache, ram, op, done, puts>>

-----------------------------------------------------------------------------
(* put *)

PutFails ==
    /\ pc' = "idle"
    /\ answer' = [op |-> "failed"]
    /\ UNCHANGED ram

\* The callers have another put to make.
MayPut == puts < PutsPerBoot /\ (answer.op = "failed" => PutAgain)

MutantPutStart(o) ==
    /\ pc = "idle" /\ MayPut /\ sb.seq < MaxSeq
    /\ puts' = puts + 1
    /\ pc' = "data" /\ op' = o /\ done' = 0
    /\ UNCHANGED <<device, ram, answer>>

PutStart(o) ==
    /\ pc = "idle" /\ MayPut
    /\ puts' = puts + 1
    /\ \/ ~mounted /\ PutFails /\ UNCHANGED <<op, done>>
       \/ /\ mounted /\ sb.seq < MaxSeq
          /\ pc' = "data" /\ op' = o /\ done' = 0
          /\ UNCHANGED <<ram, answer>>
    /\ UNCHANGED device

PutData ==
    /\ pc = "data" /\ done < SectorsOf[op]
    /\ \E w \in write_sector(present, sb.log_head_lba + done,
                             Data(op, done + 1)) :
          /\ Device(w)
          /\ IF w.ok
             THEN done' = done + 1 /\ UNCHANGED <<ram, pc, answer>>
             ELSE PutFails /\ UNCHANGED done
    /\ UNCHANGED <<op, puts>>

\* Where the record header goes.
HdrLba == sb.log_head_lba + SectorsOf[op]

PutHeader ==
    /\ pc = "data" /\ done = SectorsOf[op]
    /\ \E w \in write_sector(present, HdrLba, Header(op, sb.root_lba)) :
          /\ Device(w)
          /\ IF w.ok THEN pc' = "flush" /\ UNCHANGED <<ram, answer>>
                     ELSE PutFails
    /\ UNCHANGED <<op, done, puts>>

MutantPutFlush ==
    /\ pc = "flush"
    /\ pc' = "flip"
    /\ UNCHANGED <<device, ram, op, done, puts, answer>>

PutFlush ==
    /\ pc = "flush"
    /\ \E w \in flush(present) :
          /\ Device(w)
          /\ IF w.ok THEN pc' = "flip" /\ UNCHANGED <<ram, answer>>
                     ELSE PutFails
    /\ UNCHANGED <<op, done, puts>>

NewSb ==
    [seq |-> sb.seq + 1, log_head_lba |-> HdrLba + 1,
     root_lba |-> sb.log_head_lba, root |-> op]

MutantOther(s) == s

Other(s) == IF s = LBA_SB_A THEN LBA_SB_B ELSE LBA_SB_A

\* The commit: write_superblock, the sector first.
PutFlip ==
    /\ pc = "flip"
    /\ \E w \in write_sector(present, Other(slot), SbSector(NewSb)) :
          /\ Device(w)
          /\ IF w.ok THEN pc' = "commit" /\ UNCHANGED <<ram, answer>>
                     ELSE PutFails
    /\ UNCHANGED <<op, done, puts>>

\* Its flush, and the new root in RAM.
PutCommit ==
    /\ pc = "commit"
    /\ \E w \in flush(present) :
          /\ Device(w)
          /\ IF w.ok
             THEN /\ Publish(NewSb, Other(slot))
                  /\ pc' = "idle"
                  /\ answer' = [op |-> "put", root |-> op]
             ELSE PutFails
    /\ UNCHANGED <<op, done, puts>>

\* The scratch sector seeded for the ring-3 driver, after the puts.
SeedScratch ==
    /\ pc = "idle" /\ ~MayPut
    /\ \E w \in write_sector(present, ScratchLba, TestPattern) : Device(w)
    /\ UNCHANGED <<ram, run>>

-----------------------------------------------------------------------------
(* The device and the machine *)

\* The device writes a cached sector back when it likes.
Destage(lba) ==
    /\ cache[lba] # Clean
    /\ disk' = [disk EXCEPT ![lba] = cache[lba]]
    /\ cache' = [cache EXCEPT ![lba] = Clean]
    /\ UNCHANGED <<present, ram, run>>

\* RAM is gone.
Restarted ==
    /\ present' = FALSE
    /\ mounted' = FALSE /\ sb' = Unmounted /\ slot' = LBA_SB_A
    /\ pc' = "off" /\ op' = NoRoot /\ done' = 0 /\ puts' = 0
    /\ answer' = [op |-> "none"]

\* The machine restarts and the device keeps its cache.
Reset ==
    /\ pc # "off"
    /\ Restarted
    /\ UNCHANGED <<disk, cache>>

\* The cache is lost, and the sectors being written back are torn.
PowerLoss ==
    /\ pc # "off"
    /\ \E torn \in SUBSET {l \in Lba : cache[l] # Clean} :
          disk' = [l \in Lba |-> IF l \in torn THEN Torn ELSE disk[l]]
    /\ cache' = [l \in Lba |-> Clean]
    /\ Restarted

Next ==
    \/ Boot \/ mount \/ FormatWrite \/ FormatFlush
    \/ recover
    \/ \E o \in Object : PutStart(o)
    \/ PutData \/ PutHeader \/ PutFlush \/ PutFlip \/ PutCommit
    \/ SeedScratch
    \/ \E lba \in Lba : Destage(lba)
    \/ Reset
    \/ PowerLoss

Spec == Init /\ [][Next]_vars

-----------------------------------------------------------------------------
(* What the store promises *)

\* The superblock slots a fault-free mount of these sectors would pick.
Chosen(sectors) ==
    LET Read(l) == read_superblock([ok |-> TRUE, s |-> sectors[l]])
    IN  best(Read(LBA_SB_A), Read(LBA_SB_B))

(***************************************************************************)
(* "No torn/partial extent is ever advertised" (put's commit comment): the *)
(* superblock a mount would pick, now or if the power failed now, names a  *)
(* root whose every sector is in place, although later puts write to the   *)
(* log and the device reorders what it writes back.                        *)
(***************************************************************************)
RootIntact ==
    \A sectors \in {disk, Seen(disk, cache)} : \A s \in Chosen(sectors) :
        HasData(sectors[s].sb.root) => Intact(sectors, sectors[s].sb)

(***************************************************************************)
(* The latest committed superblock is never clobbered (SlotRead's comment: *)
(* it "must NEVER be reformatted over"): a step that changes the slot a    *)
(* mount after a power loss would pick leaves that mount a later one.      *)
(***************************************************************************)
KeepStep ==
    \A s \in Chosen(disk) : disk'[s] # disk[s] =>
        \E t \in Chosen(disk') : disk'[t].sb.seq > disk[s].sb.seq

\* Every step of the system is such a step.
CommittedSlotKept == [][KeepStep]_vars

Lost == "lost"

\* The root recovery would answer with from these sectors.
RootIn(sectors) ==
    IF \A s \in Chosen(sectors) : ~HasData(sectors[s].sb.root) THEN NoRoot
    ELSE LET s == CHOOSE s \in Chosen(sectors) : TRUE
         IN  IF Intact(sectors, sectors[s].sb) THEN sectors[s].sb.root
             ELSE Lost

D == INSTANCE DurableRoot WITH
        EmptyObject <- {o \in Object : SectorsOf[o] = 0},
        durable     <- RootIn(disk),
        visible     <- RootIn(Seen(disk, cache)),
        pending     <- IF pc \in Putting THEN op ELSE NoRoot

(***************************************************************************)
(* The store is an atomic durable register: whatever step the power fails  *)
(* at, the root is the one before the put or the one after it, whole; an   *)
(* acknowledged put survives every later crash; recovery answers with the  *)
(* root, and only a put changes it.                                        *)
(***************************************************************************)
ImplementsDurableRoot == D!Spec

=============================================================================
