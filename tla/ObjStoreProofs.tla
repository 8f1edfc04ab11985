--------------------------- MODULE ObjStoreProofs ---------------------------
(***************************************************************************)
(* Proofs about the object store (ObjStore): the types, the root that is   *)
(* always whole, the committed slot that is never clobbered, and the       *)
(* refinement of DurableRoot.                                              *)
(***************************************************************************)
EXTENDS ObjStore, TLAPS

\* Zenon is the default prover here; leaves with arithmetic, records or
\* functions that are beyond it cite SMT.
USE Zenon

-----------------------------------------------------------------------------
(* What a step may do to the device *)

View == Seen(disk, cache)

Same == disk' = disk /\ cache' = cache

\* Sector x was stored at l: in the cache, or on a disk that has none.
StoredAt(l, x) ==
    /\ l \in Lba
    /\ \/ FlushOk /\ disk' = disk /\ cache' = [cache EXCEPT ![l] = x]
       \/ ~FlushOk /\ disk' = [disk EXCEPT ![l] = x] /\ cache' = cache

Flushed == disk' = View /\ cache' = [l \in Lba |-> Clean]

Destaged(l) ==
    /\ l \in Lba /\ cache[l] # Clean
    /\ disk' = [disk EXCEPT ![l] = cache[l]]
    /\ cache' = [cache EXCEPT ![l] = Clean]

PowerLost ==
    /\ \A l \in Lba : cache[l] = Clean => disk'[l] = disk[l]
    /\ \A l \in Lba : disk'[l] \in {disk[l], Torn}
    /\ disk' = [l \in Lba |-> disk'[l]]
    /\ cache' = [l \in Lba |-> Clean]

-----------------------------------------------------------------------------
(* The type invariant *)

SectorOK(x) ==
    x.tag = "sb" => /\ x.sb \in Superblock /\ x.sb.seq > 0
                    /\ x.sb.log_head_lba >= LBA_LOG_START

DeviceOK ==
    /\ disk = [l \in Lba |-> disk[l]] /\ cache = [l \in Lba |-> cache[l]]
    /\ \A l \in Lba : SectorOK(disk[l]) /\ SectorOK(cache[l])
    /\ ~FlushOk => \A l \in Lba : cache[l] = Clean

RunOK ==
    /\ present \in BOOLEAN /\ mounted \in BOOLEAN
    /\ sb \in Superblock /\ slot \in SbSlot
    /\ mounted => sb.seq > 0 /\ sb.log_head_lba >= LBA_LOG_START
    /\ pc \in Putting \cup {"off", "mount", "format", "formatted", "recover",
                            "idle"}
    /\ puts \in 0 .. PutsPerBoot
    /\ pc \in Putting =>
          /\ mounted /\ sb.seq < MaxSeq
          /\ op \in Object /\ done \in 0 .. SectorsOf[op]
    /\ pc \in {"flush", "flip", "commit"} => done = SectorsOf[op]

TypeInv == DeviceOK /\ RunOK

\* The type invariant of the module follows.
LEMMA TypeInvTypes == TypeInv => TypeOK
  BY SMT, StoreAssumption
  DEF TypeInv, DeviceOK, RunOK, SectorOK, TypeOK, Putting

\* The sectors that are not superblocks, and those that are.
LEMMA SectorTags ==
    /\ Clean.tag = "clean" /\ Blank.tag = "blank" /\ Torn.tag = "torn"
    /\ TestPattern.tag = "test"
    /\ \A o, i : Data(o, i).tag = "data" /\ Header(o, i).tag = "header"
    /\ \A x : SbSector(x).tag = "sb" /\ SbSector(x).sb = x
  BY DEF Clean, Blank, Torn, TestPattern, Data, Header, SbSector

\* A write is stored or not, and is stored if it succeeds.
LEMMA WriteOutcome ==
    ASSUME NEW up \in BOOLEAN, NEW l, NEW x, NEW w \in write_sector(up, l, x),
           Device(w)
    PROVE  /\ Same \/ StoredAt(l, x)
           /\ w.ok => StoredAt(l, x)
           /\ w.ok \in BOOLEAN /\ present' \in BOOLEAN
           /\ w.ok => up /\ present' = TRUE
  <1>1. \/ \E b \in BOOLEAN : w = Now(FALSE, b)
        \/ l \in Lba /\ \E b \in BOOLEAN : w = Stored(FALSE, b, l, x)
        \/ l \in Lba /\ up /\ w = Stored(TRUE, TRUE, l, x)
    BY DEF write_sector
  <1>2. ASSUME NEW b \in BOOLEAN, w = Now(FALSE, b)
        PROVE  Same /\ w.ok = FALSE /\ present' = b
    BY <1>2 DEF Device, Now, Same
  <1>3. ASSUME NEW c \in BOOLEAN, NEW b \in BOOLEAN, l \in Lba,
               w = Stored(c, b, l, x)
        PROVE  StoredAt(l, x) /\ w.ok = c /\ present' = b
    BY <1>3, StoreAssumption DEF Device, Stored, StoredAt
  <1> QED
    BY <1>1, <1>2, <1>3

\* A flush empties the cache or changes nothing; a device without a cache
\* has nothing to flush.
LEMMA FlushOutcome ==
    ASSUME DeviceOK, NEW up \in BOOLEAN, NEW w \in flush(up), Device(w)
    PROVE  /\ Same \/ Flushed
           /\ w.ok => Flushed
           /\ w.ok \in BOOLEAN /\ present' \in BOOLEAN
  <1>1. CASE FlushOk
    <2>1. \/ \E b \in BOOLEAN : w = Now(FALSE, b)
          \/ w = [ok |-> TRUE, disk |-> Seen(disk, cache),
                  cache |-> [l \in Lba |-> Clean], up |-> TRUE]
      BY <1>1 DEF flush
    <2>2. ASSUME NEW b \in BOOLEAN, w = Now(FALSE, b)
          PROVE  Same /\ w.ok = FALSE /\ present' = b
      BY <2>2 DEF Device, Now, Same
    <2>3. ASSUME w = [ok |-> TRUE, disk |-> Seen(disk, cache),
                      cache |-> [l \in Lba |-> Clean], up |-> TRUE]
          PROVE  Flushed /\ w.ok = TRUE /\ present' = TRUE
      BY <2>3 DEF Device, Flushed, View
    <2> QED
      BY <2>1, <2>2, <2>3
  <1>2. CASE ~FlushOk
    <2>0. \E b \in BOOLEAN : w = Now(b, b)
      BY <1>2 DEF flush
    <2>1. Same /\ w.ok \in BOOLEAN /\ present' \in BOOLEAN
      BY SMT, <2>0 DEF Device, Same, Now
    <2>2. View = disk
      BY <1>2 DEF DeviceOK, View, Seen
    <2>3. cache = [l \in Lba |-> Clean]
      BY <1>2 DEF DeviceOK
    <2> QED
      BY <2>1, <2>2, <2>3 DEF Flushed, Same
  <1> QED
    BY <1>1, <1>2

\* Every device step keeps the sectors well formed.
LEMMA DeviceTypes ==
    ASSUME DeviceOK,
           \/ Same \/ Flushed \/ PowerLost
           \/ \E l \in Lba : Destaged(l)
           \/ \E l, x : StoredAt(l, x) /\ SectorOK(x)
    PROVE  DeviceOK'
  <1>1. SectorOK(Clean) /\ SectorOK(Torn)
    BY SectorTags DEF SectorOK
  <1>2. CASE Same
    BY <1>2 DEF Same, DeviceOK, SectorOK
  <1>3. CASE Flushed
    BY <1>1, <1>3 DEF Flushed, DeviceOK, View, Seen
  <1>4. CASE PowerLost
    BY <1>1, <1>4 DEF PowerLost, DeviceOK
  <1>5. ASSUME NEW l \in Lba, Destaged(l) PROVE DeviceOK'
    BY <1>1, <1>5 DEF Destaged, DeviceOK
  <1>6. ASSUME NEW l, NEW x, StoredAt(l, x), SectorOK(x) PROVE DeviceOK'
    BY <1>6 DEF StoredAt, DeviceOK
  <1> QED
    BY <1>2, <1>3, <1>4, <1>5, <1>6

\* The fresh device and machine.
LEMMA TypeInvInit == Init => TypeInv
  <1> SUFFICES ASSUME Init PROVE TypeInv
    OBVIOUS
  <1>1. DeviceOK
    BY SectorTags DEF Init, DeviceOK, SectorOK
  <1>2. sb \in Superblock
    BY SMT, StoreAssumption DEF Init, Superblock, Unmounted
  <1>3. puts \in 0 .. PutsPerBoot
    BY SMT, StoreAssumption DEF Init
  <1>4. RunOK
    BY <1>2, <1>3 DEF Init, RunOK, SbSlot, Putting
  <1> QED
    BY <1>1, <1>4 DEF TypeInv

\* What the reads of a mount may publish.
LEMMA MountOutcome ==
    ASSUME DeviceOK, present \in BOOLEAN, mount
    PROVE  /\ Same /\ present' \in BOOLEAN
           /\ UNCHANGED <<op, done, puts, answer>>
           /\ \/ \E s \in SbSlot :
                   /\ View[s].tag = "sb"
                   /\ Publish(View[s].sb, s)
                   /\ pc' = "recover"
              \/ UNCHANGED ram /\ pc' \in {"format", "recover"}
  <1>1. PICK ra \in read_sector(present, LBA_SB_A) :
           \E rb \in read_sector(ra.up, LBA_SB_B) :
              LET a == read_superblock(ra)
                  b == read_superblock(rb)
              IN  /\ present' = rb.up
                  /\ \/ \E s \in best(a, b) :
                           /\ Publish(IF s = LBA_SB_A THEN a.sb ELSE b.sb, s)
                           /\ pc' = "recover"
                     \/ UNCHANGED ram /\ pc' \in {"format", "recover"}
    BY DEF mount
  <1>2. PICK rb \in read_sector(ra.up, LBA_SB_B) :
              LET a == read_superblock(ra)
                  b == read_superblock(rb)
              IN  /\ present' = rb.up
                  /\ \/ \E s \in best(a, b) :
                           /\ Publish(IF s = LBA_SB_A THEN a.sb ELSE b.sb, s)
                           /\ pc' = "recover"
                     \/ UNCHANGED ram /\ pc' \in {"format", "recover"}
    BY <1>1
  <1>3. ASSUME NEW up \in BOOLEAN, NEW l, NEW r \in read_sector(up, l)
        PROVE  /\ r.up \in BOOLEAN
               /\ r.ok = FALSE \/ (r.ok = TRUE /\ r.s = View[l])
    <2>1. \/ \E b \in BOOLEAN : r = [ok |-> FALSE, s |-> Clean, up |-> b]
          \/ r = [ok |-> TRUE, s |-> View[l], up |-> TRUE]
      BY DEF read_sector, View
    <2>2. ASSUME NEW b \in BOOLEAN, r = [ok |-> FALSE, s |-> Clean, up |-> b]
          PROVE  r.up = b /\ r.ok = FALSE
      BY <2>2
    <2>3. ASSUME r = [ok |-> TRUE, s |-> View[l], up |-> TRUE]
          PROVE  r.up = TRUE /\ r.ok = TRUE /\ r.s = View[l]
      BY <2>3
    <2> QED
      BY <2>1, <2>2, <2>3
  <1>4. ra.up \in BOOLEAN /\ (ra.ok = FALSE \/ (ra.ok = TRUE /\ ra.s = View[LBA_SB_A]))
    BY <1>3
  <1>5. rb.up \in BOOLEAN /\ (rb.ok = FALSE \/ (rb.ok = TRUE /\ rb.s = View[LBA_SB_B]))
    BY <1>3, <1>4
  <1>6. ASSUME NEW r, NEW l, r.ok = FALSE \/ (r.ok = TRUE /\ r.s = View[l]),
               read_superblock(r).read = "Valid"
        PROVE  View[l].tag = "sb" /\ read_superblock(r).sb = View[l].sb
    BY <1>6 DEF read_superblock
  <1>7. ASSUME NEW s \in best(read_superblock(ra), read_superblock(rb))
        PROVE  /\ s \in SbSlot /\ View[s].tag = "sb"
               /\ (IF s = LBA_SB_A THEN read_superblock(ra).sb
                                   ELSE read_superblock(rb).sb) = View[s].sb
    <2>1. s \in SbSlot
      BY DEF best
    <2>2. CASE s = LBA_SB_A
      BY <1>4, <1>6, <2>1, <2>2 DEF best
    <2>3. CASE s = LBA_SB_B
      <3>1. s # LBA_SB_A
        BY SMT, <2>3 DEF LBA_SB_A, LBA_SB_B
      <3> QED
        BY <1>5, <1>6, <2>1, <2>3, <3>1 DEF best
    <2> QED
      BY <2>1, <2>2, <2>3 DEF SbSlot
  <1> QED
    BY <1>2, <1>5, <1>7 DEF mount, Same

\* The superblocks that format and put write.
LEMMA NewSuperblocks ==
    /\ SectorOK(SbSector(Formatted)) /\ Formatted \in Superblock
    /\ RunOK /\ pc \in Putting =>
          /\ SectorOK(SbSector(NewSb)) /\ NewSb \in Superblock
          /\ NewSb.seq = sb.seq + 1 /\ NewSb.root = op
          /\ NewSb.root_lba = sb.log_head_lba
          /\ NewSb.log_head_lba = sb.log_head_lba + SectorsOf[op] + 1
          /\ sb.log_head_lba \in Nat /\ sb.log_head_lba >= LBA_LOG_START
          /\ SectorsOf[op] \in Nat
  <1>1. Formatted \in Superblock /\ SectorOK(SbSector(Formatted))
    <2>1. Formatted \in Superblock
      BY SMT, StoreAssumption DEF Formatted, Superblock, LBA_LOG_START
    <2>2. Formatted.seq = 1 /\ Formatted.log_head_lba = LBA_LOG_START
      BY DEF Formatted
    <2>3. SbSector(Formatted).sb = Formatted
      BY SectorTags
    <2> QED
      BY SMT, <2>1, <2>2, <2>3 DEF SectorOK, LBA_LOG_START
  <1>2. ASSUME RunOK, pc \in Putting
        PROVE  /\ SectorOK(SbSector(NewSb)) /\ NewSb \in Superblock
               /\ NewSb.seq = sb.seq + 1 /\ NewSb.root = op
               /\ NewSb.root_lba = sb.log_head_lba
               /\ NewSb.log_head_lba = sb.log_head_lba + SectorsOf[op] + 1
               /\ sb.log_head_lba \in Nat /\ sb.log_head_lba >= LBA_LOG_START
               /\ SectorsOf[op] \in Nat
    <2>1. /\ op \in Object /\ SectorsOf[op] \in Nat
          /\ sb.seq \in Nat /\ sb.seq < MaxSeq
          /\ sb.log_head_lba \in Nat /\ sb.log_head_lba >= LBA_LOG_START
      BY SMT, <1>2, StoreAssumption DEF RunOK, Superblock
    <2>2. /\ NewSb.seq = sb.seq + 1 /\ NewSb.root = op
          /\ NewSb.root_lba = sb.log_head_lba
          /\ NewSb.log_head_lba = sb.log_head_lba + SectorsOf[op] + 1
      BY DEF NewSb, HdrLba
    <2>3. NewSb \in Superblock
      BY SMT, <2>1, StoreAssumption DEF NewSb, HdrLba, Superblock
    <2>4. SectorOK(SbSector(NewSb))
      BY SMT, <2>1, <2>2, <2>3, SectorTags DEF SectorOK, LBA_LOG_START
    <2> QED
      BY <2>1, <2>2, <2>3, <2>4
  <1> QED
    BY <1>1, <1>2

\* Every step keeps the type invariant.
LEMMA TypeInvNext == TypeInv /\ [Next]_vars => TypeInv'
  <1> SUFFICES ASSUME TypeInv, [Next]_vars PROVE TypeInv'
    OBVIOUS
  <1> USE DEF TypeInv
  <1>p. present \in BOOLEAN
    BY DEF RunOK
  <1>s. /\ SectorOK(TestPattern)
        /\ \A o, i : SectorOK(Data(o, i)) /\ SectorOK(Header(o, i))
    BY SectorTags DEF SectorOK
  <1>1. CASE Boot
    <2>1. PICK w \in {Now(FALSE, FALSE)}
                        \cup write_sector(TRUE, SmokeLba, TestPattern) :
             Device(w)
      BY <1>1 DEF Boot
    <2>2. /\ Same \/ StoredAt(SmokeLba, TestPattern)
          /\ present' \in BOOLEAN
      <3>1. CASE w = Now(FALSE, FALSE)
        BY <2>1, <3>1 DEF Device, Same, Now
      <3> QED
        BY <2>1, <3>1, WriteOutcome
    <2>3. DeviceOK'
      BY <2>2, <1>s, DeviceTypes
    <2>4. RunOK'
      BY <1>1, <2>2 DEF Boot, RunOK, ram, Putting
    <2> QED
      BY <2>3, <2>4
  <1>2. CASE mount
    <2>1. /\ Same /\ present' \in BOOLEAN
          /\ UNCHANGED <<op, done, puts, answer>>
          /\ \/ \E s \in SbSlot :
                   /\ View[s].tag = "sb"
                   /\ Publish(View[s].sb, s)
                   /\ pc' = "recover"
             \/ UNCHANGED ram /\ pc' \in {"format", "recover"}
      BY <1>2, <1>p, MountOutcome
    <2>2. DeviceOK'
      BY <2>1, DeviceTypes
    <2>3. \A s \in SbSlot : SectorOK(View[s])
      BY SMT, StoreAssumption DEF DeviceOK, View, Seen, SbSlot, Lba, LBA_SB_A,
         LBA_SB_B, LBA_LOG_START
    <2>4. RunOK'
      <3>1. CASE UNCHANGED ram /\ pc' \in {"format", "recover"}
        BY <2>1, <3>1 DEF RunOK, ram, Putting
      <3>2. ASSUME NEW s \in SbSlot, View[s].tag = "sb",
                   Publish(View[s].sb, s), pc' = "recover"
            PROVE  RunOK'
        BY <2>1, <2>3, <3>2 DEF RunOK, Publish, Putting, SectorOK
      <3> QED
        BY <2>1, <3>1, <3>2
    <2> QED
      BY <2>2, <2>4
  <1>3. CASE FormatWrite
    <2>1. PICK w \in write_sector(present, LBA_SB_A, SbSector(Formatted)) :
             /\ Device(w)
             /\ pc' = IF w.ok THEN "formatted" ELSE "recover"
      BY <1>3 DEF FormatWrite
    <2>2. DeviceOK' /\ present' \in BOOLEAN
      BY <2>1, <1>p, WriteOutcome, NewSuperblocks, DeviceTypes
    <2>3. RunOK'
      BY <1>3, <2>1, <2>2 DEF FormatWrite, RunOK, ram, Putting
    <2> QED
      BY <2>2, <2>3
  <1>4. CASE FormatFlush
    <2>1. PICK w \in flush(present) :
             /\ Device(w)
             /\ IF w.ok THEN Publish(Formatted, LBA_SB_A) ELSE UNCHANGED ram
      BY <1>4 DEF FormatFlush
    <2>2. DeviceOK' /\ present' \in BOOLEAN
      BY <2>1, <1>p, FlushOutcome, DeviceTypes
    <2>3. Formatted.seq > 0 /\ Formatted.log_head_lba >= LBA_LOG_START
      BY SMT DEF Formatted, LBA_LOG_START
    <2>4. RunOK'
      BY <1>4, <2>1, <2>2, <2>3, NewSuperblocks
      DEF FormatFlush, RunOK, ram, Putting, Publish, SbSlot
    <2> QED
      BY <2>2, <2>4
  <1>5. CASE recover
    <2>1. Same
      BY <1>5 DEF recover, Same
    <2>2. DeviceOK'
      BY <2>1, DeviceTypes
    <2>3. RunOK'
      BY <1>5 DEF recover, RunOK, ram, Putting
    <2> QED
      BY <2>2, <2>3
  <1>6. ASSUME NEW o \in Object, PutStart(o) PROVE TypeInv'
    <2>1. Same /\ present' = present
      BY <1>6 DEF PutStart, Same, device
    <2>2. DeviceOK'
      BY <2>1, DeviceTypes
    <2>3. SectorsOf[o] \in Nat /\ puts' \in 0 .. PutsPerBoot
      BY SMT, <1>6, StoreAssumption DEF PutStart, MayPut, RunOK
    <2>4. RunOK'
      BY SMT, <1>6, <2>1, <2>3 DEF PutStart, PutFails, RunOK, ram, Putting
    <2> QED
      BY <2>2, <2>4
  <1>7. CASE PutData
    <2>1. PICK w \in write_sector(present, sb.log_head_lba + done,
                                  Data(op, done + 1)) :
             /\ Device(w)
             /\ IF w.ok
                THEN done' = done + 1 /\ UNCHANGED <<ram, pc, answer>>
                ELSE PutFails /\ UNCHANGED done
      BY <1>7 DEF PutData
    <2>2. DeviceOK' /\ present' \in BOOLEAN
      BY <2>1, <1>p, <1>s, WriteOutcome, DeviceTypes
    <2>3. op \in Object /\ SectorsOf[op] \in Nat /\ done \in Nat
      BY SMT, <1>7, StoreAssumption DEF PutData, RunOK, Putting
    <2>4. CASE w.ok
      <3>1. done' \in 0 .. SectorsOf[op]
        BY SMT, <1>7, <2>1, <2>3, <2>4 DEF PutData, RunOK, Putting
      <3>2. pc' = "data" /\ UNCHANGED <<mounted, sb, slot, op, puts>>
        BY <1>7, <2>1, <2>4 DEF PutData, ram
      <3> QED
        BY <1>7, <2>2, <3>1, <3>2 DEF PutData, RunOK, Putting
    <2>5. CASE ~w.ok
      BY <1>7, <2>1, <2>2, <2>5 DEF PutData, PutFails, RunOK, ram, Putting
    <2>6. RunOK'
      BY <2>4, <2>5
    <2> QED
      BY <2>2, <2>6
  <1>8. CASE PutHeader
    <2>1. PICK w \in write_sector(present, HdrLba, Header(op, sb.root_lba)) :
             /\ Device(w)
             /\ IF w.ok THEN pc' = "flush" /\ UNCHANGED <<ram, answer>>
                        ELSE PutFails
      BY <1>8 DEF PutHeader
    <2>2. DeviceOK' /\ present' \in BOOLEAN
      BY <2>1, <1>p, <1>s, WriteOutcome, DeviceTypes
    <2>3. RunOK'
      BY <1>8, <2>1, <2>2 DEF PutHeader, PutFails, RunOK, ram, Putting
    <2> QED
      BY <2>2, <2>3
  <1>9. CASE PutFlush
    <2>1. PICK w \in flush(present) :
             /\ Device(w)
             /\ IF w.ok THEN pc' = "flip" /\ UNCHANGED <<ram, answer>>
                        ELSE PutFails
      BY <1>9 DEF PutFlush
    <2>2. DeviceOK' /\ present' \in BOOLEAN
      BY <2>1, <1>p, FlushOutcome, DeviceTypes
    <2>3. RunOK'
      BY <1>9, <2>1, <2>2 DEF PutFlush, PutFails, RunOK, ram, Putting
    <2> QED
      BY <2>2, <2>3
  <1>10. CASE PutFlip
    <2>1. PICK w \in write_sector(present, Other(slot), SbSector(NewSb)) :
             /\ Device(w)
             /\ IF w.ok THEN pc' = "commit" /\ UNCHANGED <<ram, answer>>
                        ELSE PutFails
      BY <1>10 DEF PutFlip
    <2>0. SectorOK(SbSector(NewSb))
      BY <1>10, NewSuperblocks DEF PutFlip, Putting
    <2>2. DeviceOK' /\ present' \in BOOLEAN
      BY <2>0, <2>1, <1>p, WriteOutcome, DeviceTypes
    <2>3. RunOK'
      BY <1>10, <2>1, <2>2 DEF PutFlip, PutFails, RunOK, ram, Putting
    <2> QED
      BY <2>2, <2>3
  <1>11. CASE PutCommit
    <2>1. PICK w \in flush(present) :
             /\ Device(w)
             /\ IF w.ok
                THEN /\ Publish(NewSb, Other(slot))
                     /\ pc' = "idle"
                     /\ answer' = [op |-> "put", root |-> op]
                ELSE PutFails
      BY <1>11 DEF PutCommit
    <2>2. DeviceOK' /\ present' \in BOOLEAN
      BY <2>1, <1>p, FlushOutcome, DeviceTypes
    <2>3. /\ NewSb \in Superblock /\ NewSb.seq > 0
          /\ NewSb.log_head_lba >= LBA_LOG_START
      BY <1>11, NewSuperblocks, SectorTags DEF PutCommit, Putting, SectorOK
    <2>4. Other(slot) \in SbSlot
      BY DEF Other, SbSlot
    <2>5. RunOK'
      BY <1>11, <2>1, <2>2, <2>3, <2>4
      DEF PutCommit, PutFails, Publish, RunOK, ram, Putting
    <2> QED
      BY <2>2, <2>5
  <1>12. CASE SeedScratch
    <2>1. PICK w \in write_sector(present, ScratchLba, TestPattern) : Device(w)
      BY <1>12 DEF SeedScratch
    <2>2. DeviceOK' /\ present' \in BOOLEAN
      BY <2>1, <1>p, <1>s, WriteOutcome, DeviceTypes
    <2>3. RunOK'
      BY <1>12, <2>2 DEF SeedScratch, RunOK, ram, run
    <2> QED
      BY <2>2, <2>3
  <1>13. ASSUME NEW lba \in Lba, Destage(lba) PROVE TypeInv'
    <2>1. Destaged(lba)
      BY <1>13 DEF Destage, Destaged
    <2>2. DeviceOK'
      BY <2>1, DeviceTypes
    <2>3. RunOK'
      BY <1>13 DEF Destage, RunOK, ram, run
    <2> QED
      BY <2>2, <2>3
  <1>r. Restarted => RunOK'
    <2>1. Unmounted \in Superblock
      BY SMT, StoreAssumption DEF Unmounted, Superblock
    <2>2. 0 \in 0 .. PutsPerBoot
      BY SMT, StoreAssumption
    <2> QED
      BY <2>1, <2>2 DEF Restarted, RunOK, SbSlot, Putting
  <1>14. CASE Reset
    <2>1. DeviceOK'
      BY <1>14, DeviceTypes DEF Reset, Same
    <2> QED
      BY <1>14, <1>r, <2>1 DEF Reset
  <1>15. CASE PowerLoss
    <2>1. PICK torn \in SUBSET {l \in Lba : cache[l] # Clean} :
             disk' = [l \in Lba |-> IF l \in torn THEN Torn ELSE disk[l]]
      BY <1>15 DEF PowerLoss
    <2>2. PowerLost
      BY <1>15, <2>1 DEF PowerLoss, PowerLost
    <2>3. DeviceOK'
      BY <2>2, DeviceTypes
    <2> QED
      BY <1>15, <1>r, <2>3 DEF PowerLoss
  <1>16. CASE UNCHANGED vars
    <2>1. DeviceOK'
      BY <1>16, DeviceTypes DEF vars, device, Same
    <2> QED
      BY <1>16, <2>1 DEF vars, device, ram, run, RunOK
  <1> QED
    BY <1>1, <1>2, <1>3, <1>4, <1>5, <1>6, <1>7, <1>8, <1>9, <1>10, <1>11,
       <1>12, <1>13, <1>14, <1>15, <1>16 DEF Next

\* Sectors, the mounted superblock and the steps of mount and put are well
\* formed, whatever fails and wherever the log has grown to.
THEOREM StoreTypes == Spec => []TypeOK
  <1>1. Spec => []TypeInv
    BY TypeInvInit, TypeInvNext, PTL DEF Spec
  <1> QED
    BY <1>1, TypeInvTypes, PTL

-----------------------------------------------------------------------------
(* The invariant of the slots *)

\* Where the log ends at the latest after seq - 1 commits, when no object has
\* more than m sectors.
LogBound(seq, m) == LBA_LOG_START + (seq - 1) * (m + 1)

\* The log does not reach the scratch sectors.
Fits(m) ==
    /\ \A o \in Object : SectorsOf[o] <= m
    /\ \A l \in {SmokeLba, ScratchLba} \cap Lba : l >= LogBound(MaxSeq, m)

WellPlaced(m, x) ==
    /\ x.log_head_lba <= LogBound(x.seq, m)
    /\ x.root # NoRoot => /\ x.root_lba >= LBA_LOG_START
                          /\ x.root_lba + SectorsOf[x.root] < x.log_head_lba

\* The root's sectors are on disk, and nothing is about to overwrite them.
Settled(d, c, x) ==
    HasData(x.root) =>
        \A i \in 1 .. SectorsOf[x.root] :
            /\ x.root_lba + i - 1 \in Lba
            /\ c[x.root_lba + i - 1] = Clean
            /\ d[x.root_lba + i - 1] = Data(x.root, i)

\* Both slots never have the same sequence number.
SeqsDiffer(v) ==
    v[LBA_SB_A].tag = "sb" /\ v[LBA_SB_B].tag = "sb" =>
        v[LBA_SB_A].sb.seq # v[LBA_SB_B].sb.seq

\* At most one superblock is on its way to the disk; it is the latest one and
\* overwrites one that a mount after a power loss would not pick.
OnePending ==
    \A s \in SbSlot : cache[s] # Clean =>
        /\ cache[s].tag = "sb" /\ cache[Other(s)] = Clean
        /\ s \notin Chosen(disk) /\ s \in Chosen(View)

HeadsOrdered ==
    \A s \in Chosen(disk), t \in Chosen(View) :
        disk[s].sb.log_head_lba <= View[t].sb.log_head_lba

SlotInv(m) ==
    /\ \A s \in SbSlot : /\ disk[s].tag = "sb" => WellPlaced(m, disk[s].sb)
                         /\ cache[s].tag = "sb" => WellPlaced(m, cache[s].sb)
    /\ OnePending
    /\ SeqsDiffer(disk) /\ SeqsDiffer(View)
    /\ \A s \in Chosen(disk) : Settled(disk, cache, disk[s].sb)
    /\ \A s \in Chosen(View) : Settled(disk, cache, View[s].sb)
    /\ HeadsOrdered

\* The slots and their names.
LEMMA Slots ==
    /\ \A s \in SbSlot : /\ s \in Lba /\ s < LBA_LOG_START
                         /\ Other(s) \in SbSlot /\ Other(s) # s
                         /\ Other(Other(s)) = s
    /\ Other(LBA_SB_A) = LBA_SB_B /\ Other(LBA_SB_B) = LBA_SB_A
    /\ LBA_SB_A \in SbSlot /\ LBA_SB_B \in SbSlot
  BY SMT, StoreAssumption
  DEF SbSlot, Lba, Other, LBA_SB_A, LBA_SB_B, LBA_LOG_START

\* Chosen spelt out.
LEMMA ChosenDef ==
    ASSUME NEW v, NEW s
    PROVE  s \in Chosen(v) <=>
              /\ s \in SbSlot /\ v[s].tag = "sb"
              /\ \/ v[Other(s)].tag # "sb"
                 \/ v[s].sb.seq > v[Other(s)].sb.seq
                 \/ v[s].sb.seq = v[Other(s)].sb.seq /\ s = LBA_SB_A
  <1> DEFINE R(l) == read_superblock([ok |-> TRUE, s |-> v[l]])
  <1>1. \A l : /\ R(l).read = "Valid" <=> v[l].tag = "sb"
               /\ v[l].tag = "sb" => R(l).sb = v[l].sb
    BY DEF read_superblock
  <1>2. Chosen(v) = best(R(LBA_SB_A), R(LBA_SB_B))
    BY DEF Chosen
  <1> HIDE DEF R
  <1>3. CASE s = LBA_SB_A
    BY <1>1, <1>2, <1>3, Slots DEF best
  <1>4. CASE s = LBA_SB_B
    BY <1>1, <1>2, <1>4, Slots DEF best
  <1>5. CASE s \notin SbSlot
    BY <1>2, <1>5 DEF best
  <1> QED
    BY <1>3, <1>4, <1>5 DEF SbSlot

\* What a mount picks depends on the two slots only.
LEMMA ChosenSame ==
    ASSUME NEW v, NEW w, \A s \in SbSlot : v[s] = w[s]
    PROVE  Chosen(v) = Chosen(w)
  <1>1. ASSUME NEW s PROVE s \in Chosen(v) <=> s \in Chosen(w)
    <2>1. s \in SbSlot => v[s] = w[s] /\ v[Other(s)] = w[Other(s)]
      BY Slots
    <2> QED
      BY SMT, <2>1, ChosenDef
  <1> QED
    BY <1>1, ChosenDef

\* A mount picks one slot at most, unless none differ.
LEMMA ChosenOne ==
    ASSUME NEW v, SeqsDiffer(v), NEW s \in Chosen(v), NEW t \in Chosen(v),
           \A l \in SbSlot : SectorOK(v[l])
    PROVE  s = t
  <1>1. s \in SbSlot /\ t \in SbSlot /\ v[s].tag = "sb" /\ v[t].tag = "sb"
    BY ChosenDef
  <1>2. v[s].sb.seq \in Nat /\ v[t].sb.seq \in Nat
    BY SMT, <1>1 DEF SectorOK, Superblock
  <1>3. s # t => t = Other(s) /\ s = Other(t)
    BY <1>1, Slots DEF SbSlot
  <1>4. s # t => v[s].sb.seq # v[t].sb.seq
    BY SMT, <1>1 DEF SbSlot, SeqsDiffer
  <1> QED
    BY SMT, <1>1, <1>2, <1>3, <1>4, ChosenDef

\* The view, before a step and after it.
LEMMA ViewAt ==
    \A l \in Lba : View[l] = IF cache[l] = Clean THEN disk[l] ELSE cache[l]
  BY DEF View, Seen

\* What each access to the device does to the view.
LEMMA ViewStep ==
    ASSUME DeviceOK
    PROVE  /\ Same => View' = View
           /\ Flushed => View' = View
           /\ \A l : Destaged(l) => View' = View
           /\ PowerLost => View' = disk'
           /\ \A l, x : StoredAt(l, x) /\ x # Clean =>
                 \A k \in Lba : View'[k] = IF k = l THEN x ELSE View[k]
  <1>1. ASSUME Same PROVE View' = View
    BY <1>1 DEF Same, View, Seen
  <1>2. ASSUME Flushed PROVE View' = View
    BY <1>2 DEF Flushed, View, Seen
  <1>3. ASSUME NEW l, Destaged(l) PROVE View' = View
    BY <1>3 DEF Destaged, View, Seen, DeviceOK
  <1>4. ASSUME PowerLost PROVE View' = disk'
    BY <1>4 DEF PowerLost, View, Seen
  <1>5. ASSUME NEW l, NEW x, StoredAt(l, x), x # Clean, NEW k \in Lba
        PROVE  View'[k] = IF k = l THEN x ELSE View[k]
    BY <1>5 DEF StoredAt, View, Seen, DeviceOK
  <1> QED
    BY <1>1, <1>2, <1>3, <1>4, <1>5

-----------------------------------------------------------------------------
(* The device steps keep the invariant of the slots *)

\* The superblocks of both slots, on disk and in the view, are well formed.
LEMMA SlotTypes ==
    ASSUME DeviceOK, NEW m, SlotInv(m), NEW s \in SbSlot
    PROVE  /\ SectorOK(disk[s]) /\ SectorOK(View[s])
           /\ disk[s].tag = "sb" => WellPlaced(m, disk[s].sb)
           /\ View[s].tag = "sb" => WellPlaced(m, View[s].sb)
           /\ View[s] \in {disk[s], cache[s]}
  BY ViewAt, Slots DEF DeviceOK, SlotInv

\* A flush.
LEMMA SlotFlushed ==
    ASSUME DeviceOK, NEW m, SlotInv(m), Flushed
    PROVE  SlotInv(m)'
  <1>1. View' = View /\ disk' = View /\ \A l \in Lba : cache'[l] = Clean
    BY ViewStep DEF Flushed
  <1>2. \A s \in SbSlot :
           /\ disk'[s].tag = "sb" => WellPlaced(m, disk'[s].sb)
           /\ cache'[s].tag = "sb" => WellPlaced(m, cache'[s].sb)
    BY <1>1, SlotTypes, SectorTags, Slots
  <1>3. OnePending'
    BY <1>1, Slots DEF OnePending
  <1>4. SeqsDiffer(disk)' /\ SeqsDiffer(View)'
    BY <1>1 DEF SlotInv, SeqsDiffer
  <1>5. \A s \in Chosen(View) : Settled(disk', cache', View[s].sb)
    BY <1>1, ViewAt DEF SlotInv, Settled
  <1>6. HeadsOrdered'
    <2>1. SUFFICES ASSUME NEW s \in Chosen(View), NEW t \in Chosen(View)
                   PROVE  View[s].sb.log_head_lba <= View[t].sb.log_head_lba
      BY <1>1 DEF HeadsOrdered
    <2>2. s = t
      BY ChosenOne, SlotTypes DEF SlotInv
    <2>3. View[s].sb.log_head_lba \in Nat
      BY SMT, SlotTypes, ChosenDef DEF SectorOK, Superblock
    <2> QED
      BY SMT, <2>2, <2>3
  <1> QED
    BY <1>1, <1>2, <1>3, <1>4, <1>5, <1>6 DEF SlotInv

\* The device writes a cached sector back.
LEMMA SlotDestaged ==
    ASSUME DeviceOK, NEW m, SlotInv(m), NEW l, Destaged(l)
    PROVE  /\ SlotInv(m)'
           /\ \A x : Settled(disk, cache, x) => Settled(disk', cache', x)
           /\ \A s \in SbSlot : cache[s] = Clean => cache'[s] = Clean
           /\ \A s \in Chosen(disk) : disk'[s] = disk[s]
           /\ \/ \A s \in SbSlot : disk'[s] = View[s]
              \/ \A s \in SbSlot : disk'[s] = disk[s]
  <1>1. /\ View' = View /\ l \in Lba /\ cache[l] # Clean
        /\ \A k \in Lba : disk'[k] = IF k = l THEN cache[l] ELSE disk[k]
        /\ \A k \in Lba : cache'[k] = IF k = l THEN Clean ELSE cache[k]
    BY ViewStep DEF Destaged, DeviceOK
  <1>2. \A s \in SbSlot :
           /\ disk'[s].tag = "sb" => WellPlaced(m, disk'[s].sb)
           /\ cache'[s].tag = "sb" => WellPlaced(m, cache'[s].sb)
    BY <1>1, SectorTags, Slots DEF SlotInv
  <1>3. ASSUME NEW x, Settled(disk, cache, x) PROVE Settled(disk', cache', x)
    BY <1>1, <1>3 DEF Settled
  <1>4. ASSUME l \in SbSlot PROVE SlotInv(m)'
    <2>1. \A s \in SbSlot : disk'[s] = View[s] /\ cache'[s] = Clean
      <3>1. cache[Other(l)] = Clean
        BY <1>1, <1>4 DEF SlotInv, OnePending
      <3>2. \A s \in SbSlot : s = l \/ s = Other(l)
        BY <1>4, Slots DEF SbSlot
      <3> QED
        BY <1>1, <3>1, <3>2, ViewAt, Slots
    <2>2. Chosen(disk') = Chosen(View)
      BY <2>1, ChosenSame
    <2>3. OnePending'
      BY <2>1 DEF OnePending
    <2>4. SeqsDiffer(disk)' /\ SeqsDiffer(View)'
      BY <1>1, <2>1, Slots DEF SlotInv, SeqsDiffer
    <2>5. /\ \A s \in Chosen(disk') : Settled(disk', cache', disk'[s].sb)
          /\ \A s \in Chosen(View) : Settled(disk', cache', View[s].sb)
      BY <1>3, <2>1, <2>2, ChosenDef DEF SlotInv
    <2>6. HeadsOrdered'
      <3>1. SUFFICES ASSUME NEW s \in Chosen(View), NEW t \in Chosen(View)
                     PROVE  disk'[s].sb.log_head_lba <= View[t].sb.log_head_lba
        BY <1>1, <2>2 DEF HeadsOrdered
      <3>2. s = t /\ disk'[s] = View[s]
        BY <2>1, ChosenOne, ChosenDef, SlotTypes DEF SlotInv
      <3>3. View[s].sb.log_head_lba \in Nat
        BY SMT, SlotTypes, ChosenDef DEF SectorOK, Superblock
      <3> QED
        BY SMT, <3>2, <3>3
    <2> QED
      BY <1>1, <1>2, <2>3, <2>4, <2>5, <2>6 DEF SlotInv
  <1>5. ASSUME l \notin SbSlot PROVE SlotInv(m)'
    <2>1. \A s \in SbSlot : disk'[s] = disk[s] /\ cache'[s] = cache[s]
      BY <1>1, <1>5, Slots
    <2>2. Chosen(disk') = Chosen(disk)
      BY <2>1, ChosenSame
    <2>3. OnePending'
      BY <1>1, <2>1, <2>2, Slots DEF SlotInv, OnePending
    <2>4. SeqsDiffer(disk)' /\ SeqsDiffer(View)'
      BY <1>1, <2>1, Slots DEF SlotInv, SeqsDiffer
    <2>5. /\ \A s \in Chosen(disk') : Settled(disk', cache', disk'[s].sb)
          /\ \A s \in Chosen(View) : Settled(disk', cache', View[s].sb)
      BY <1>3, <2>1, <2>2, ChosenDef DEF SlotInv
    <2>6. HeadsOrdered'
      BY <1>1, <2>1, <2>2, ChosenDef DEF SlotInv, HeadsOrdered
    <2> QED
      BY <1>1, <1>2, <2>3, <2>4, <2>5, <2>6 DEF SlotInv
  <1>6. \/ \A s \in SbSlot : disk'[s] = View[s]
        \/ \A s \in SbSlot : disk'[s] = disk[s]
    <2>1. CASE l \in SbSlot
      <3>1. cache[Other(l)] = Clean
        BY <1>1, <2>1 DEF SlotInv, OnePending
      <3>2. \A s \in SbSlot : s = l \/ s = Other(l)
        BY <2>1, Slots DEF SbSlot
      <3> QED
        BY <1>1, <3>1, <3>2, ViewAt, Slots
    <2>2. CASE l \notin SbSlot
      BY <1>1, <2>2, Slots
    <2> QED
      BY <2>1, <2>2
  <1>7. \A s \in Chosen(disk) : disk'[s] = disk[s]
    <2>1. \A s \in Chosen(disk) : s \in SbSlot /\ cache[s] = Clean
      BY ChosenDef DEF SlotInv, OnePending
    <2> QED
      BY <1>1, <2>1, Slots
  <1>8. \A s \in SbSlot : cache[s] = Clean => cache'[s] = Clean
    BY <1>1, Slots
  <1> QED
    BY <1>3, <1>4, <1>5, <1>6, <1>7, <1>8

\* A power loss tears no sector that the picked superblock depends on.
LEMMA ChosenSurvives ==
    ASSUME DeviceOK, NEW m, SlotInv(m), PowerLost
    PROVE  /\ Chosen(disk') = Chosen(disk)
           /\ \A s \in Chosen(disk) : disk'[s] = disk[s]
  <1>1. \A s \in SbSlot : disk'[s] = disk[s]
                          \/ (disk'[s].tag = "torn" /\ cache[s] # Clean)
    BY Slots, SectorTags DEF PowerLost
  <1>2. \A s \in Chosen(disk) : s \in SbSlot /\ cache[s] = Clean
    BY ChosenDef DEF SlotInv, OnePending
  <1>3. \A s \in Chosen(disk) : disk'[s] = disk[s]
    BY <1>1, <1>2
  <1>4. ASSUME NEW s \in Chosen(disk) PROVE s \in Chosen(disk')
    <2>1. s \in SbSlot /\ disk'[s] = disk[s] /\ Other(s) \in SbSlot
      BY <1>2, <1>3, Slots
    <2> QED
      BY SMT, <1>1, <2>1, ChosenDef
  <1>5. ASSUME NEW s \in Chosen(disk') PROVE s \in Chosen(disk)
    <2>1. /\ s \in SbSlot /\ disk'[s].tag = "sb" /\ disk'[s] = disk[s]
          /\ Other(s) \in SbSlot /\ Other(Other(s)) = s
      BY <1>1, ChosenDef, Slots
    <2>2. CASE disk'[Other(s)] = disk[Other(s)]
      BY SMT, <2>1, <2>2, ChosenDef
    <2>3. CASE cache[Other(s)] # Clean
      <3>1. Other(s) \notin Chosen(disk)
        BY <2>1, <2>3 DEF SlotInv, OnePending
      <3>2. disk[Other(s)].tag = "sb" =>
               disk[s].sb.seq \in Nat /\ disk[Other(s)].sb.seq \in Nat
        BY SMT, <2>1, SlotTypes DEF SectorOK, Superblock
      <3>3. CASE disk[Other(s)].tag # "sb"
        BY <2>1, <3>3, ChosenDef
      <3>4. CASE disk[Other(s)].tag = "sb"
        <4>1. ~ disk[Other(s)].sb.seq > disk[s].sb.seq
          BY <2>1, <3>1, <3>4, ChosenDef
        <4>2. ~ (disk[Other(s)].sb.seq = disk[s].sb.seq /\ Other(s) = LBA_SB_A)
          BY <2>1, <3>1, <3>4, ChosenDef
        <4>3. Other(s) # LBA_SB_A => s = LBA_SB_A
          BY <2>1, Slots DEF SbSlot
        <4> QED
          BY SMT, <2>1, <3>2, <3>4, <4>1, <4>2, <4>3, ChosenDef
      <3> QED
        BY <3>3, <3>4
    <2> QED
      BY <1>1, <2>1, <2>2, <2>3
  <1> QED
    BY <1>3, <1>4, <1>5

\* A power loss.
LEMMA SlotPowerLost ==
    ASSUME DeviceOK, NEW m, SlotInv(m), PowerLost
    PROVE  SlotInv(m)'
  <1>1. /\ View' = disk' /\ \A l \in Lba : cache'[l] = Clean
        /\ \A l \in Lba : cache[l] = Clean => disk'[l] = disk[l]
        /\ \A l \in Lba : disk'[l] = disk[l] \/ disk'[l].tag = "torn"
    BY ViewStep, SectorTags DEF PowerLost
  <1>2. /\ Chosen(disk') = Chosen(disk)
        /\ \A s \in Chosen(disk) : disk'[s] = disk[s]
    BY ChosenSurvives
  <1>3. \A s \in SbSlot :
           /\ disk'[s].tag = "sb" => WellPlaced(m, disk'[s].sb)
           /\ cache'[s].tag = "sb" => WellPlaced(m, cache'[s].sb)
    BY <1>1, SectorTags, Slots DEF SlotInv
  <1>4. OnePending'
    BY <1>1, Slots DEF OnePending
  <1>5. SeqsDiffer(disk)' /\ SeqsDiffer(View)'
    BY <1>1, Slots DEF SlotInv, SeqsDiffer
  <1>6. \A s \in Chosen(disk) : Settled(disk', cache', disk[s].sb)
    BY <1>1 DEF SlotInv, Settled
  <1>7. HeadsOrdered'
    <2>1. SUFFICES ASSUME NEW s \in Chosen(disk), NEW t \in Chosen(disk)
                   PROVE  disk[s].sb.log_head_lba <= disk[t].sb.log_head_lba
      BY <1>1, <1>2 DEF HeadsOrdered
    <2>2. s = t
      BY ChosenOne, SlotTypes DEF SlotInv
    <2>3. disk[s].sb.log_head_lba \in Nat
      BY SMT, SlotTypes, ChosenDef DEF SectorOK, Superblock
    <2> QED
      BY SMT, <2>2, <2>3
  <1>8. \A s \in Chosen(disk') : Settled(disk', cache', disk'[s].sb)
    BY <1>2, <1>6
  <1> QED
    BY <1>1, <1>2, <1>3, <1>4, <1>5, <1>7, <1>8 DEF SlotInv

\* A write outside the extent of a root leaves the root's sectors alone.
LEMMA SettledKept ==
    ASSUME DeviceOK, NEW m, NEW l \in Nat, NEW x, StoredAt(l, x),
           NEW z \in Superblock, WellPlaced(m, z), Settled(disk, cache, z),
           l < LBA_LOG_START \/ l >= z.log_head_lba
    PROVE  Settled(disk', cache', z)
  <1> SUFFICES ASSUME HasData(z.root), NEW i \in 1 .. SectorsOf[z.root]
               PROVE  /\ z.root_lba + i - 1 \in Lba
                      /\ cache'[z.root_lba + i - 1] = Clean
                      /\ disk'[z.root_lba + i - 1] = Data(z.root, i)
    BY DEF Settled
  <1>1. /\ z.root \in Object /\ z.root_lba \in Nat
        /\ z.log_head_lba \in Nat /\ SectorsOf[z.root] \in Nat
    BY StoreAssumption DEF Superblock, HasData
  <1>2. /\ z.root_lba >= LBA_LOG_START
        /\ z.root_lba + SectorsOf[z.root] < z.log_head_lba
    BY DEF WellPlaced, HasData
  <1>3. z.root_lba + i - 1 # l
    BY SMT, <1>1, <1>2 DEF LBA_LOG_START
  <1>4. /\ z.root_lba + i - 1 \in Lba
        /\ cache[z.root_lba + i - 1] = Clean
        /\ disk[z.root_lba + i - 1] = Data(z.root, i)
    BY DEF Settled
  <1> QED
    BY <1>3, <1>4 DEF StoredAt, DeviceOK

\* What a picked superblock satisfies.
LEMMA ChosenFacts ==
    ASSUME DeviceOK, NEW m, SlotInv(m)
    PROVE  /\ \A s \in Chosen(disk) :
                 /\ disk[s].tag = "sb" /\ disk[s].sb \in Superblock
                 /\ WellPlaced(m, disk[s].sb)
                 /\ Settled(disk, cache, disk[s].sb)
           /\ \A s \in Chosen(View) :
                 /\ View[s].tag = "sb" /\ View[s].sb \in Superblock
                 /\ WellPlaced(m, View[s].sb)
                 /\ Settled(disk, cache, View[s].sb)
  <1>1. ASSUME NEW s \in Chosen(disk)
        PROVE  /\ disk[s].tag = "sb" /\ disk[s].sb \in Superblock
               /\ WellPlaced(m, disk[s].sb)
               /\ Settled(disk, cache, disk[s].sb)
    <2>1. s \in SbSlot /\ disk[s].tag = "sb"
      BY ChosenDef
    <2> QED
      BY <2>1, SlotTypes DEF SlotInv, SectorOK
  <1>2. ASSUME NEW s \in Chosen(View)
        PROVE  /\ View[s].tag = "sb" /\ View[s].sb \in Superblock
               /\ WellPlaced(m, View[s].sb)
               /\ Settled(disk, cache, View[s].sb)
    <2>1. s \in SbSlot /\ View[s].tag = "sb"
      BY ChosenDef
    <2> QED
      BY <2>1, SlotTypes DEF SlotInv, SectorOK
  <1> QED
    BY <1>1, <1>2

\* A sector of the log that no picked superblock has reached.
Beyond(l) ==
    /\ l \in Nat /\ l >= LBA_LOG_START
    /\ \A s \in Chosen(disk) : l >= disk[s].sb.log_head_lba
    /\ \A s \in Chosen(View) : l >= View[s].sb.log_head_lba

\* A write to the log or to a scratch sector.
LEMMA SlotLogWrite ==
    ASSUME DeviceOK, NEW m, SlotInv(m), NEW l, NEW x, StoredAt(l, x),
           x # Clean, Beyond(l)
    PROVE  /\ SlotInv(m)'
           /\ \A s \in SbSlot : /\ disk'[s] = disk[s] /\ cache'[s] = cache[s]
                                /\ View'[s] = View[s]
           /\ Chosen(disk') = Chosen(disk) /\ Chosen(View') = Chosen(View)
           /\ \A z \in Superblock :
                 /\ WellPlaced(m, z) /\ Settled(disk, cache, z)
                 /\ l >= z.log_head_lba
                 => Settled(disk', cache', z)
  <1>0. l \in Nat /\ l \notin SbSlot
    BY SMT, Slots DEF Beyond, LBA_LOG_START
  <1>1. \A s \in SbSlot : /\ disk'[s] = disk[s] /\ cache'[s] = cache[s]
                          /\ View'[s] = View[s]
    BY SMTT(30), <1>0, Slots, ViewStep DEF StoredAt, DeviceOK
  <1>2. Chosen(disk') = Chosen(disk) /\ Chosen(View') = Chosen(View)
    BY <1>1, ChosenSame
  <1>3. \A z \in Superblock :
           /\ WellPlaced(m, z) /\ Settled(disk, cache, z)
           /\ l >= z.log_head_lba
           => Settled(disk', cache', z)
    BY <1>0, SettledKept
  <1>4. /\ \A s \in Chosen(disk') : Settled(disk', cache', disk'[s].sb)
        /\ \A s \in Chosen(View') : Settled(disk', cache', View'[s].sb)
    <2>1. ASSUME NEW s \in Chosen(disk)
          PROVE  Settled(disk', cache', disk'[s].sb)
      BY <1>1, <1>3, ChosenFacts, ChosenDef DEF Beyond
    <2>2. ASSUME NEW s \in Chosen(View)
          PROVE  Settled(disk', cache', View'[s].sb)
      BY <1>1, <1>3, ChosenFacts, ChosenDef DEF Beyond
    <2> QED
      BY <1>2, <2>1, <2>2
  <1>5. OnePending'
    BY <1>1, <1>2, Slots DEF SlotInv, OnePending
  <1>6. SeqsDiffer(disk)' /\ SeqsDiffer(View)'
    BY <1>1, Slots DEF SlotInv, SeqsDiffer
  <1>7. HeadsOrdered'
    BY <1>1, <1>2, ChosenDef DEF SlotInv, HeadsOrdered
  <1>8. \A s \in SbSlot :
           /\ disk'[s].tag = "sb" => WellPlaced(m, disk'[s].sb)
           /\ cache'[s].tag = "sb" => WellPlaced(m, cache'[s].sb)
    BY <1>1 DEF SlotInv
  <1>9. SlotInv(m)'
    BY <1>4, <1>5, <1>6, <1>7, <1>8 DEF SlotInv
  <1> QED
    BY <1>1, <1>2, <1>3, <1>9

\* A superblock written to the slot that is not picked, later than the other.
LEMMA SlotWrite ==
    ASSUME DeviceOK, NEW m, SlotInv(m), NEW s \in SbSlot, NEW y \in Superblock,
           StoredAt(s, SbSector(y)),
           \A t \in SbSlot : cache[t] = Clean,
           s \notin Chosen(disk),
           WellPlaced(m, y), Settled(disk, cache, y),
           disk[Other(s)].tag = "sb" =>
              /\ disk[Other(s)].sb.seq < y.seq
              /\ disk[Other(s)].sb.log_head_lba <= y.log_head_lba
    PROVE  /\ SlotInv(m)'
           /\ View'[s].tag = "sb" /\ View'[s].sb = y /\ Chosen(View') = {s}
           /\ View'[Other(s)] = View[Other(s)]
           /\ FlushOk => disk' = disk
           /\ ~FlushOk => disk' = View'
  <1> DEFINE o == Other(s)
  <1>0. /\ o \in SbSlot /\ o # s /\ Other(o) = s
        /\ s \in Lba /\ o \in Lba /\ s \in Nat /\ s < LBA_LOG_START
        /\ \A t \in SbSlot : t = s \/ t = o
    BY SMTT(30), Slots DEF SbSlot, Lba
  <1>x. SbSector(y).tag = "sb" /\ SbSector(y).sb = y /\ SbSector(y) # Clean
    BY SectorTags
  <1>1. /\ View'[s] = SbSector(y) /\ View'[o] = disk[o] /\ View[o] = disk[o]
        /\ cache'[o] = Clean /\ disk'[o] = disk[o]
    BY SMT, <1>0, <1>x, ViewStep, ViewAt DEF StoredAt, DeviceOK
  <1>2. /\ FlushOk => disk' = disk /\ cache'[s] = SbSector(y)
        /\ ~FlushOk => disk'[s] = SbSector(y) /\ disk' = View'
    BY SMTT(30), <1>0, DeviceTypes, ViewAt, ViewStep
    DEF StoredAt, DeviceOK, View, Seen
  <1> HIDE DEF o
  <1>3. Chosen(View') = {s}
    <2>1. y.seq \in Nat /\ (disk[o].tag = "sb" => disk[o].sb.seq \in Nat)
      BY SMTT(30), <1>0, SlotTypes DEF Superblock, SectorOK
    <2>2. s \in Chosen(View')
      BY <1>0, <1>x, <1>1, <2>1, ChosenDef DEF o
    <2>3. o \notin Chosen(View')
      BY SMTT(30), <1>0, <1>x, <1>1, <2>1, ChosenDef DEF o
    <2>4. ASSUME NEW t \in Chosen(View') PROVE t = s
      <3>1. t \in SbSlot
        BY ChosenDef
      <3> QED
        BY <1>0, <2>3, <3>1
    <2> QED
      BY <2>2, <2>4
  <1>4. Settled(disk', cache', y)
    BY <1>0, SettledKept
  <1>5. \A t \in Chosen(disk) : t = o /\ Settled(disk', cache', disk[t].sb)
    BY <1>0, SettledKept, ChosenFacts, ChosenDef
  <1>6. OnePending'
    <2>1. SUFFICES ASSUME cache'[s] # Clean
                   PROVE  /\ cache'[s].tag = "sb"
                          /\ s \notin Chosen(disk') /\ s \in Chosen(View')
      BY <1>0, <1>1 DEF OnePending, o
    <2>2. FlushOk
      BY <1>0, <2>1 DEF StoredAt
    <2> QED
      BY <1>2, <1>3, <1>x, <2>2
  <1>7. SeqsDiffer(disk)' /\ SeqsDiffer(View)'
    <2>1. SeqsDiffer(View)'
      BY SMTT(30), <1>0, <1>1, <1>x, SlotTypes
      DEF SeqsDiffer, SbSlot, Superblock, SectorOK, o
    <2> QED
      BY <1>2, <2>1 DEF SlotInv, SeqsDiffer
  <1>8. \A t \in SbSlot :
           /\ disk'[t].tag = "sb" => WellPlaced(m, disk'[t].sb)
           /\ cache'[t].tag = "sb" => WellPlaced(m, cache'[t].sb)
    BY SMT, <1>0, <1>1, <1>x, SectorTags DEF SlotInv, StoredAt, DeviceOK
  <1>9. /\ \A t \in Chosen(disk') : Settled(disk', cache', disk'[t].sb)
        /\ \A t \in Chosen(View') : Settled(disk', cache', View'[t].sb)
    BY <1>1, <1>2, <1>3, <1>4, <1>5, <1>x
  <1>10. HeadsOrdered'
    <2>1. SUFFICES ASSUME NEW t \in Chosen(disk')
                   PROVE  disk'[t].sb.log_head_lba <= y.log_head_lba
      BY <1>1, <1>3, <1>x DEF HeadsOrdered
    <2>2. CASE FlushOk
      <3>1. disk' = disk /\ t = o
        BY <1>2, <1>5, <2>2
      <3>2. disk[o].tag = "sb"
        BY <3>1, ChosenDef
      <3> QED
        BY <3>1, <3>2 DEF o
    <2>3. CASE ~FlushOk
      <3>1. t = s /\ disk'[t].sb = y
        BY <1>2, <1>3, <1>x, <2>3
      <3> QED
        BY SMTT(30), <3>1 DEF Superblock
    <2> QED
      BY <2>2, <2>3
  <1>11. SlotInv(m)'
    BY <1>6, <1>7, <1>8, <1>9, <1>10 DEF SlotInv
  <1> QED
    BY <1>1, <1>2, <1>3, <1>11, <1>x DEF o

-----------------------------------------------------------------------------
(* Where the log ends *)

\* No read fails, a boot whose put failed puts no more, and the log ends
\* below the scratch sectors.
Steady(m) == m \in Nat /\ Fits(m) /\ "read" \notin Faults /\ ~PutAgain

\* The bound grows with the sequence number, by a record at each commit.
LEMMA LogBoundGrows ==
    ASSUME NEW m \in Nat, NEW a \in Nat, NEW b \in Nat, a <= b
    PROVE  /\ LogBound(a, m) \in Int /\ LogBound(b, m) \in Int
           /\ LogBound(a, m) <= LogBound(b, m)
           /\ LogBound(a + 1, m) = LogBound(a, m) + m + 1
           /\ LogBound(1, m) = LBA_LOG_START
  <1>1. \A x \in Int : /\ x * (m + 1) \in Int
                       /\ (x + 1) * (m + 1) = x * (m + 1) + m + 1
    BY SMT
  <1>2. (a - 1) * (m + 1) <= (b - 1) * (m + 1)
    <2>1. (b - 1) * (m + 1) - (a - 1) * (m + 1) = (b - a) * (m + 1)
      BY SMT
    <2>2. (b - a) \in Nat /\ (m + 1) \in Nat
      BY SMT
    <2>3. (b - a) * (m + 1) \in Nat
      BY SMT, <2>2
    <2> QED
      BY SMT, <1>1, <2>1, <2>3
  <1>3. (a + 1 - 1) * (m + 1) = (a - 1) * (m + 1) + m + 1
    <2>1. a + 1 - 1 = (a - 1) + 1 /\ a - 1 \in Int
      BY SMT
    <2> QED
      BY <1>1, <2>1
  <1>4. (1 - 1) * (m + 1) = 0
    BY SMT
  <1> QED
    BY SMT, <1>1, <1>2, <1>3, <1>4 DEF LogBound, LBA_LOG_START

\* The scratch sectors lie beyond the log of every picked superblock.
LEMMA ScratchBeyond ==
    ASSUME DeviceOK, NEW m, Steady(m), SlotInv(m),
           NEW l \in {SmokeLba, ScratchLba}, l \in Lba
    PROVE  Beyond(l)
  <1>1. l \in Nat /\ l >= LBA_LOG_START /\ l >= LogBound(MaxSeq, m)
    BY SMT, StoreAssumption DEF Steady, Fits, SbSlot, LBA_SB_A, LBA_SB_B,
       LBA_LOG_START
  <1>2. ASSUME NEW z \in Superblock, WellPlaced(m, z)
        PROVE  l >= z.log_head_lba
    <2>1. /\ z.seq \in Nat /\ MaxSeq \in Nat /\ z.seq <= MaxSeq
          /\ z.log_head_lba \in Nat
      BY SMT, StoreAssumption DEF Superblock
    <2>2. z.log_head_lba <= LogBound(z.seq, m)
      BY <1>2 DEF WellPlaced
    <2>3. /\ LogBound(z.seq, m) \in Int /\ LogBound(MaxSeq, m) \in Int
          /\ LogBound(z.seq, m) <= LogBound(MaxSeq, m)
      BY <2>1, LogBoundGrows DEF Steady
    <2> QED
      BY SMT, <1>1, <2>1, <2>2, <2>3
  <1> QED
    BY <1>1, <1>2, ChosenFacts DEF Beyond

\* Slot s holds superblock x, and it is the one a mount of v would pick.
Holds(v, s, x) == s \in Chosen(v) /\ v[s].sb = x

\* The head of the mounted superblock's log is beyond every picked one.
LEMMA HeadBeyond ==
    ASSUME DeviceOK, NEW m, SlotInv(m), Holds(View, slot, sb),
           sb.log_head_lba >= LBA_LOG_START, sb.log_head_lba \in Nat,
           NEW l \in Nat, l >= sb.log_head_lba
    PROVE  Beyond(l)
  <1>1. \A s \in Chosen(View) : s = slot
    BY ChosenOne, SlotTypes DEF SlotInv, Holds
  <1>2. \A s \in Chosen(disk) :
           /\ disk[s].sb.log_head_lba \in Nat
           /\ disk[s].sb.log_head_lba <= sb.log_head_lba
    BY ChosenFacts DEF SlotInv, HeadsOrdered, Holds, Superblock
  <1> QED
    BY SMT, <1>1, <1>2 DEF Beyond, Holds, LBA_LOG_START

-----------------------------------------------------------------------------
(* The root a mount would recover *)

Named(o) == IF HasData(o) THEN o ELSE NoRoot

\* RootIn spelt out, for sectors whose picked root is whole.
LEMMA RootInDef ==
    ASSUME NEW v, \A s, t \in Chosen(v) : s = t,
           \A s \in Chosen(v) :
              HasData(v[s].sb.root) => Intact(v, v[s].sb)
    PROVE  /\ \A s \in Chosen(v) : RootIn(v) = Named(v[s].sb.root)
           /\ Chosen(v) = {} => RootIn(v) = NoRoot
  <1>1. Chosen(v) = {} => RootIn(v) = NoRoot
    BY DEF RootIn
  <1>2. ASSUME NEW s \in Chosen(v) PROVE RootIn(v) = Named(v[s].sb.root)
    <2>1. (CHOOSE t \in Chosen(v) : TRUE) = s
      OBVIOUS
    <2>2. CASE HasData(v[s].sb.root)
      BY <2>1, <2>2 DEF RootIn, Named
    <2>3. CASE ~HasData(v[s].sb.root)
      BY <2>3 DEF RootIn, Named
    <2> QED
      BY <2>2, <2>3
  <1> QED
    BY <1>1, <1>2

\* The durable and the visible root.
LEMMA RootsAre ==
    \A m : DeviceOK /\ SlotInv(m) =>
        /\ \A s \in Chosen(disk) : RootIn(disk) = Named(disk[s].sb.root)
        /\ Chosen(disk) = {} => RootIn(disk) = NoRoot
        /\ \A s \in Chosen(View) : RootIn(View) = Named(View[s].sb.root)
        /\ Chosen(View) = {} => RootIn(View) = NoRoot
        /\ RootIntact
  <1> SUFFICES ASSUME NEW m, DeviceOK, SlotInv(m)
               PROVE  /\ \A s \in Chosen(disk) :
                            RootIn(disk) = Named(disk[s].sb.root)
                      /\ Chosen(disk) = {} => RootIn(disk) = NoRoot
                      /\ \A s \in Chosen(View) :
                            RootIn(View) = Named(View[s].sb.root)
                      /\ Chosen(View) = {} => RootIn(View) = NoRoot
                      /\ RootIntact
    OBVIOUS
  <1>1. /\ \A s, t \in Chosen(disk) : s = t
        /\ \A s, t \in Chosen(View) : s = t
    BY ChosenOne, SlotTypes DEF SlotInv
  <1>2. ASSUME NEW x, HasData(x.root), Settled(disk, cache, x)
        PROVE  Intact(disk, x) /\ Intact(View, x)
    BY <1>2, ViewAt DEF Settled, Intact
  <1>3. /\ \A s \in Chosen(disk) :
              HasData(disk[s].sb.root) => Intact(disk, disk[s].sb)
        /\ \A s \in Chosen(View) :
              HasData(View[s].sb.root) => Intact(View, View[s].sb)
    BY <1>2 DEF SlotInv
  <1>4. RootIntact
    BY <1>3 DEF RootIntact, View
  <1> QED
    BY <1>1, <1>3, <1>4, RootInDef

\* The same for the state after a step.
LEMMA RootsAreNext ==
    (\A m : DeviceOK /\ SlotInv(m) =>
        /\ \A s \in Chosen(disk) : RootIn(disk) = Named(disk[s].sb.root)
        /\ Chosen(disk) = {} => RootIn(disk) = NoRoot
        /\ \A s \in Chosen(View) : RootIn(View) = Named(View[s].sb.root)
        /\ Chosen(View) = {} => RootIn(View) = NoRoot
        /\ RootIntact)'
  BY RootsAre, PTL

\* Sectors that agree in the slots have the same root.
LEMMA RootAgree ==
    ASSUME NEW v, NEW w, \A s \in SbSlot : v[s] = w[s],
           \A s \in Chosen(v) : RootIn(v) = Named(v[s].sb.root),
           Chosen(v) = {} => RootIn(v) = NoRoot,
           \A s \in Chosen(w) : RootIn(w) = Named(w[s].sb.root),
           Chosen(w) = {} => RootIn(w) = NoRoot
    PROVE  RootIn(v) = RootIn(w)
  <1>1. Chosen(v) = Chosen(w)
    BY ChosenSame
  <1>2. CASE Chosen(v) = {}
    BY <1>1, <1>2
  <1>3. ASSUME NEW s \in Chosen(v) PROVE RootIn(v) = RootIn(w)
    BY SMT, <1>1, <1>3, ChosenDef
  <1> QED
    BY <1>2, <1>3

\* What each device step does to the durable and to the visible root.
LEMMA RootMoves ==
    ASSUME DeviceOK, DeviceOK', NEW m, SlotInv(m), SlotInv(m)'
    PROVE  /\ Same => /\ RootIn(disk)' = RootIn(disk)
                      /\ RootIn(View)' = RootIn(View)
           /\ Flushed => /\ RootIn(disk)' = RootIn(View)
                         /\ RootIn(View)' = RootIn(View)
           /\ PowerLost => /\ RootIn(disk)' = RootIn(disk)
                           /\ RootIn(View)' = RootIn(disk)
           /\ \A l : Destaged(l) =>
                 /\ RootIn(disk)' \in {RootIn(disk), RootIn(View)}
                 /\ RootIn(View)' = RootIn(View)
           /\ (\A s \in SbSlot : disk'[s] = disk[s] /\ View'[s] = View[s]) =>
                 /\ RootIn(disk)' = RootIn(disk)
                 /\ RootIn(View)' = RootIn(View)
  <1>d. /\ \A s \in Chosen(disk) : RootIn(disk) = Named(disk[s].sb.root)
        /\ Chosen(disk) = {} => RootIn(disk) = NoRoot
        /\ \A s \in Chosen(View) : RootIn(View) = Named(View[s].sb.root)
        /\ Chosen(View) = {} => RootIn(View) = NoRoot
    BY RootsAre
  <1>n. /\ \A s \in Chosen(disk') : RootIn(disk') = Named(disk'[s].sb.root)
        /\ Chosen(disk') = {} => RootIn(disk') = NoRoot
        /\ \A s \in Chosen(View') : RootIn(View') = Named(View'[s].sb.root)
        /\ Chosen(View') = {} => RootIn(View') = NoRoot
    BY RootsAreNext
  <1>1. ASSUME Same
        PROVE  RootIn(disk') = RootIn(disk) /\ RootIn(View') = RootIn(View)
    BY <1>1, ViewStep DEF Same
  <1>2. ASSUME Flushed
        PROVE  RootIn(disk') = RootIn(View) /\ RootIn(View') = RootIn(View)
    BY <1>2, ViewStep DEF Flushed
  <1>3. ASSUME PowerLost
        PROVE  RootIn(disk') = RootIn(disk) /\ RootIn(View') = RootIn(disk)
    <2>1. View' = disk'
      BY <1>3, ViewStep
    <2>2. /\ Chosen(disk') = Chosen(disk)
          /\ \A s \in Chosen(disk) : disk'[s] = disk[s]
      BY <1>3, ChosenSurvives
    <2>3. CASE Chosen(disk) = {}
      BY <1>d, <1>n, <2>1, <2>2, <2>3
    <2>4. ASSUME NEW s \in Chosen(disk)
          PROVE  RootIn(disk') = RootIn(disk)
      BY SMT, <1>d, <1>n, <2>2, <2>4
    <2> QED
      BY <2>1, <2>3, <2>4
  <1>4. ASSUME NEW l, Destaged(l)
        PROVE  /\ RootIn(disk') \in {RootIn(disk), RootIn(View)}
               /\ RootIn(View') = RootIn(View)
    <2>1. View' = View
      BY <1>4, ViewStep
    <2>2. \/ \A s \in SbSlot : disk'[s] = View[s]
          \/ \A s \in SbSlot : disk'[s] = disk[s]
      BY <1>4, SlotDestaged
    <2>3. ASSUME \A s \in SbSlot : disk'[s] = View[s]
          PROVE  RootIn(disk') = RootIn(View)
      BY <1>d, <1>n, <2>3, RootAgree
    <2>4. ASSUME \A s \in SbSlot : disk'[s] = disk[s]
          PROVE  RootIn(disk') = RootIn(disk)
      BY <1>d, <1>n, <2>4, RootAgree
    <2> QED
      BY <2>1, <2>2, <2>3, <2>4
  <1>5. ASSUME \A s \in SbSlot : disk'[s] = disk[s] /\ View'[s] = View[s]
        PROVE  RootIn(disk') = RootIn(disk) /\ RootIn(View') = RootIn(View)
    <2>1. RootIn(disk') = RootIn(disk)
      BY <1>d, <1>n, <1>5, RootAgree
    <2>2. RootIn(View') = RootIn(View)
      BY <1>d, <1>n, <1>5, RootAgree
    <2> QED
      BY <2>1, <2>2
  <1>6. RootIn(disk)' = RootIn(disk') /\ RootIn(View)' = RootIn(View')
    OBVIOUS
  <1> QED
    BY <1>1, <1>2, <1>3, <1>4, <1>5, <1>6

-----------------------------------------------------------------------------
(* The invariant of a boot *)

\* What each place in mount and put knows of the slots and of the log.
RunInv ==
    /\ pc \in {"off", "mount", "format", "formatted"} => ~mounted
    /\ pc = "format" => Chosen(View) = {}
    /\ pc = "formatted" => Holds(View, LBA_SB_A, Formatted)
    /\ /\ mounted /\ pc # "commit"
       /\ pc = "idle" => answer.op # "failed"
       => Holds(View, slot, sb)
    /\ pc \in {"data", "flush"} =>
          \A i \in 1 .. done :
              /\ sb.log_head_lba + i - 1 \in Lba
              /\ View[sb.log_head_lba + i - 1] = Data(op, i)
    /\ pc = "flip" =>
          /\ \A s \in SbSlot : cache[s] = Clean
          /\ Settled(disk, cache, NewSb)
    /\ pc = "commit" => Holds(View, Other(slot), NewSb)

\* What a step must do: keep the invariants and leave the picked slot alone.
KeepsInv(m) ==
    /\ SlotInv(m)'
    /\ RunInv'
    /\ \A s \in Chosen(disk) : disk'[s] = disk[s]

Pending == IF pc \in Putting THEN op ELSE NoRoot

\* A step of the register, or none.
AbstractStep ==
    D!Next \/ UNCHANGED <<RootIn(disk), RootIn(View), Pending, answer>>

\* Steps that write to no slot change neither root.
LEMMA QuietWrite ==
    ASSUME DeviceOK, DeviceOK', NEW m, SlotInv(m),
           NEW l, NEW x, x # Clean,
           Same \/ (StoredAt(l, x) /\ Beyond(l))
    PROVE  /\ SlotInv(m)' /\ Chosen(View') = Chosen(View)
           /\ \A s \in SbSlot : View'[s] = View[s]
           /\ \A s \in Chosen(disk) : disk'[s] = disk[s]
           /\ RootIn(disk)' = RootIn(disk) /\ RootIn(View)' = RootIn(View)
  <1>1. CASE Same
    <2>1. View' = View /\ disk' = disk /\ cache' = cache
      BY <1>1, ViewStep DEF Same
    <2>2. SlotInv(m)'
      BY <2>1 DEF SlotInv, OnePending, SeqsDiffer, HeadsOrdered
    <2> QED
      BY <1>1, <2>1, <2>2, RootMoves
  <1>2. CASE StoredAt(l, x) /\ Beyond(l)
    <2>1. /\ SlotInv(m)' /\ Chosen(View') = Chosen(View)
          /\ \A s \in SbSlot : disk'[s] = disk[s] /\ View'[s] = View[s]
      BY SMTT(30), <1>2, SlotLogWrite
    <2> QED
      BY <2>1, RootMoves, ChosenDef
  <1> QED
    BY <1>1, <1>2

\* A flush moves the visible root to the disk.
LEMMA QuietFlush ==
    ASSUME DeviceOK, DeviceOK', NEW m, SlotInv(m), Same \/ Flushed
    PROVE  /\ SlotInv(m)' /\ View' = View
           /\ \A s \in Chosen(disk) : disk'[s] = disk[s]
           /\ RootIn(disk)' \in {RootIn(disk), RootIn(View)}
           /\ Flushed => RootIn(disk)' = RootIn(View)
           /\ RootIn(View)' = RootIn(View)
  <1>1. View' = View
    BY ViewStep
  <1>2. CASE Same
    <2>1. SlotInv(m)'
      BY <1>1, <1>2 DEF Same, SlotInv, OnePending, SeqsDiffer, HeadsOrdered
    <2> QED
      BY <1>1, <1>2, <2>1, RootMoves DEF Same
  <1>3. CASE Flushed
    <2>1. SlotInv(m)'
      BY <1>3, SlotFlushed
    <2>2. \A s \in Chosen(disk) : s \in SbSlot /\ cache[s] = Clean
      BY ChosenDef DEF SlotInv, OnePending
    <2>3. \A s \in Chosen(disk) : disk'[s] = disk[s]
      BY <1>3, <2>2, ViewAt, Slots DEF Flushed
    <2> QED
      BY <1>1, <1>3, <2>1, <2>3, RootMoves
  <1> QED
    BY <1>2, <1>3

-----------------------------------------------------------------------------
(* Boot, mount and recover *)

\* A mount whose reads do not fail publishes what it should.
LEMMA MountSteady ==
    ASSUME NEW m, Steady(m), present \in BOOLEAN, mount
    PROVE  /\ Same /\ UNCHANGED <<op, done, puts, answer>>
           /\ \/ \E s \in Chosen(View) :
                    Publish(View[s].sb, s) /\ pc' = "recover"
              \/ UNCHANGED ram /\ pc' = "recover"
              \/ UNCHANGED ram /\ pc' = "format" /\ Chosen(View) = {}
  <1> DEFINE Outcome(a, b) ==
                \/ \E s \in best(a, b) :
                      /\ Publish(IF s = LBA_SB_A THEN a.sb ELSE b.sb, s)
                      /\ pc' = "recover"
                \/ /\ a.read = "Invalid" /\ b.read = "Invalid"
                   /\ pc' = "format"
                   /\ UNCHANGED ram
                \/ pc' = "recover" /\ UNCHANGED ram
  <1>0. PICK ra \in read_sector(present, LBA_SB_A) :
           \E rb \in read_sector(ra.up, LBA_SB_B) :
              Outcome(read_superblock(ra), read_superblock(rb))
    BY DEF mount
  <1>1. PICK rb \in read_sector(ra.up, LBA_SB_B) :
           Outcome(read_superblock(ra), read_superblock(rb))
    BY <1>0
  <1>2. CASE ~present
    <2>1. ra = [ok |-> FALSE, s |-> Clean, up |-> FALSE]
      BY <1>2 DEF read_sector
    <2>2. ra.up = FALSE /\ ra.ok = FALSE
      BY <2>1
    <2>3. rb = [ok |-> FALSE, s |-> Clean, up |-> FALSE]
      BY <2>2 DEF read_sector
    <2>4. rb.ok = FALSE
      BY <2>3
    <2>5. read_superblock(ra).read = "Io" /\ read_superblock(rb).read = "Io"
      BY <2>2, <2>4 DEF read_superblock
    <2>6. best(read_superblock(ra), read_superblock(rb)) = {}
      BY <2>5 DEF best
    <2> QED
      BY <1>1, <2>5, <2>6 DEF mount, Same
  <1>3. CASE present
    <2>1. ra = [ok |-> TRUE, s |-> View[LBA_SB_A], up |-> TRUE]
      BY <1>3 DEF read_sector, Steady, View
    <2>2. ra.up = TRUE /\ ra.ok = TRUE /\ ra.s = View[LBA_SB_A]
      BY <2>1
    <2>3. rb = [ok |-> TRUE, s |-> View[LBA_SB_B], up |-> TRUE]
      BY <2>2 DEF read_sector, Steady, View
    <2>4. rb.ok = TRUE /\ rb.s = View[LBA_SB_B]
      BY <2>3
    <2> DEFINE R(l) == read_superblock([ok |-> TRUE, s |-> View[l]])
    <2>5. /\ read_superblock(ra) = R(LBA_SB_A)
          /\ read_superblock(rb) = R(LBA_SB_B)
      BY <2>2, <2>4 DEF read_superblock
    <2>6. \A l : /\ R(l).read = "Invalid" => View[l].tag # "sb"
                 /\ View[l].tag = "sb" => R(l).sb = View[l].sb
      BY DEF read_superblock
    <2>7. Chosen(View) = best(R(LBA_SB_A), R(LBA_SB_B))
      BY DEF Chosen
    <2> HIDE DEF R
    <2>8. ASSUME NEW s \in Chosen(View)
          PROVE  (IF s = LBA_SB_A THEN R(LBA_SB_A).sb ELSE R(LBA_SB_B).sb)
                    = View[s].sb
      <3>1. s \in SbSlot /\ View[s].tag = "sb"
        BY ChosenDef
      <3> QED
        BY <2>6, <3>1 DEF SbSlot
    <2>9. R(LBA_SB_A).read = "Invalid" /\ R(LBA_SB_B).read = "Invalid" =>
             Chosen(View) = {}
      BY <2>6, ChosenDef DEF SbSlot
    <2>10. Outcome(R(LBA_SB_A), R(LBA_SB_B))
      BY <1>1, <2>5
    <2> QED
      BY <2>7, <2>8, <2>9, <2>10 DEF mount, Same
  <1> QED
    BY <1>2, <1>3

\* A boot.
LEMMA BootStep ==
    ASSUME TypeInv, TypeInv', NEW m, Steady(m), SlotInv(m), RunInv, Boot
    PROVE  KeepsInv(m) /\ AbstractStep
  <1>1. Same \/ StoredAt(SmokeLba, TestPattern)
    <2>1. PICK w \in {Now(FALSE, FALSE)}
                        \cup write_sector(TRUE, SmokeLba, TestPattern) :
             Device(w)
      BY DEF Boot
    <2>2. CASE w = Now(FALSE, FALSE)
      BY <2>1, <2>2 DEF Device, Same, Now
    <2> QED
      BY <2>1, <2>2, WriteOutcome
  <1>2. TestPattern # Clean
    BY SectorTags
  <1>3. StoredAt(SmokeLba, TestPattern) => Beyond(SmokeLba)
    BY ScratchBeyond DEF StoredAt, TypeInv
  <1>4. /\ SlotInv(m)' /\ \A s \in Chosen(disk) : disk'[s] = disk[s]
        /\ RootIn(disk)' = RootIn(disk) /\ RootIn(View)' = RootIn(View)
    BY SMT, <1>1, <1>2, <1>3, QuietWrite DEF TypeInv
  <1>5. pc = "off" /\ pc' = "mount" /\ UNCHANGED <<ram, op, answer>>
    BY DEF Boot
  <1>6. RunInv'
    BY <1>5 DEF RunInv, ram
  <1> QED
    BY <1>4, <1>5, <1>6 DEF KeepsInv, AbstractStep, Pending, Putting

\* A mount.
LEMMA MountStep ==
    ASSUME TypeInv, TypeInv', NEW m, Steady(m), SlotInv(m), RunInv, mount
    PROVE  KeepsInv(m) /\ AbstractStep
  <1>1. /\ Same /\ UNCHANGED <<op, done, puts, answer>>
        /\ \/ \E s \in Chosen(View) :
                 Publish(View[s].sb, s) /\ pc' = "recover"
           \/ UNCHANGED ram /\ pc' = "recover"
           \/ UNCHANGED ram /\ pc' = "format" /\ Chosen(View) = {}
    BY MountSteady DEF TypeInv, RunOK
  <1>2. View' = View
    BY <1>1, ViewStep DEF TypeInv
  <1>3. /\ SlotInv(m)' /\ \A s \in Chosen(disk) : disk'[s] = disk[s]
        /\ RootIn(disk)' = RootIn(disk) /\ RootIn(View)' = RootIn(View)
    BY <1>1, QuietFlush, RootMoves DEF TypeInv
  <1>4. pc = "mount" /\ ~mounted
    BY DEF mount, RunInv
  <1>5. RunInv'
    BY SMTT(30), <1>1, <1>2, <1>4 DEF RunInv, ram, Publish, Holds
  <1>6. pc' \in {"recover", "format"}
    BY <1>1
  <1> QED
    BY <1>1, <1>3, <1>4, <1>5, <1>6
    DEF KeepsInv, AbstractStep, Pending, Putting

\* Nothing but the root of the mounted superblock is recovered.
LEMMA RecoverStep ==
    ASSUME TypeInv, TypeInv', NEW m, Steady(m), SlotInv(m), RunInv, recover
    PROVE  KeepsInv(m) /\ AbstractStep
  <1>1. /\ Same /\ UNCHANGED <<ram, op, done>>
        /\ pc = "recover" /\ pc' = "idle"
    BY DEF recover, Same
  <1>2. View' = View
    BY <1>1, ViewStep DEF TypeInv
  <1>3. /\ SlotInv(m)' /\ \A s \in Chosen(disk) : disk'[s] = disk[s]
        /\ RootIn(disk)' = RootIn(disk) /\ RootIn(View)' = RootIn(View)
    BY <1>1, QuietFlush, RootMoves DEF TypeInv
  <1>4. mounted => Holds(View, slot, sb)
    BY <1>1 DEF RunInv
  <1>5. RunInv'
    BY <1>1, <1>2, <1>4 DEF RunInv, ram
  <1>6. Pending = NoRoot /\ Pending' = NoRoot
    BY <1>1 DEF Pending, Putting
  <1>7. CASE answer' = [op |-> "unavailable"]
    <2>1. D!Unavailable
      BY <1>3, <1>6, <1>7 DEF D!Unavailable, Pending, View
    <2> QED
      BY <1>3, <1>5, <2>1 DEF KeepsInv, AbstractStep, D!Next
  <1>8. CASE /\ mounted
             /\ answer' = [op |-> "recover",
                           root |-> IF /\ HasData(sb.root)
                                       /\ Intact(Seen(disk, cache), sb)
                                    THEN sb.root ELSE NoRoot]
    <2>1. slot \in Chosen(View) /\ View[slot].sb = sb
      BY <1>4, <1>8 DEF Holds
    <2>2. RootIn(View) = Named(sb.root)
      BY <2>1, RootsAre DEF TypeInv
    <2>3. HasData(sb.root) => Intact(View, sb)
      BY <2>1, RootsAre DEF TypeInv, RootIntact, View
    <2>4. answer' = [op |-> "recover", root |-> RootIn(View)]
      BY <1>8, <2>2, <2>3 DEF Named, View
    <2>5. D!Recover
      BY <1>3, <1>6, <2>4 DEF D!Recover, Pending, View
    <2> QED
      BY <1>3, <1>5, <2>5 DEF KeepsInv, AbstractStep, D!Next
  <1> QED
    BY <1>7, <1>8 DEF recover

\* A format is written only where neither slot is valid.
LEMMA FormatWriteStep ==
    ASSUME TypeInv, TypeInv', NEW m, Steady(m), SlotInv(m), RunInv,
           FormatWrite
    PROVE  KeepsInv(m) /\ AbstractStep
  <1>1. PICK w \in write_sector(present, LBA_SB_A, SbSector(Formatted)) :
           /\ Device(w)
           /\ pc' = IF w.ok THEN "formatted" ELSE "recover"
    BY DEF FormatWrite
  <1>2. /\ Same \/ StoredAt(LBA_SB_A, SbSector(Formatted))
        /\ w.ok => StoredAt(LBA_SB_A, SbSector(Formatted))
        /\ w.ok \in BOOLEAN
    BY <1>1, WriteOutcome DEF TypeInv, RunOK
  <1>3. /\ pc = "format" /\ UNCHANGED <<ram, op, answer>>
        /\ ~mounted /\ Chosen(View) = {}
    BY DEF FormatWrite, RunInv
  <1>4. \A s \in SbSlot : View[s].tag # "sb"
    <2>1. ASSUME NEW s \in SbSlot, View[s].tag = "sb" PROVE FALSE
      <3>1. s \notin Chosen(View) /\ Other(s) \notin Chosen(View)
        BY <1>3
      <3>2. /\ Other(s) \in SbSlot /\ Other(Other(s)) = s
            /\ s # LBA_SB_A => Other(s) = LBA_SB_A
        BY <2>1, Slots DEF SbSlot
      <3>3. View[Other(s)].tag = "sb"
        BY <2>1, <3>1, ChosenDef
      <3>4. View[s].sb.seq \in Nat /\ View[Other(s)].sb.seq \in Nat
        BY SMTT(30), <2>1, <3>2, <3>3, SlotTypes
        DEF TypeInv, SectorOK, Superblock
      <3> QED
        BY SMTT(30), <2>1, <3>1, <3>2, <3>3, <3>4, ChosenDef
    <2> QED
      BY <2>1
  <1>5. \A s \in SbSlot : cache[s] = Clean /\ disk[s].tag # "sb"
    BY <1>4, ViewAt, Slots DEF SlotInv, OnePending
  <1>6. /\ WellPlaced(m, Formatted) /\ Settled(disk, cache, Formatted)
        /\ ~HasData(Formatted.root)
    <2>1. /\ Formatted.log_head_lba = LBA_LOG_START /\ Formatted.seq = 1
          /\ Formatted.root = NoRoot
      BY DEF Formatted
    <2>2. LogBound(1, m) = LBA_LOG_START
      BY SMT, LogBoundGrows DEF Steady
    <2> QED
      BY SMT, <2>1, <2>2 DEF WellPlaced, Settled, HasData, LBA_LOG_START
  <1>7. CASE Same
    <2>1. /\ SlotInv(m)' /\ View' = View
          /\ \A s \in Chosen(disk) : disk'[s] = disk[s]
          /\ RootIn(disk)' = RootIn(disk) /\ RootIn(View)' = RootIn(View)
      BY <1>7, QuietFlush, RootMoves DEF TypeInv
    <2>2. StoredAt(LBA_SB_A, SbSector(Formatted)) => View'[LBA_SB_A].tag = "sb"
      BY SMT, ViewStep, SectorTags DEF TypeInv, StoredAt
    <2>3. pc' = "recover"
      BY <1>1, <1>2, <1>4, <2>1, <2>2, Slots
    <2>4. RunInv'
      BY <1>3, <2>3 DEF RunInv, ram
    <2> QED
      BY <1>3, <2>1, <2>3, <2>4 DEF KeepsInv, AbstractStep, Pending, Putting
  <1>8. CASE StoredAt(LBA_SB_A, SbSector(Formatted))
    <2>1. /\ SlotInv(m)'
          /\ View'[LBA_SB_A].sb = Formatted /\ Chosen(View') = {LBA_SB_A}
          /\ FlushOk => disk' = disk
          /\ ~FlushOk => disk' = View'
      BY SMTT(30), <1>5, <1>6, <1>8, SlotWrite, Slots, ChosenDef,
         NewSuperblocks
      DEF TypeInv
    <2>2. RunInv'
      BY <1>1, <1>3, <2>1 DEF RunInv, ram, Holds
    <2>3. RootIn(View) = NoRoot /\ RootIn(disk) = NoRoot
      BY <1>3, <1>5, RootsAre, ChosenDef DEF TypeInv
    <2>4. RootIn(View)' = NoRoot
      BY <1>6, <2>1, RootsAreNext DEF TypeInv, Named
    <2>5. RootIn(disk)' = NoRoot
      BY <2>1, <2>3, <2>4
    <2>6. \A s \in Chosen(disk) : disk'[s] = disk[s]
      BY <1>5, ChosenDef
    <2>7. pc' \in {"formatted", "recover"}
      BY <1>1
    <2> QED
      BY <1>3, <2>1, <2>2, <2>3, <2>4, <2>5, <2>6, <2>7
      DEF KeepsInv, AbstractStep, Pending, Putting
  <1> QED
    BY <1>2, <1>7, <1>8

\* The flush of a format.
LEMMA FormatFlushStep ==
    ASSUME TypeInv, TypeInv', NEW m, Steady(m), SlotInv(m), RunInv,
           FormatFlush
    PROVE  KeepsInv(m) /\ AbstractStep
  <1>1. PICK w \in flush(present) :
           /\ Device(w)
           /\ IF w.ok THEN Publish(Formatted, LBA_SB_A) ELSE UNCHANGED ram
    BY DEF FormatFlush
  <1>2. Same \/ Flushed
    BY <1>1, FlushOutcome DEF TypeInv, RunOK
  <1>3. /\ pc = "formatted" /\ pc' = "recover" /\ UNCHANGED <<op, answer>>
        /\ ~mounted /\ Holds(View, LBA_SB_A, Formatted)
    BY DEF FormatFlush, RunInv
  <1>4. /\ SlotInv(m)' /\ View' = View
        /\ \A s \in Chosen(disk) : disk'[s] = disk[s]
        /\ RootIn(disk)' \in {RootIn(disk), RootIn(View)}
        /\ RootIn(View)' = RootIn(View)
    BY <1>2, QuietFlush DEF TypeInv
  <1>5. RunInv'
    BY <1>1, <1>3, <1>4 DEF RunInv, ram, Publish
  <1>6. D!Progress
    <2>1. Pending' = Pending
      BY <1>3 DEF Pending, Putting
    <2> QED
      BY <1>3, <1>4, <2>1
      DEF D!Progress, D!Show, D!Persist, Pending, View
  <1> QED
    BY <1>4, <1>5, <1>6 DEF KeepsInv, AbstractStep, D!Next

-----------------------------------------------------------------------------
(* put *)

\* The start of a put.
LEMMA PutStartStep ==
    ASSUME TypeInv, TypeInv', NEW m, Steady(m), SlotInv(m), RunInv,
           NEW o \in Object, PutStart(o)
    PROVE  KeepsInv(m) /\ AbstractStep
  <1>1. /\ Same /\ pc = "idle" /\ answer.op # "failed"
    BY DEF PutStart, MayPut, Steady, Same, device
  <1>2. /\ SlotInv(m)' /\ View' = View
        /\ \A s \in Chosen(disk) : disk'[s] = disk[s]
        /\ RootIn(disk)' = RootIn(disk) /\ RootIn(View)' = RootIn(View)
    BY <1>1, QuietFlush, RootMoves DEF TypeInv
  <1>3. Pending = NoRoot
    BY <1>1 DEF Pending, Putting
  <1>4. CASE ~mounted /\ PutFails /\ UNCHANGED <<op, done>>
    <2>1. RunInv'
      BY <1>4 DEF RunInv, PutFails, ram
    <2>2. Pending' = NoRoot /\ answer' = [op |-> "failed"]
      BY <1>4 DEF PutFails, Pending, Putting
    <2>3. D!Fail
      BY <1>2, <2>2 DEF D!Fail, D!Show, D!Persist, Pending, View
    <2> QED
      BY <1>2, <2>1, <2>3 DEF KeepsInv, AbstractStep, D!Next
  <1>5. CASE /\ mounted /\ sb.seq < MaxSeq
             /\ pc' = "data" /\ op' = o /\ done' = 0
             /\ UNCHANGED <<ram, answer>>
    <2>1. Holds(View, slot, sb)
      BY <1>1, <1>5 DEF RunInv
    <2>2. RunInv'
      BY SMTT(30), <1>2, <1>5, <2>1 DEF RunInv, ram
    <2>3. Pending' = o
      BY <1>5 DEF Pending, Putting
    <2>4. D!Begin(o)
      BY <1>2, <1>3, <1>5, <2>3 DEF D!Begin, Pending, View
    <2> QED
      BY <1>2, <2>2, <2>4 DEF KeepsInv, AbstractStep, D!Next
  <1> QED
    BY <1>4, <1>5 DEF PutStart

\* The answer to a put that fails before its commit, or in it.
LEMMA FailStep ==
    ASSUME pc \in Putting, PutFails,
           \/ RootIn(View)' = RootIn(View)
           \/ Pending # NoRoot /\ RootIn(View)' = D!Name(Pending),
           RootIn(disk)' \in {RootIn(disk), RootIn(View)'}
    PROVE  AbstractStep
  <1>1. Pending' = NoRoot /\ answer' = [op |-> "failed"]
    BY DEF PutFails, Pending, Putting
  <1>2. D!Fail
    BY <1>1 DEF D!Fail, D!Show, D!Persist, Pending, View
  <1> QED
    BY <1>2 DEF AbstractStep, D!Next

\* A put that failed leaves nothing to rely on in this boot.
LEMMA FailsRunInv == PutFails => RunInv'
  BY SMT DEF PutFails, RunInv

\* A data sector.
LEMMA PutDataStep ==
    ASSUME TypeInv, TypeInv', NEW m, Steady(m), SlotInv(m), RunInv, PutData
    PROVE  KeepsInv(m) /\ AbstractStep
  <1> DEFINE l == sb.log_head_lba + done
  <1>1. PICK w \in write_sector(present, l, Data(op, done + 1)) :
           /\ Device(w)
           /\ IF w.ok
              THEN done' = done + 1 /\ UNCHANGED <<ram, pc, answer>>
              ELSE PutFails /\ UNCHANGED done
    BY DEF PutData
  <1>2. /\ Same \/ StoredAt(l, Data(op, done + 1))
        /\ w.ok => StoredAt(l, Data(op, done + 1))
        /\ w.ok \in BOOLEAN
    BY <1>1, WriteOutcome DEF TypeInv, RunOK
  <1>3. /\ pc = "data" /\ pc \in Putting /\ UNCHANGED op
        /\ mounted /\ op \in Object /\ done \in Nat
        /\ sb.log_head_lba \in Nat /\ sb.log_head_lba >= LBA_LOG_START
    BY SMTT(30), StoreAssumption
    DEF PutData, TypeInv, RunOK, Superblock, Putting
  <1>4. Holds(View, slot, sb)
    BY <1>3 DEF RunInv
  <1>5. Beyond(l)
    BY SMT, <1>3, <1>4, HeadBeyond DEF TypeInv
  <1>6. /\ SlotInv(m)' /\ Chosen(View') = Chosen(View)
        /\ \A s \in SbSlot : View'[s] = View[s]
        /\ \A s \in Chosen(disk) : disk'[s] = disk[s]
        /\ RootIn(disk)' = RootIn(disk) /\ RootIn(View)' = RootIn(View)
    <2>1. Data(op, done + 1) # Clean
      BY SectorTags
    <2> QED
      BY SMT, <1>2, <1>5, <2>1, QuietWrite DEF TypeInv
  <1>7. CASE w.ok
    <2>1. /\ done' = done + 1 /\ UNCHANGED <<mounted, sb, slot, pc, answer>>
      BY <1>1, <1>7 DEF ram
    <2>2. ASSUME NEW i \in 1 .. done + 1
          PROVE  /\ sb.log_head_lba + i - 1 \in Lba
                 /\ View'[sb.log_head_lba + i - 1] = Data(op, i)
      <3>1. \A k \in Lba : View'[k] = IF k = l THEN Data(op, done + 1)
                                      ELSE View[k]
        BY SMTT(30), <1>2, <1>7, ViewStep, SectorTags DEF TypeInv
      <3>2. CASE i = done + 1
        <4>1. sb.log_head_lba + i - 1 = l /\ l \in Lba
          BY SMT, <1>2, <1>3, <1>7, <3>2 DEF StoredAt
        <4> QED
          BY <3>1, <3>2, <4>1
      <3>3. CASE i \in 1 .. done
        <4>1. /\ sb.log_head_lba + i - 1 \in Lba
              /\ View[sb.log_head_lba + i - 1] = Data(op, i)
          BY <1>3, <3>3 DEF RunInv
        <4>2. sb.log_head_lba + i - 1 # l
          BY SMT, <1>3, <3>3
        <4> QED
          BY <3>1, <4>1, <4>2
      <3> QED
        BY SMT, <1>3, <3>2, <3>3
    <2>3. Holds(View', slot, sb)
      BY <1>4, <1>6, ChosenDef DEF Holds
    <2>4. RunInv'
      BY <1>3, <2>1, <2>2, <2>3 DEF RunInv
    <2>5. Pending' = Pending
      BY <1>3, <2>1 DEF Pending
    <2> QED
      BY <1>6, <2>1, <2>4, <2>5 DEF KeepsInv, AbstractStep
  <1>8. CASE ~w.ok
    <2>1. PutFails
      BY <1>1, <1>8
    <2> QED
      BY <1>3, <1>6, <2>1, FailStep, FailsRunInv DEF KeepsInv
  <1> QED
    BY <1>7, <1>8

\* The record header.
LEMMA PutHeaderStep ==
    ASSUME TypeInv, TypeInv', NEW m, Steady(m), SlotInv(m), RunInv, PutHeader
    PROVE  KeepsInv(m) /\ AbstractStep
  <1>1. PICK w \in write_sector(present, HdrLba, Header(op, sb.root_lba)) :
           /\ Device(w)
           /\ IF w.ok THEN pc' = "flush" /\ UNCHANGED <<ram, answer>>
                      ELSE PutFails
    BY DEF PutHeader
  <1>2. /\ Same \/ StoredAt(HdrLba, Header(op, sb.root_lba))
        /\ w.ok => StoredAt(HdrLba, Header(op, sb.root_lba))
        /\ w.ok \in BOOLEAN
    BY <1>1, WriteOutcome DEF TypeInv, RunOK
  <1>3. /\ pc = "data" /\ pc \in Putting /\ UNCHANGED <<op, done>>
        /\ mounted /\ op \in Object /\ done \in Nat /\ done = SectorsOf[op]
        /\ sb.log_head_lba \in Nat /\ sb.log_head_lba >= LBA_LOG_START
        /\ HdrLba \in Nat /\ HdrLba = sb.log_head_lba + done
    BY SMTT(30), StoreAssumption
    DEF PutHeader, TypeInv, RunOK, Superblock, Putting, HdrLba
  <1>4. Holds(View, slot, sb)
    BY <1>3 DEF RunInv
  <1>5. Beyond(HdrLba)
    BY SMT, <1>3, <1>4, HeadBeyond DEF TypeInv
  <1>6. /\ SlotInv(m)' /\ Chosen(View') = Chosen(View)
        /\ \A s \in SbSlot : View'[s] = View[s]
        /\ \A s \in Chosen(disk) : disk'[s] = disk[s]
        /\ RootIn(disk)' = RootIn(disk) /\ RootIn(View)' = RootIn(View)
    <2>1. Header(op, sb.root_lba) # Clean
      BY SectorTags
    <2> QED
      BY SMT, <1>2, <1>5, <2>1, QuietWrite DEF TypeInv
  <1>7. CASE w.ok
    <2>1. pc' = "flush" /\ UNCHANGED <<mounted, sb, slot, answer>>
      BY <1>1, <1>7 DEF ram
    <2>2. ASSUME NEW i \in 1 .. done
          PROVE  /\ sb.log_head_lba + i - 1 \in Lba
                 /\ View'[sb.log_head_lba + i - 1] = Data(op, i)
      <3>1. \A k \in Lba : View'[k] = IF k = HdrLba
                                      THEN Header(op, sb.root_lba)
                                      ELSE View[k]
        BY SMTT(30), <1>2, <1>7, ViewStep, SectorTags DEF TypeInv
      <3>2. /\ sb.log_head_lba + i - 1 \in Lba
            /\ View[sb.log_head_lba + i - 1] = Data(op, i)
        BY <1>3 DEF RunInv
      <3>3. sb.log_head_lba + i - 1 # HdrLba
        BY SMT, <1>3
      <3> QED
        BY <3>1, <3>2, <3>3
    <2>3. Holds(View', slot, sb)
      BY <1>4, <1>6, ChosenDef DEF Holds
    <2>4. RunInv'
      BY <1>3, <2>1, <2>2, <2>3 DEF RunInv
    <2>5. Pending' = Pending
      BY <1>3, <2>1 DEF Pending, Putting
    <2> QED
      BY <1>6, <2>1, <2>4, <2>5 DEF KeepsInv, AbstractStep
  <1>8. CASE ~w.ok
    <2>1. PutFails
      BY <1>1, <1>8
    <2> QED
      BY <1>3, <1>6, <2>1, FailStep, FailsRunInv DEF KeepsInv
  <1> QED
    BY <1>7, <1>8

\* The flush before the commit settles the new extent.
LEMMA PutFlushStep ==
    ASSUME TypeInv, TypeInv', NEW m, Steady(m), SlotInv(m), RunInv, PutFlush
    PROVE  KeepsInv(m) /\ AbstractStep
  <1>1. PICK w \in flush(present) :
           /\ Device(w)
           /\ IF w.ok THEN pc' = "flip" /\ UNCHANGED <<ram, answer>>
                      ELSE PutFails
    BY DEF PutFlush
  <1>2. Same \/ Flushed
    BY <1>1, FlushOutcome DEF TypeInv, RunOK
  <1>3. /\ pc = "flush" /\ pc \in Putting /\ UNCHANGED <<op, done>>
        /\ mounted /\ op \in Object /\ done = SectorsOf[op]
    BY DEF PutFlush, TypeInv, RunOK, Putting
  <1>4. /\ SlotInv(m)' /\ View' = View
        /\ \A s \in Chosen(disk) : disk'[s] = disk[s]
        /\ RootIn(disk)' \in {RootIn(disk), RootIn(View)}
        /\ RootIn(View)' = RootIn(View)
    BY <1>2, QuietFlush DEF TypeInv
  <1>5. CASE w.ok
    <2>1. /\ Flushed /\ pc' = "flip"
          /\ UNCHANGED <<mounted, sb, slot, answer>>
      BY <1>1, <1>5, FlushOutcome DEF ram, TypeInv, RunOK
    <2>2. Holds(View, slot, sb)
      BY <1>3 DEF RunInv
    <2>3. /\ NewSb.root = op /\ NewSb.root_lba = sb.log_head_lba
          /\ NewSb' = NewSb
      BY <1>3, <2>1 DEF NewSb, HdrLba
    <2>4. Settled(disk', cache', NewSb)
      <3>1. \A i \in 1 .. SectorsOf[op] :
               /\ sb.log_head_lba + i - 1 \in Lba
               /\ View[sb.log_head_lba + i - 1] = Data(op, i)
        BY <1>3 DEF RunInv
      <3> QED
        BY <2>1, <2>3, <3>1 DEF Settled, Flushed
    <2>5. \A s \in SbSlot : cache'[s] = Clean
      BY <2>1, Slots DEF Flushed
    <2>6. RunInv'
      BY <1>3, <1>4, <2>1, <2>2, <2>3, <2>4, <2>5 DEF RunInv
    <2>7. Pending' = Pending
      BY <1>3, <2>1 DEF Pending, Putting
    <2>8. D!Progress
      BY <1>4, <2>1, <2>7 DEF D!Progress, D!Show, D!Persist, Pending, View
    <2> QED
      BY <1>4, <2>6, <2>8 DEF KeepsInv, AbstractStep, D!Next
  <1>6. CASE ~w.ok
    <2>1. PutFails
      BY <1>1, <1>6
    <2> QED
      BY <1>3, <1>4, <2>1, FailStep, FailsRunInv DEF KeepsInv
  <1> QED
    BY <1>5, <1>6

\* The commit's superblock goes to the slot that is not picked.
LEMMA PutFlipStep ==
    ASSUME TypeInv, TypeInv', NEW m, Steady(m), SlotInv(m), RunInv, PutFlip
    PROVE  KeepsInv(m) /\ AbstractStep
  <1>1. PICK w \in write_sector(present, Other(slot), SbSector(NewSb)) :
           /\ Device(w)
           /\ IF w.ok THEN pc' = "commit" /\ UNCHANGED <<ram, answer>>
                      ELSE PutFails
    BY DEF PutFlip
  <1>2. /\ Same \/ StoredAt(Other(slot), SbSector(NewSb))
        /\ w.ok => StoredAt(Other(slot), SbSector(NewSb))
        /\ w.ok \in BOOLEAN
    BY <1>1, WriteOutcome DEF TypeInv, RunOK
  <1>3. /\ pc = "flip" /\ pc \in Putting /\ UNCHANGED <<op, done>>
        /\ mounted /\ op \in Object /\ slot \in SbSlot /\ sb \in Superblock
    BY DEF PutFlip, TypeInv, RunOK, Putting
  <1>4. /\ Holds(View, slot, sb) /\ Settled(disk, cache, NewSb)
        /\ \A s \in SbSlot : cache[s] = Clean
    BY <1>3 DEF RunInv
  <1>5. /\ NewSb \in Superblock /\ NewSb.seq = sb.seq + 1 /\ NewSb.root = op
        /\ NewSb.root_lba = sb.log_head_lba
        /\ NewSb.log_head_lba = sb.log_head_lba + SectorsOf[op] + 1
        /\ sb.log_head_lba \in Nat /\ sb.log_head_lba >= LBA_LOG_START
        /\ SectorsOf[op] \in Nat /\ sb.seq \in Nat
    BY SMT, <1>3, NewSuperblocks DEF TypeInv, Superblock
  <1>6. /\ disk[slot].tag = "sb" /\ disk[slot].sb = sb
        /\ Other(slot) \notin Chosen(disk)
    <2>1. \A s \in SbSlot : View[s] = disk[s]
      BY <1>4, ViewAt, Slots
    <2>2. Chosen(View) = Chosen(disk)
      BY <2>1, ChosenSame
    <2>3. slot \in Chosen(disk)
      BY <1>4, <2>2 DEF Holds
    <2>4. \A s \in Chosen(disk) : s = slot
      BY <2>3, ChosenOne, SlotTypes DEF TypeInv, SlotInv
    <2>5. disk[slot].tag = "sb" /\ disk[slot].sb = sb
      BY <1>3, <1>4, <2>1, <2>3, ChosenDef DEF Holds
    <2> QED
      BY <1>3, <2>4, <2>5, Slots
  <1>7. WellPlaced(m, NewSb)
    <2>1. WellPlaced(m, sb)
      BY <1>3, <1>6 DEF SlotInv
    <2>2. m \in Nat /\ SectorsOf[op] <= m
      BY <1>3 DEF Steady, Fits
    <2>3. /\ LogBound(sb.seq, m) \in Int
          /\ LogBound(sb.seq + 1, m) = LogBound(sb.seq, m) + m + 1
      <3>1. sb.seq <= sb.seq
        BY SMT, <1>5
      <3> QED
        BY <1>5, <2>2, <3>1, LogBoundGrows
    <2>4. sb.log_head_lba <= LogBound(sb.seq, m)
      BY <2>1 DEF WellPlaced
    <2>5. NewSb.log_head_lba <= LogBound(NewSb.seq, m)
      BY SMTT(30), <1>5, <2>2, <2>3, <2>4
    <2>6. NewSb.root_lba + SectorsOf[NewSb.root] < NewSb.log_head_lba
      BY SMTT(30), <1>5
    <2> QED
      BY <1>5, <2>5, <2>6 DEF WellPlaced
  <1>8. CASE Same
    <2>1. /\ SlotInv(m)' /\ View' = View
          /\ \A s \in Chosen(disk) : disk'[s] = disk[s]
          /\ RootIn(disk)' = RootIn(disk) /\ RootIn(View)' = RootIn(View)
      BY <1>8, QuietFlush, RootMoves DEF TypeInv
    <2>2. ~w.ok
      <3>1. ASSUME w.ok PROVE FALSE
        <4>1. /\ View'[Other(slot)].sb = NewSb
              /\ View'[Other(slot)].tag = "sb"
          BY SMTT(30), <1>2, <3>1, ViewStep, SectorTags DEF TypeInv, StoredAt
        <4>2. /\ View[slot].sb = sb /\ slot \in Chosen(View)
              /\ Other(slot) # slot /\ Other(Other(slot)) = slot
          BY <1>3, <1>4, Slots DEF Holds
        <4> QED
          BY SMTT(30), <1>3, <1>5, <2>1, <4>1, <4>2, ChosenDef
      <3> QED
        BY <3>1
    <2>3. PutFails
      BY <1>1, <2>2
    <2> QED
      BY <1>3, <2>1, <2>3, FailStep, FailsRunInv DEF KeepsInv
  <1>9. CASE StoredAt(Other(slot), SbSector(NewSb))
    <2>1. /\ SlotInv(m)'
          /\ View'[Other(slot)].sb = NewSb /\ Chosen(View') = {Other(slot)}
          /\ FlushOk => disk' = disk
          /\ ~FlushOk => disk' = View'
      <3>1. Other(slot) \in SbSlot /\ Other(Other(slot)) = slot
        BY <1>3, Slots
      <3>2. /\ disk[slot].sb.seq < NewSb.seq
            /\ disk[slot].sb.log_head_lba <= NewSb.log_head_lba
        BY SMTT(30), <1>5, <1>6
      <3> QED
        BY <1>4, <1>5, <1>6, <1>7, <1>9, <3>1, <3>2, SlotWrite DEF TypeInv
    <2>2. Pending = op /\ op # NoRoot /\ D!Name(op) = Named(op)
      BY SMT, <1>3, <1>5, StoreAssumption DEF Pending, D!Name, Named, HasData
    <2>3. RootIn(View)' = Named(op)
      BY <1>5, <2>1, RootsAreNext DEF TypeInv
    <2>4. RootIn(disk)' \in {RootIn(disk), RootIn(View)'}
      BY <2>1, StoreAssumption
    <2>5. \A s \in Chosen(disk) : disk'[s] = disk[s]
      <3>1. \A s \in Chosen(disk) : s \in Lba /\ s # Other(slot)
        BY <1>6, Slots, ChosenDef
      <3> QED
        BY <1>9, <3>1 DEF StoredAt, TypeInv, DeviceOK
    <2>6. CASE w.ok
      <3>1. pc' = "commit" /\ UNCHANGED <<mounted, sb, slot, answer>>
        BY <1>1, <2>6 DEF ram
      <3>2. NewSb' = NewSb
        BY <1>3, <3>1 DEF NewSb, HdrLba
      <3>3. Holds(View, Other(slot), NewSb)'
        BY <2>1, <3>1, <3>2 DEF Holds
      <3>4. RunInv'
        BY <3>1, <3>3 DEF RunInv
      <3>5. Pending' = Pending
        BY <1>3, <3>1 DEF Pending, Putting
      <3>6. D!Progress
        BY <2>2, <2>3, <2>4, <3>1, <3>5
        DEF D!Progress, D!Show, D!Persist, Pending, View
      <3> QED
        BY <2>1, <2>5, <3>4, <3>6 DEF KeepsInv, AbstractStep, D!Next
    <2>7. CASE ~w.ok
      <3>1. PutFails
        BY <1>1, <2>7
      <3>2. AbstractStep
        BY <1>3, <2>2, <2>3, <2>4, <3>1, FailStep
      <3> QED
        BY <2>1, <2>5, <3>1, <3>2, FailsRunInv DEF KeepsInv
    <2> QED
      BY <2>6, <2>7
  <1> QED
    BY <1>2, <1>8, <1>9

\* The flush of the commit, after which the put is acknowledged.
LEMMA PutCommitStep ==
    ASSUME TypeInv, TypeInv', NEW m, Steady(m), SlotInv(m), RunInv, PutCommit
    PROVE  KeepsInv(m) /\ AbstractStep
  <1>1. PICK w \in flush(present) :
           /\ Device(w)
           /\ IF w.ok
              THEN /\ Publish(NewSb, Other(slot))
                   /\ pc' = "idle"
                   /\ answer' = [op |-> "put", root |-> op]
              ELSE PutFails
    BY DEF PutCommit
  <1>2. Same \/ Flushed
    BY <1>1, FlushOutcome DEF TypeInv, RunOK
  <1>3. /\ pc = "commit" /\ pc \in Putting /\ UNCHANGED op
        /\ op \in Object /\ SectorsOf[op] \in Nat
        /\ Holds(View, Other(slot), NewSb) /\ NewSb.root = op
    BY NewSuperblocks DEF PutCommit, TypeInv, RunOK, RunInv, Putting
  <1>4. /\ SlotInv(m)' /\ View' = View
        /\ \A s \in Chosen(disk) : disk'[s] = disk[s]
        /\ RootIn(disk)' \in {RootIn(disk), RootIn(View)}
        /\ Flushed => RootIn(disk)' = RootIn(View)
        /\ RootIn(View)' = RootIn(View)
    BY <1>2, QuietFlush DEF TypeInv
  <1>5. CASE w.ok
    <2>1. /\ Flushed /\ pc' = "idle" /\ sb' = NewSb /\ slot' = Other(slot)
          /\ answer' = [op |-> "put", root |-> op]
      BY <1>1, <1>5, FlushOutcome DEF Publish, TypeInv, RunOK
    <2>2. RunInv'
      BY <1>3, <1>4, <2>1 DEF RunInv, Holds
    <2>3. /\ Pending = op /\ op # NoRoot /\ D!Name(op) = Named(op)
          /\ Pending' = NoRoot
      BY SMT, <1>3, <2>1, StoreAssumption
      DEF Pending, D!Name, Named, HasData, Putting
    <2>4. RootIn(View) = Named(op)
      BY <1>3, RootsAre DEF TypeInv, Holds
    <2>5. D!Acknowledge
      BY <1>4, <2>1, <2>3, <2>4 DEF D!Acknowledge, Pending, View
    <2> QED
      BY <1>4, <2>2, <2>5 DEF KeepsInv, AbstractStep, D!Next
  <1>6. CASE ~w.ok
    <2>1. PutFails
      BY <1>1, <1>6
    <2> QED
      BY <1>3, <1>4, <2>1, FailStep, FailsRunInv DEF KeepsInv
  <1> QED
    BY <1>5, <1>6

-----------------------------------------------------------------------------
(* The scratch sector, the device and the machine *)

\* The seed of the scratch sector.
LEMMA SeedScratchStep ==
    ASSUME TypeInv, TypeInv', NEW m, Steady(m), SlotInv(m), RunInv,
           SeedScratch
    PROVE  KeepsInv(m) /\ AbstractStep
  <1>1. PICK w \in write_sector(present, ScratchLba, TestPattern) : Device(w)
    BY DEF SeedScratch
  <1>2. Same \/ StoredAt(ScratchLba, TestPattern)
    BY <1>1, WriteOutcome DEF TypeInv, RunOK
  <1>3. /\ pc = "idle"
        /\ UNCHANGED <<mounted, sb, slot, pc, op, done, puts, answer>>
    BY DEF SeedScratch, ram, run
  <1>4. StoredAt(ScratchLba, TestPattern) => Beyond(ScratchLba)
    BY ScratchBeyond DEF StoredAt, TypeInv
  <1>5. /\ SlotInv(m)' /\ Chosen(View') = Chosen(View)
        /\ \A s \in SbSlot : View'[s] = View[s]
        /\ \A s \in Chosen(disk) : disk'[s] = disk[s]
        /\ RootIn(disk)' = RootIn(disk) /\ RootIn(View)' = RootIn(View)
    <2>1. TestPattern # Clean
      BY SectorTags
    <2> QED
      BY SMTT(30), <1>2, <1>4, <2>1, QuietWrite DEF TypeInv
  <1>6. Holds(View, slot, sb) => Holds(View', slot, sb)
    BY <1>5, ChosenDef DEF Holds
  <1>7. RunInv'
    BY <1>3, <1>6 DEF RunInv
  <1>8. Pending' = Pending
    BY <1>3 DEF Pending
  <1> QED
    BY <1>3, <1>5, <1>7, <1>8 DEF KeepsInv, AbstractStep

\* A sector written back.
LEMMA DestageStep ==
    ASSUME TypeInv, TypeInv', NEW m, Steady(m), SlotInv(m), RunInv,
           NEW lba \in Lba, Destage(lba)
    PROVE  KeepsInv(m) /\ AbstractStep
  <1>1. /\ Destaged(lba)
        /\ UNCHANGED <<mounted, sb, slot, pc, op, done, puts, answer>>
    BY DEF Destage, Destaged, ram, run
  <1>2. /\ SlotInv(m)'
        /\ \A x : Settled(disk, cache, x) => Settled(disk', cache', x)
        /\ \A s \in SbSlot : cache[s] = Clean => cache'[s] = Clean
        /\ \A s \in Chosen(disk) : disk'[s] = disk[s]
    BY <1>1, SlotDestaged DEF TypeInv
  <1>3. View' = View
    BY <1>1, ViewStep DEF TypeInv
  <1>4. NewSb' = NewSb
    BY <1>1 DEF NewSb, HdrLba
  <1>5. RunInv'
    BY <1>1, <1>2, <1>3, <1>4 DEF RunInv
  <1>6. /\ RootIn(disk)' \in {RootIn(disk), RootIn(View)}
        /\ RootIn(View)' = RootIn(View)
    BY <1>1, <1>2, RootMoves DEF TypeInv
  <1>7. D!Progress
    BY <1>1, <1>6 DEF D!Progress, D!Show, D!Persist, View
  <1> QED
    BY <1>2, <1>5, <1>7 DEF KeepsInv, AbstractStep, D!Next

\* A restart, with the cache or without it.
LEMMA RestartStep ==
    ASSUME TypeInv, TypeInv', NEW m, Steady(m), SlotInv(m), RunInv,
           Reset \/ PowerLoss
    PROVE  KeepsInv(m) /\ AbstractStep
  <1>1. Restarted
    BY DEF Reset, PowerLoss
  <1>2. RunInv'
    BY <1>1 DEF Restarted, RunInv
  <1>3. Pending' = NoRoot /\ answer' = [op |-> "none"]
    BY <1>1 DEF Restarted, Pending, Putting
  <1>4. CASE Reset
    <2>1. Same
      BY <1>4 DEF Reset, Same
    <2>2. /\ SlotInv(m)' /\ \A s \in Chosen(disk) : disk'[s] = disk[s]
          /\ RootIn(disk)' = RootIn(disk) /\ RootIn(View)' = RootIn(View)
      BY <2>1, QuietFlush, RootMoves DEF TypeInv
    <2>3. D!Restart
      BY <1>3, <2>2 DEF D!Restart, Pending, View
    <2> QED
      BY <1>2, <2>2, <2>3 DEF KeepsInv, AbstractStep, D!Next
  <1>5. CASE PowerLoss
    <2>1. PICK torn \in SUBSET {l \in Lba : cache[l] # Clean} :
             disk' = [l \in Lba |-> IF l \in torn THEN Torn ELSE disk[l]]
      BY <1>5 DEF PowerLoss
    <2>2. PowerLost
      BY <1>5, <2>1 DEF PowerLoss, PowerLost
    <2>3. SlotInv(m)' /\ \A s \in Chosen(disk) : disk'[s] = disk[s]
      BY <2>2, SlotPowerLost, ChosenSurvives DEF TypeInv
    <2>4. RootIn(disk)' = RootIn(disk) /\ RootIn(View)' = RootIn(disk)
      BY <2>2, <2>3, RootMoves DEF TypeInv
    <2>5. D!Restart
      BY <1>3, <2>4 DEF D!Restart, Pending, View
    <2> QED
      BY <1>2, <2>3, <2>5 DEF KeepsInv, AbstractStep, D!Next
  <1> QED
    BY <1>4, <1>5

-----------------------------------------------------------------------------
(* The theorems *)

StoreInv(m) == TypeInv /\ SlotInv(m) /\ RunInv

\* A blank device.
LEMMA StoreInit ==
    ASSUME NEW m, Init
    PROVE  StoreInv(m) /\ D!Init
  <1>1. TypeInv
    BY TypeInvInit
  <1>2. /\ \A l \in Lba : disk[l] = Blank /\ cache[l] = Clean
        /\ pc = "off" /\ ~mounted /\ answer = [op |-> "none"]
    BY DEF Init
  <1>3. \A s \in SbSlot : /\ disk[s].tag # "sb" /\ cache[s].tag # "sb"
                          /\ View[s].tag # "sb" /\ cache[s] = Clean
    BY <1>2, ViewAt, SectorTags, Slots
  <1>4. Chosen(disk) = {} /\ Chosen(View) = {}
    BY <1>3, ChosenDef
  <1>5. SlotInv(m)
    BY <1>3, <1>4, Slots DEF SlotInv, OnePending, SeqsDiffer, HeadsOrdered
  <1>6. RunInv
    BY <1>2 DEF RunInv
  <1>7. D!Init
    BY <1>1, <1>2, <1>4, <1>5, RootsAre DEF D!Init, TypeInv, View, Putting
  <1> QED
    BY <1>1, <1>5, <1>6, <1>7 DEF StoreInv

\* Every step keeps the invariant and is a step of the register.
LEMMA StoreStep ==
    ASSUME NEW m, Steady(m), StoreInv(m), [Next]_vars
    PROVE  /\ StoreInv(m)'
           /\ \A s \in Chosen(disk) : disk'[s] = disk[s]
           /\ AbstractStep
  <1>1. TypeInv /\ TypeInv' /\ SlotInv(m) /\ RunInv
    BY TypeInvNext DEF StoreInv
  <1>2. CASE UNCHANGED vars
    <2>1. /\ Same
          /\ UNCHANGED <<mounted, sb, slot, pc, op, done, puts, answer>>
      BY <1>2 DEF vars, device, ram, run, Same
    <2>2. /\ SlotInv(m)' /\ View' = View
          /\ \A s \in Chosen(disk) : disk'[s] = disk[s]
          /\ RootIn(disk)' = RootIn(disk) /\ RootIn(View)' = RootIn(View)
      BY <1>1, <2>1, QuietFlush, RootMoves DEF TypeInv
    <2>3. RunInv'
      BY <1>1, <2>1, <2>2 DEF RunInv, NewSb, HdrLba, Same
    <2> QED
      BY <1>1, <2>1, <2>2, <2>3 DEF StoreInv, AbstractStep, Pending
  <1>3. CASE Next
    <2>1. KeepsInv(m) /\ AbstractStep
      BY <1>1, <1>3, BootStep, MountStep, FormatWriteStep, FormatFlushStep,
         RecoverStep, PutStartStep, PutDataStep, PutHeaderStep, PutFlushStep,
         PutFlipStep, PutCommitStep, SeedScratchStep, DestageStep,
         RestartStep
      DEF Next
    <2> QED
      BY <1>1, <2>1 DEF KeepsInv, StoreInv
  <1> QED
    BY <1>2, <1>3

\* The superblock a mount would pick, now or if the power failed now, names a
\* root whose every sector is in place: put's commit never advertises a torn
\* or partial extent, whatever writes and flushes fail and wherever the
\* machine stops.
THEOREM RootAlwaysIntact ==
    ASSUME NEW m, Steady(m)
    PROVE  Spec => []RootIntact
  <1>1. Init => StoreInv(m)
    BY StoreInit
  <1>2. StoreInv(m) /\ [Next]_vars => StoreInv(m)'
    BY StoreStep
  <1>3. StoreInv(m) => RootIntact
    BY RootsAre DEF StoreInv, TypeInv
  <1> QED
    BY <1>1, <1>2, <1>3, PTL DEF Spec

\* No step of put, format, the device or a crash changes the slot that a mount
\* after a power loss would pick, except by leaving it a later one.
THEOREM CommittedSlotIsKept ==
    ASSUME NEW m, Steady(m)
    PROVE  Spec => CommittedSlotKept
  <1>1. Init => StoreInv(m)
    BY StoreInit
  <1>2. StoreInv(m) /\ [Next]_vars => StoreInv(m)'
    BY StoreStep
  <1>3. StoreInv(m) /\ [Next]_vars => [KeepStep]_vars
    BY StoreStep DEF KeepStep
  <1> QED
    BY <1>1, <1>2, <1>3, PTL DEF Spec, CommittedSlotKept

\* mount, recover and put, over a device that reorders, tears and fails, are
\* a durable register: DurableRoot, with the root a power loss would leave as
\* its durable value and the root a mount would find as its visible one.
THEOREM StoreIsDurableRoot ==
    ASSUME NEW m, Steady(m)
    PROVE  Spec => ImplementsDurableRoot
  <1>1. Init => StoreInv(m) /\ D!Init
    BY StoreInit
  <1>2. StoreInv(m) /\ [Next]_vars => StoreInv(m)'
    BY StoreStep
  <1>3. StoreInv(m) /\ [Next]_vars =>
           [D!Next]_<<RootIn(disk), RootIn(Seen(disk, cache)),
                      IF pc \in Putting THEN op ELSE NoRoot, answer>>
    BY StoreStep DEF AbstractStep, View, Pending
  <1> QED
    BY <1>1, <1>2, <1>3, PTL DEF Spec, ImplementsDurableRoot, D!Spec

=============================================================================
