----------------------------- MODULE VirtQueue ------------------------------
(***************************************************************************)
(* The virtio-blk driver (virtio_blk.rs) and its device.  They share the   *)
(* request frame and the rings of queue 0, and the device works at its own *)
(* pace.  The driver has one request in the queue at a time and polls for  *)
(* its completion with interrupts off; after a timeout the request is      *)
(* still the device's to complete, late.                                   *)
(*                                                                         *)
(* Descriptors and header are one record, since they are always written    *)
(* together.  Every entry of the avail ring names descriptor 0 (the frame  *)
(* starts zeroed and only 0 is stored), so the ring is its index alone.    *)
(***************************************************************************)
EXTENDS Integers, FiniteSets

CONSTANTS
    Lba,            \* the sectors in play
    Sector,         \* their contents
    Zero,           \* the contents of a zeroed buffer
    NoSector,       \* a sector that is not in the device's cache
    IdxMod,         \* 2^16: the ring indices are u16
    PollLimit,      \* failed polls after which submit gives up
    QSIZE,          \* the largest queue the driver uses
    Offers          \* the devices and the machine init may meet

ASSUME QueueAssumption ==
    /\ IdxMod \in Nat /\ IdxMod > 2
    /\ PollLimit \in Nat
    /\ QSIZE \in Nat \ {0}
    /\ Zero \in Sector
    /\ NoSector \notin Sector

VARIABLES
    req,            \* request header and descriptors, in the shared frame
    data,           \* the data buffer of the shared frame
    status,         \* its status byte: 0xFF, 0 or an error
    availIdx,       \* avail.idx, written by the driver
    usedIdx,        \* used.idx, written by the device
    vblk,           \* VBLK: present, flush_ok, qsize
    call,           \* the call of submit in progress
    answer,         \* what the last call of the driver returned
    fetched,        \* the device: how far it has read the avail ring
    inflight,       \* the device: requests fetched and not completed
    disk, cache     \* the device: its medium and its volatile write cache

driverVars == <<req, data, status, availIdx, vblk, call, answer>>

deviceVars == <<usedIdx, fetched, inflight, disk, cache>>

vars == <<driverVars, deviceVars>>

Idx == 0 .. IdxMod - 1

MutantSucc(i) == i + 1          \* the index does not wrap

Succ(i) == (i + 1) % IdxMod

Request == [type : {"in", "out", "flush"}, lba : Lba]

NoCall == [type |-> "none"]

Call == [type : {"in", "out", "flush"}, target : Idx, guard : 0 .. PollLimit]

Failed == [ok |-> FALSE, data |-> Zero]

-----------------------------------------------------------------------------
(* init: what the driver finds out about the machine.                      *)

Offer == [found : BOOLEAN, mapped : BOOLEAN, windows : SUBSET {"common", "notify"},
          resets : BOOLEAN, version1 : BOOLEAN, flush : BOOLEAN,
          features_ok : BOOLEAN, queue_max : Nat, frames : Nat]

ASSUME OfferAssumption == Offers \subseteq Offer

NoDevice == [present |-> FALSE, flush_ok |-> FALSE, qsize |-> 0]

\* The walk over the capability list and the negotiation; all of it must
\* succeed, and the four frames of the queue must be there.
init(o) ==
    IF /\ o.found
       /\ o.mapped                              \* map_mmio_range
       /\ o.windows = {"common", "notify"}
       /\ o.resets                              \* within the bounded wait
       /\ o.version1                            \* VIRTIO_F_VERSION_1
       /\ o.features_ok                         \* FEATURES_OK kept
       /\ o.queue_max # 0
       /\ o.frames >= 4
    THEN [present |-> TRUE, flush_ok |-> o.flush,
          qsize |-> IF o.queue_max < QSIZE THEN o.queue_max ELSE QSIZE]
    ELSE NoDevice

Init ==
    /\ \E o \in Offers : vblk = init(o)
    /\ \E l \in Lba : req = [type |-> "in", lba |-> l]    \* a zeroed frame
    /\ data = Zero
    /\ status = "ok"                                      \* 0
    /\ availIdx = 0
    /\ usedIdx = 0
    /\ call = NoCall
    /\ answer = Failed
    /\ fetched = 0
    /\ inflight = {}
    /\ disk \in [Lba -> Sector]
    /\ cache = [l \in Lba |-> NoSector]

-----------------------------------------------------------------------------
(* The driver.                                                             *)

\* Fill in the request and publish it.
Publish(type, lba) ==
    /\ req' = [type |-> type, lba |-> lba]
    /\ status' = "unset"                                  \* 0xFF
    /\ availIdx' = Succ(availIdx)

MutantTarget(i) == i            \* waits for the completion before its own

Target(i) == Succ(i)

\* submit, up to the doorbell.
submit(type, lba) ==
    /\ Publish(type, lba)
    /\ call' = [type |-> type, target |-> Target(availIdx), guard |-> 0]
    /\ UNCHANGED <<vblk, answer>>

Refused ==
    /\ ~vblk.present
    /\ answer' = Failed
    /\ UNCHANGED <<req, data, status, availIdx, vblk, call>>

read_sector(lba) ==
    /\ call = NoCall
    /\ \/ Refused
       \/ vblk.present /\ submit("in", lba) /\ UNCHANGED data
    /\ UNCHANGED deviceVars

write_sector(lba, src) ==
    /\ call = NoCall
    /\ \/ Refused
       \/ vblk.present /\ data' = src /\ submit("out", lba)
    /\ UNCHANGED deviceVars

flush ==
    /\ call = NoCall
    /\ \/ Refused
       \/ /\ vblk.present /\ ~vblk.flush_ok
          /\ answer' = [ok |-> TRUE, data |-> Zero]
          /\ UNCHANGED <<req, data, status, availIdx, vblk, call>>
       \/ /\ vblk.present /\ vblk.flush_ok
          /\ \E l \in Lba : submit("flush", l)            \* the sector is ignored
          /\ UNCHANGED data
    /\ UNCHANGED deviceVars

\* The answer of a completed request: the status byte, and the data buffer
\* that read_sector copies out.
Completed ==
    [ok   |-> status = "ok",
     data |-> IF status = "ok" /\ call.type = "in" THEN data ELSE Zero]

PollDone ==
    /\ call # NoCall
    /\ usedIdx = call.target
    /\ answer' = Completed
    /\ call' = NoCall
    /\ UNCHANGED <<req, data, status, availIdx, vblk>>

MutantPollAgain ==              \* the guard is not counted
    /\ call # NoCall
    /\ usedIdx # call.target
    /\ UNCHANGED driverVars

PollAgain ==
    /\ call # NoCall
    /\ usedIdx # call.target
    /\ call.guard < PollLimit
    /\ call' = [call EXCEPT !.guard = @ + 1]
    /\ UNCHANGED <<req, data, status, availIdx, vblk, answer>>

MutantDisabled == vblk          \* the device stays in use

\* After a timeout the device is never used again.
Disabled == [vblk EXCEPT !.present = FALSE]

PollTimeout ==
    /\ call # NoCall
    /\ usedIdx # call.target
    /\ call.guard = PollLimit
    /\ vblk' = Disabled
    /\ answer' = Failed
    /\ call' = NoCall
    /\ UNCHANGED <<req, data, status, availIdx>>

\* submit's loop, after the doorbell.
Poll ==
    /\ PollDone \/ PollAgain \/ PollTimeout
    /\ UNCHANGED deviceVars

-----------------------------------------------------------------------------
(* The device, external to the code.  It may fail a request, take any time *)
(* and complete requests in any order.                                     *)

Seen(lba) == IF cache[lba] = NoSector THEN disk[lba] ELSE cache[lba]

Fetch ==
    /\ fetched # availIdx
    /\ inflight' = inflight \cup {[idx |-> fetched, type |-> req.type, lba |-> req.lba]}
    /\ fetched' = Succ(fetched)
    /\ UNCHANGED <<driverVars, usedIdx, disk, cache>>

Transfer(r) ==
    \/ /\ r.type = "in"
       /\ data' = Seen(r.lba)
       /\ UNCHANGED <<disk, cache>>
    \/ /\ r.type = "out" /\ vblk.flush_ok
       /\ cache' = [cache EXCEPT ![r.lba] = data]
       /\ UNCHANGED <<data, disk>>
    \/ /\ r.type = "out" /\ ~vblk.flush_ok
       /\ disk' = [disk EXCEPT ![r.lba] = data]
       /\ UNCHANGED <<data, cache>>
    \/ /\ r.type = "flush"
       /\ disk' = [l \in Lba |-> Seen(l)]
       /\ cache' = [l \in Lba |-> NoSector]
       /\ UNCHANGED data

Complete(r) ==
    /\ r \in inflight
    /\ \/ Transfer(r) /\ status' = "ok"
       \/ Transfer(r) /\ status' = "error"
       \/ UNCHANGED <<data, disk, cache>> /\ status' = "error"
    /\ usedIdx' = Succ(usedIdx)
    /\ inflight' = inflight \ {r}
    /\ UNCHANGED <<req, availIdx, vblk, call, answer, fetched>>

Destage(l) ==
    /\ cache[l] # NoSector
    /\ disk' = [disk EXCEPT ![l] = cache[l]]
    /\ cache' = [cache EXCEPT ![l] = NoSector]
    /\ UNCHANGED <<driverVars, usedIdx, fetched, inflight>>

Device ==
    \/ Fetch
    \/ \E r \in inflight : Complete(r)
    \/ \E l \in Lba : Destage(l)

Next ==
    \/ \E l \in Lba : read_sector(l)
    \/ \E l \in Lba, s \in Sector : write_sector(l, s)
    \/ flush
    \/ Poll
    \/ Device

Spec == Init /\ [][Next]_vars /\ WF_vars(Poll)

-----------------------------------------------------------------------------
TypeOK ==
    /\ req \in Request
    /\ data \in Sector
    /\ status \in {"unset", "ok", "error"}
    /\ availIdx \in Idx /\ usedIdx \in Idx /\ fetched \in Idx
    /\ vblk \in [present : BOOLEAN, flush_ok : BOOLEAN, qsize : 0 .. QSIZE]
    /\ call \in Call \cup {NoCall}
    /\ answer \in [ok : BOOLEAN, data : Sector]
    /\ inflight \subseteq [idx : Idx, type : {"in", "out", "flush"}, lba : Lba]
    /\ disk \in [Lba -> Sector]
    /\ cache \in [Lba -> Sector \cup {NoSector}]

\* Nothing is left of what was published.
Drained == inflight = {} /\ fetched = availIdx /\ usedIdx = availIdx

\* "A precise target, so a late completion after a timeout can't be
\* mis-consumed": when used.idx reaches the target of a call of submit, the
\* device has completed everything ever published, the call's own request
\* included, also across the wrap of the u16 indices.
CompletionIsOwn ==
    call # NoCall /\ usedIdx = call.target => Drained

\* Every call of the driver returns, however the device behaves: the poll is
\* bounded, so a silent device cannot hang the boot with interrupts off.
CallsReturn == [](call # NoCall => <>(call = NoCall))

CallState ==
    IF usedIdx # call.target THEN "pending"
    ELSE IF status = "ok" THEN "ok" ELSE "error"

Payload == IF req.type = "out" THEN data ELSE Zero

AbstractCall ==
    IF call = NoCall THEN [op |-> "none"]
    ELSE [op |-> call.type, lba |-> req.lba, data |-> Payload,
          state |-> CallState]

\* A write or a flush given up and still with the device.
Late ==
    IF vblk.present \/ usedIdx = availIdx \/ req.type = "in" THEN {}
    ELSE {[op |-> req.type, lba |-> req.lba, data |-> Payload,
           state |-> "pending"]}

Block == INSTANCE BlockDevice WITH
             flush_ok <- vblk.flush_ok, up <- vblk.present,
             call <- AbstractCall, late <- Late

\* The driver over the shared queue is the block layer its callers rely on: a
\* read that succeeds returns what the sector holds, a write that succeeds is
\* in the device and a flush that succeeds has made every write durable; after
\* a timeout no call meets the abandoned request.
ImplementsBlockDevice == Block!Spec

=============================================================================
