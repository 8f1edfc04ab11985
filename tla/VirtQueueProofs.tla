--------------------------- MODULE VirtQueueProofs --------------------------
(***************************************************************************)
(* The virtio-blk driver implements the block layer of BlockDevice, and    *)
(* queue 0 goes on doing so when it is handed to the ring-3 driver, whose  *)
(* report is honest: for every set of sectors, every width of the ring     *)
(* indices and every bound of the polls.                                   *)
(***************************************************************************)
EXTENDS DeviceQueue, TLAPS

\* Zenon is the default prover here; leaves with arithmetic, records or
\* functions that are beyond it cite SMT.
USE Zenon

\* The three places the one request of the queue can be: nowhere, in the avail
\* ring, or with the device.
InRing ==
    /\ inflight = {}
    /\ fetched = usedIdx
    /\ availIdx = Succ(usedIdx)

WithDevice ==
    /\ inflight = {[idx |-> usedIdx, type |-> req.type, lba |-> req.lba]}
    /\ fetched = availIdx
    /\ availIdx = Succ(usedIdx)

\* At most one request is outstanding, it is the one in the shared frame, and
\* only during a call or after a timeout; a call waits for exactly it; and a
\* completed read has left the sector in the buffer.
QueueInv ==
    /\ TypeOK
    /\ Drained \/ InRing \/ WithDevice
    /\ call = NoCall /\ vblk.present => Drained
    /\ call # NoCall => /\ vblk.present
                        /\ call.target = availIdx
                        /\ call.type = req.type
    /\ call # NoCall /\ call.type = "in" /\ Drained /\ status = "ok"
          => data = Seen(req.lba)

\* The u16 index that follows another is a different one, wrapped or not.
LEMMA SuccNext ==
    ASSUME NEW i \in Idx
    PROVE  Succ(i) \in Idx /\ Succ(i) # i
BY SMT, QueueAssumption DEF Idx, Succ

\* init leaves an empty ring and no call.
LEMMA InitInv == Init => QueueInv
<1> SUFFICES ASSUME Init PROVE QueueInv
  OBVIOUS
<1>1. vblk \in [present : BOOLEAN, flush_ok : BOOLEAN, qsize : 0 .. QSIZE]
  <2>1. PICK o \in Offers : vblk = init(o)
    BY DEF Init
  <2>2. o.flush \in BOOLEAN /\ o.queue_max \in Nat
    BY OfferAssumption DEF Offer
  <2>3. (IF o.queue_max < QSIZE THEN o.queue_max ELSE QSIZE) \in 0 .. QSIZE
    BY SMT, <2>2, QueueAssumption
  <2>4. 0 \in 0 .. QSIZE
    BY SMT, QueueAssumption
  <2> QED
    BY <2>1, <2>2, <2>3, <2>4 DEF init, NoDevice
<1>2. 0 \in Idx
  BY SMT, QueueAssumption DEF Idx
<1>3. req \in Request
  BY SMT DEF Init, Request
<1>4. answer \in [ok : BOOLEAN, data : Sector] /\ data \in Sector
  BY QueueAssumption DEF Init, Failed
<1>5. cache \in [Lba -> Sector \cup {NoSector}] /\ disk \in [Lba -> Sector]
  BY DEF Init
<1>6. TypeOK
  BY <1>1, <1>2, <1>3, <1>4, <1>5 DEF Init, TypeOK
<1> QED
  BY <1>6 DEF Init, QueueInv, Drained

-----------------------------------------------------------------------------
(* The steps preserve the invariant.                                       *)

\* What submit leaves behind: the request in the ring, and a call that waits
\* for the index it has just published.
LEMMA SubmitInv ==
    ASSUME QueueInv, call = NoCall, vblk.present,
           NEW type \in {"in", "out", "flush"}, NEW lba \in Lba,
           submit(type, lba), data' \in Sector, UNCHANGED deviceVars
    PROVE  QueueInv' /\ InRing' /\ usedIdx' # availIdx'
<1>1. TypeOK /\ Drained
  BY DEF QueueInv
<1>2. availIdx \in Idx /\ usedIdx \in Idx
  BY <1>1 DEF TypeOK
<1>3. /\ availIdx' = Succ(availIdx) /\ req' = [type |-> type, lba |-> lba]
      /\ status' = "unset" /\ vblk' = vblk /\ answer' = answer
      /\ call' = [type |-> type, target |-> Succ(availIdx), guard |-> 0]
      /\ usedIdx' = usedIdx /\ fetched' = fetched /\ inflight' = inflight
      /\ disk' = disk /\ cache' = cache
  BY DEF submit, Publish, Target, deviceVars
<1>4. Succ(availIdx) \in Idx /\ Succ(availIdx) # availIdx
  BY <1>2, SuccNext
<1>5. InRing' /\ usedIdx' # availIdx'
  BY <1>1, <1>3, <1>4 DEF InRing, Drained, Succ
<1>6. call' \in Call /\ req' \in Request
  BY SMT, <1>3, <1>4, QueueAssumption DEF Call, Request
<1>7. TypeOK'
  BY <1>1, <1>3, <1>4, <1>6 DEF TypeOK
<1>8. call' # NoCall /\ call'.target = availIdx' /\ call'.type = req'.type
  BY <1>3 DEF NoCall
<1>9. ~Drained'
  BY <1>5 DEF Drained
<1> QED
  BY <1>3, <1>5, <1>7, <1>8, <1>9 DEF QueueInv

\* The device completes the one request there is.
LEMMA CompleteInv ==
    ASSUME QueueInv, NEW r \in inflight, Complete(r)
    PROVE  QueueInv' /\ Drained' /\ usedIdx # availIdx
                     /\ r.type = req.type /\ r.lba = req.lba
<1>1. TypeOK
  BY DEF QueueInv
<1>2. WithDevice
  BY DEF QueueInv, Drained, InRing
<1>3. r = [idx |-> usedIdx, type |-> req.type, lba |-> req.lba]
  BY <1>2 DEF WithDevice
<1>4. /\ usedIdx' = Succ(usedIdx) /\ inflight' = inflight \ {r}
      /\ req' = req /\ availIdx' = availIdx /\ vblk' = vblk /\ call' = call
      /\ answer' = answer /\ fetched' = fetched
  BY DEF Complete
<1>5. Drained' /\ usedIdx # availIdx
  BY <1>1, <1>2, <1>3, <1>4, SuccNext DEF Drained, WithDevice, TypeOK
<1>6. r.type = req.type /\ r.lba = req.lba
  BY <1>3
<1>7. req.lba \in Lba /\ data \in Sector /\ disk \in [Lba -> Sector]
      /\ cache \in [Lba -> Sector \cup {NoSector}]
  BY <1>1 DEF TypeOK, Request
<1>8. \A l \in Lba : Seen(l) \in Sector
  BY <1>7 DEF Seen
<1>9. ASSUME Transfer(r)
      PROVE  /\ data' \in Sector /\ disk' \in [Lba -> Sector]
             /\ cache' \in [Lba -> Sector \cup {NoSector}]
             /\ r.type = "in" => data' = Seen(r.lba)'
  <2>1. CASE r.type = "in"
    <3>1. data' = Seen(r.lba) /\ disk' = disk /\ cache' = cache
      BY <1>9, <2>1 DEF Transfer
    <3>2. Seen(r.lba)' = Seen(r.lba)
      BY <3>1, <1>4 DEF Seen
    <3> QED BY <1>6, <1>7, <1>8, <3>1, <3>2
  <2>2. CASE r.type # "in"
    BY <1>6, <1>7, <1>8, <1>9, <2>2 DEF Transfer
  <2> QED BY <2>1, <2>2
<1>10. /\ data' \in Sector /\ disk' \in [Lba -> Sector]
       /\ cache' \in [Lba -> Sector \cup {NoSector}]
       /\ status' \in {"ok", "error"}
       /\ status' = "ok" /\ r.type = "in" => data' = Seen(r.lba)'
  <2>1. CASE Transfer(r) /\ status' \in {"ok", "error"}
    BY <1>9, <2>1
  <2>2. CASE UNCHANGED <<data, disk, cache>> /\ status' = "error"
    BY <1>7, <2>2
  <2> QED BY <2>1, <2>2 DEF Complete
<1>11. Succ(usedIdx) \in Idx
  BY <1>1, SuccNext DEF TypeOK
<1>12. TypeOK'
  BY <1>1, <1>4, <1>10, <1>11 DEF TypeOK
<1>13. Seen(req.lba)' = Seen(r.lba)'
  BY <1>4, <1>6 DEF Seen
<1> QED
  BY <1>4, <1>5, <1>6, <1>10, <1>12, <1>13 DEF QueueInv

\* A step that changes neither the queue nor the device nor the buffer.
LEMMA QuietInv ==
    ASSUME QueueInv,
           UNCHANGED <<req, data, status, availIdx, vblk, call, deviceVars>>,
           answer' \in [ok : BOOLEAN, data : Sector]
    PROVE  QueueInv'
<1>1. TypeOK /\ TypeOK'
  BY DEF QueueInv, TypeOK, deviceVars
<1>2. (Drained' = Drained) /\ (InRing' = InRing) /\ (WithDevice' = WithDevice)
  BY DEF Drained, InRing, WithDevice, deviceVars, Succ
<1>3. Seen(req.lba)' = Seen(req.lba)
  BY DEF Seen, deviceVars
<1> QED
  BY <1>1, <1>2, <1>3 DEF QueueInv, deviceVars

\* The answer of a call that failed is an answer.
LEMMA FailedType == Failed \in [ok : BOOLEAN, data : Sector]
BY QueueAssumption DEF Failed

\* A call refused because the device is disabled touches nothing.
LEMMA RefusedInv ==
    ASSUME QueueInv, Refused, UNCHANGED deviceVars
    PROVE  QueueInv'
BY QuietInv, FailedType DEF Refused

\* The end of a call: done, or given up and the device disabled.
LEMMA PollInv ==
    ASSUME QueueInv, Poll
    PROVE  QueueInv'
<1>0. TypeOK /\ call # NoCall
  BY DEF QueueInv, Poll, PollDone, PollAgain, PollTimeout
<1>1. call \in Call /\ data \in Sector
  BY <1>0 DEF TypeOK
<1>2. UNCHANGED deviceVars
  BY DEF Poll
<1>3. ASSUME UNCHANGED <<req, data, status, availIdx>>
      PROVE  /\ (Drained' = Drained) /\ (InRing' = InRing)
             /\ (WithDevice' = WithDevice) /\ Seen(req.lba)' = Seen(req.lba)
  BY <1>2, <1>3 DEF Drained, InRing, WithDevice, deviceVars, Succ, Seen
<1>4. CASE PollDone
  <2>1. call' = NoCall /\ vblk' = vblk /\ UNCHANGED <<req, data, status, availIdx>>
    BY <1>4 DEF PollDone
  <2>2. Drained
    <3>1. usedIdx = availIdx
      BY <1>0, <1>4 DEF PollDone, QueueInv
    <3>2. availIdx # Succ(usedIdx)
      BY <1>0, <3>1, SuccNext DEF TypeOK
    <3> QED BY <3>2 DEF QueueInv, InRing, WithDevice
  <2>3. answer' \in [ok : BOOLEAN, data : Sector]
    BY <1>1, <1>4, QueueAssumption DEF PollDone, Completed
  <2>4. TypeOK'
    BY <1>0, <1>2, <2>1, <2>3 DEF TypeOK, deviceVars
  <2> QED
    BY <1>3, <2>1, <2>2, <2>4 DEF QueueInv
<1>5. CASE PollAgain
  <2>1. /\ vblk' = vblk /\ answer' = answer
        /\ UNCHANGED <<req, data, status, availIdx>>
        /\ call' = [call EXCEPT !.guard = @ + 1]
        /\ call.guard < PollLimit
    BY <1>5 DEF PollAgain
  <2>2. /\ call' \in Call /\ call'.target = call.target
        /\ call'.type = call.type /\ call' # NoCall
    <3>1. call.guard + 1 \in 0 .. PollLimit
      BY SMT, <1>1, <2>1, QueueAssumption DEF Call
    <3>2. call' \in Call
      BY <1>1, <2>1, <3>1 DEF Call
    <3>3. call'.target = call.target /\ call'.type = call.type
      BY <1>1, <2>1 DEF Call
    <3>4. call'.type # "none"
      BY <3>2 DEF Call
    <3> QED BY SMT, <3>2, <3>3, <3>4 DEF NoCall
  <2>3. TypeOK'
    BY <1>0, <1>2, <2>1, <2>2 DEF TypeOK, deviceVars
  <2> QED
    BY SMT, <1>0, <1>3, <2>1, <2>2, <2>3 DEF QueueInv
<1>6. CASE PollTimeout
  <2>1. /\ call' = NoCall /\ answer' = Failed
        /\ UNCHANGED <<req, data, status, availIdx>>
        /\ vblk' = [vblk EXCEPT !.present = FALSE]
    BY <1>6 DEF PollTimeout, Disabled
  <2>2. /\ vblk' \in [present : BOOLEAN, flush_ok : BOOLEAN, qsize : 0 .. QSIZE]
        /\ ~vblk'.present
    BY <1>0, <2>1 DEF TypeOK
  <2>3. TypeOK'
    BY <1>0, <1>2, <2>1, <2>2, FailedType DEF TypeOK, deviceVars
  <2> QED
    BY <1>3, <2>1, <2>2, <2>3 DEF QueueInv
<1> QED
  BY <1>4, <1>5, <1>6 DEF Poll

\* The device takes the one request of the ring, once.
LEMMA FetchInv ==
    ASSUME QueueInv, Fetch
    PROVE  QueueInv' /\ ~Drained /\ ~Drained'
<1>1. TypeOK /\ fetched # availIdx
  BY DEF QueueInv, Fetch
<1>2. InRing
  BY <1>1 DEF QueueInv, Drained, WithDevice
<1>3. /\ UNCHANGED <<req, data, status, availIdx, vblk, call, answer>>
      /\ usedIdx' = usedIdx /\ disk' = disk /\ cache' = cache
      /\ fetched' = Succ(fetched)
      /\ inflight' = {[idx |-> usedIdx, type |-> req.type, lba |-> req.lba]}
  BY <1>2 DEF Fetch, driverVars, InRing
<1>4. WithDevice'
  BY <1>2, <1>3 DEF WithDevice, InRing, Succ
<1>5. usedIdx # availIdx
  BY <1>1, <1>2, SuccNext DEF InRing, TypeOK
<1>6. ~Drained /\ ~Drained'
  BY <1>3, <1>5 DEF Drained
<1>7. [idx |-> usedIdx, type |-> req.type, lba |-> req.lba]
        \in [idx : Idx, type : {"in", "out", "flush"}, lba : Lba]
  BY <1>1 DEF TypeOK, Request
<1>8. TypeOK'
  BY <1>1, <1>2, <1>3, <1>7, SuccNext DEF TypeOK, InRing
<1> QED
  BY <1>3, <1>4, <1>6, <1>8 DEF QueueInv

\* Writing the device's cache back changes nothing a read can see.
LEMMA DestageInv ==
    ASSUME QueueInv, NEW l \in Lba, Destage(l)
    PROVE  QueueInv'
<1>1. /\ TypeOK
      /\ UNCHANGED <<req, data, status, availIdx, vblk, call, answer,
                     usedIdx, fetched, inflight>>
      /\ disk' = [disk EXCEPT ![l] = cache[l]] /\ cache[l] # NoSector
      /\ cache' = [cache EXCEPT ![l] = NoSector]
  BY DEF QueueInv, Destage, driverVars
<1>2. cache[l] \in Sector
  BY <1>1 DEF TypeOK
<1>3. disk' \in [Lba -> Sector] /\ cache' \in [Lba -> Sector \cup {NoSector}]
  BY <1>1, <1>2 DEF TypeOK
<1>4. TypeOK'
  BY <1>1, <1>3 DEF TypeOK
<1>5. req.lba \in Lba
  BY <1>1 DEF TypeOK, Request
<1>6. Seen(req.lba)' = Seen(req.lba)
  <2>1. Seen(req.lba)' = (LET m == req.lba IN IF cache'[m] = NoSector THEN disk'[m] ELSE cache'[m])
    BY SMT, <1>1 DEF Seen
  <2> QED BY <1>1, <1>5, <2>1 DEF Seen, TypeOK
<1>7. (Drained' = Drained) /\ (InRing' = InRing) /\ (WithDevice' = WithDevice)
  BY <1>1 DEF Drained, InRing, WithDevice, Succ
<1> QED
  BY <1>1, <1>4, <1>6, <1>7 DEF QueueInv

\* Every step of the driver and of the device keeps QueueInv.
LEMMA StepInv ==
    ASSUME QueueInv, [Next]_vars
    PROVE  QueueInv'
<1>0. data \in Sector
  BY DEF QueueInv, TypeOK
<1>1. ASSUME NEW l \in Lba, read_sector(l) PROVE QueueInv'
  BY <1>0, <1>1, RefusedInv, SubmitInv DEF read_sector
<1>2. ASSUME NEW l \in Lba, NEW c \in Sector, write_sector(l, c) PROVE QueueInv'
  BY <1>2, RefusedInv, SubmitInv DEF write_sector
<1>3. CASE flush
  <2>0. call = NoCall /\ UNCHANGED deviceVars
    BY <1>3 DEF flush
  <2>1. CASE Refused
    BY <2>0, <2>1, RefusedInv
  <2>2. CASE /\ answer' = [ok |-> TRUE, data |-> Zero]
             /\ UNCHANGED <<req, data, status, availIdx, vblk, call>>
    BY <2>0, <2>2, QuietInv, QueueAssumption
  <2>3. CASE /\ vblk.present
             /\ \E l \in Lba : submit("flush", l)
             /\ UNCHANGED data
    BY <1>0, <2>0, <2>3, SubmitInv
  <2> QED BY <1>3, <2>1, <2>2, <2>3 DEF flush
<1>4. CASE Poll
  BY <1>4, PollInv
<1>5. CASE Device
  BY <1>5, FetchInv, CompleteInv, DestageInv DEF Device
<1>6. CASE UNCHANGED vars
  <2>1. UNCHANGED <<req, data, status, availIdx, vblk, call, deviceVars>>
        /\ answer' = answer
    BY <1>6 DEF vars, driverVars
  <2> QED BY <2>1, QuietInv DEF QueueInv, TypeOK
<1> QED
  BY <1>1, <1>2, <1>3, <1>4, <1>5, <1>6 DEF Next

\* QueueInv holds throughout.
LEMMA Invariance == Spec => []QueueInv
<1>1. QueueInv /\ [Next]_vars => QueueInv'
  BY StepInv
<1> QED
  BY InitInv, <1>1, PTL DEF Spec

\* The driver's state and the shared memory keep their types; the ring indices
\* stay below 2^16.
THEOREM QueueTypeCorrect == Spec => []TypeOK
<1>1. QueueInv => TypeOK
  BY DEF QueueInv
<1> QED
  BY <1>1, Invariance, PTL

\* submit's precise target: a poll that succeeds has seen the completion of
\* its own request, with none left over, for every width of the indices.
THEOREM PreciseTarget == Spec => []CompletionIsOwn
<1>1. QueueInv => CompletionIsOwn
  <2> SUFFICES ASSUME QueueInv, call # NoCall, usedIdx = call.target
               PROVE  Drained
    BY DEF CompletionIsOwn
  <2>1. usedIdx \in Idx /\ usedIdx = availIdx
    BY DEF QueueInv, TypeOK
  <2>2. availIdx # Succ(usedIdx)
    BY <2>1, SuccNext
  <2> QED BY <2>2 DEF QueueInv, InRing, WithDevice
<1> QED
  BY <1>1, Invariance, PTL

-----------------------------------------------------------------------------
(* Every step is a step of BlockDevice.                                    *)

\* Between calls of the driver none is pending in BlockDevice.
LEMMA NoAbstractCall ==
    ASSUME call = NoCall
    PROVE  AbstractCall = Block!NoCall
BY DEF AbstractCall, Block!NoCall

\* A call of the driver is the same call of BlockDevice, late or not.
LEMMA SomeAbstractCall ==
    ASSUME QueueInv, call # NoCall
    PROVE  /\ AbstractCall = [op |-> req.type, lba |-> req.lba,
                              data |-> Payload, state |-> CallState]
           /\ AbstractCall # Block!NoCall
           /\ Late = {}
           /\ req.type \in {"in", "out", "flush"} /\ req.lba \in Lba
<1>1. call.type = req.type /\ vblk.present /\ req.type \in {"in", "out", "flush"}
      /\ req.lba \in Lba
  BY DEF QueueInv, TypeOK, Request
<1>2. AbstractCall = [op |-> req.type, lba |-> req.lba,
                      data |-> Payload, state |-> CallState]
  BY <1>1 DEF AbstractCall
<1>3. AbstractCall.op # "none"
  BY <1>1, <1>2
<1>4. AbstractCall # Block!NoCall
  BY SMT, <1>3 DEF Block!NoCall
<1> QED
  BY <1>1, <1>2, <1>4 DEF Late

\* The two specifications read a sector alike.
LEMMA SeenSame == ASSUME NEW l \in Lba PROVE Block!Seen[l] = Seen(l)
BY DEF Block!Seen, Seen

\* A refused call is a refused call of BlockDevice.
LEMMA RefusedStep ==
    ASSUME QueueInv, call = NoCall, Refused, UNCHANGED deviceVars
    PROVE  Block!Next
<1>1. AbstractCall = Block!NoCall /\ AbstractCall' = Block!NoCall
  BY NoAbstractCall DEF Refused, AbstractCall, Block!NoCall
<1>2. Late' = Late
  BY DEF Refused, deviceVars, Late, Payload
<1>3. Block!Refuse
  BY <1>1, <1>2 DEF Block!Refuse, Refused, deviceVars, Block!Failed, Failed
<1> QED
  BY <1>3 DEF Block!Next

\* submit begins a call of BlockDevice.
LEMMA SubmitStep ==
    ASSUME QueueInv, call = NoCall, vblk.present,
           NEW type \in {"in", "out", "flush"}, NEW lba \in Lba,
           submit(type, lba), data' \in Sector, UNCHANGED deviceVars
    PROVE  Block!Next
<1> DEFINE d == IF type = "out" THEN data' ELSE Zero
<1>1. QueueInv' /\ usedIdx' # availIdx'
  BY SubmitInv
<1>2. /\ req' = [type |-> type, lba |-> lba] /\ call' # NoCall
      /\ vblk' = vblk /\ answer' = answer
      /\ disk' = disk /\ cache' = cache
  BY DEF submit, Publish, deviceVars, NoCall
<1>3. call'.target = availIdx' /\ call'.type = type
  BY <1>1, <1>2 DEF QueueInv
<1>4. Payload' = d
  BY <1>2 DEF Payload
<1>5. CallState' = "pending"
  BY <1>1, <1>3 DEF CallState
<1>6. AbstractCall' = [op |-> type, lba |-> lba, data |-> d, state |-> "pending"]
  BY <1>2, <1>3, <1>4, <1>5 DEF AbstractCall
<1>7. AbstractCall = Block!NoCall
  BY NoAbstractCall
<1>8. Late = {} /\ Late' = {}
  BY <1>2 DEF Late
<1>9. d \in Sector
  BY QueueAssumption
<1> HIDE DEF d
<1>10. Block!Begin(type, lba, d)
  BY <1>2, <1>6, <1>7, <1>8 DEF Block!Begin
<1> QED
  BY <1>9, <1>10 DEF Block!Next

\* The end of the poll, in time or not, ends the call of BlockDevice.
LEMMA PollStep ==
    ASSUME QueueInv, Poll
    PROVE  [Block!Next]_(Block!vars)
<1>0. /\ call # NoCall /\ UNCHANGED <<req, data, status, availIdx, deviceVars>>
      /\ disk' = disk /\ cache' = cache /\ usedIdx' = usedIdx
  BY DEF Poll, PollDone, PollAgain, PollTimeout, deviceVars
<1>1. /\ AbstractCall = [op |-> req.type, lba |-> req.lba,
                         data |-> Payload, state |-> CallState]
      /\ AbstractCall # Block!NoCall
      /\ Late = {} /\ req.lba \in Lba
      /\ req.type \in {"in", "out", "flush"}
  BY <1>0, SomeAbstractCall
<1>2. /\ call.target = availIdx /\ call.type = req.type /\ vblk.present
      /\ TypeOK
  BY <1>0 DEF QueueInv
<1>3. CASE PollDone
  <2>1. /\ usedIdx = availIdx /\ call' = NoCall /\ answer' = Completed
        /\ vblk' = vblk
    BY <1>2, <1>3 DEF PollDone
  <2>2. AbstractCall' = Block!NoCall /\ Late' = {}
    BY <1>2, <2>1 DEF AbstractCall, Block!NoCall, Late
  <2>3. CallState # "pending" /\ (CallState = "ok" <=> status = "ok")
    BY <1>2, <2>1 DEF CallState
  <2>4. Drained
    BY <1>0, <1>2, <2>1, SuccNext DEF QueueInv, InRing, WithDevice, TypeOK
  <2>5. status = "ok" /\ req.type = "in" => data = Block!Seen[req.lba]
    BY <1>0, <1>1, <1>2, <2>4, SeenSame DEF QueueInv
  <2>6. answer' = [ok   |-> CallState = "ok",
                   data |-> IF CallState = "ok" /\ req.type = "in"
                            THEN Block!Seen[req.lba] ELSE Zero]
    BY <1>2, <2>1, <2>3, <2>5 DEF Completed
  <2>7. Block!Return
    BY <1>0, <1>1, <2>1, <2>2, <2>3, <2>6 DEF Block!Return
  <2> QED BY <2>7 DEF Block!Next
<1>4. CASE PollAgain
  <2>1. /\ call' = [call EXCEPT !.guard = @ + 1] /\ vblk' = vblk
        /\ answer' = answer /\ QueueInv'
    BY <1>4, PollInv DEF PollAgain
  <2>2. call \in Call
    BY <1>0, <1>2 DEF TypeOK
  <2>3. call'.type = call.type /\ call'.target = call.target
    BY <2>1, <2>2 DEF Call
  <2>4. call' # NoCall
    BY SMT, <1>1, <1>2, <2>3 DEF NoCall
  <2>5. AbstractCall' = AbstractCall
    BY <1>0, <2>3, <2>4 DEF AbstractCall, Payload, CallState
  <2>6. Late' = Late
    BY <1>0, <2>1 DEF Late, Payload
  <2> QED
    BY <1>0, <2>1, <2>5, <2>6 DEF Block!vars
<1>5. CASE PollTimeout
  <2>1. /\ usedIdx # availIdx /\ call' = NoCall /\ answer' = Failed
        /\ vblk' = [vblk EXCEPT !.present = FALSE]
    BY <1>2, <1>5 DEF PollTimeout, Disabled
  <2>2. vblk'.present = FALSE /\ vblk'.flush_ok = vblk.flush_ok
    BY <1>2, <2>1 DEF TypeOK
  <2>3. AbstractCall' = Block!NoCall
    BY <2>1 DEF AbstractCall, Block!NoCall
  <2>4. CallState = "pending"
    BY <1>2, <2>1 DEF CallState
  <2>5. Late' = IF req.type = "in" THEN {} ELSE {AbstractCall}
    BY <1>0, <1>1, <2>1, <2>2, <2>4 DEF Late, Payload
  <2>6. Block!GiveUp
    BY <1>0, <1>1, <2>1, <2>2, <2>3, <2>4, <2>5
       DEF Block!GiveUp, Block!Failed, Failed
  <2> QED BY <2>6 DEF Block!Next
<1> QED
  BY <1>3, <1>4, <1>5 DEF Poll

\* A transfer of the device is the effect of the request in the frame.
LEMMA TransferEffect ==
    ASSUME NEW r, Transfer(r), r.type = req.type, r.lba = req.lba,
           NEW c, c.op = req.type, c.lba = req.lba, c.data = Payload
    PROVE  Block!Effect(c)
<1>1. CASE r.type = "in"
  BY <1>1 DEF Transfer, Block!Effect
<1>2. CASE r.type = "out"
  <2>1. c.data = data
    BY <1>2 DEF Payload
  <2> QED BY <1>2, <2>1 DEF Transfer, Block!Effect
<1>3. CASE r.type = "flush"
  <2>1. [l \in Lba |-> Seen(l)] = Block!Seen
    BY DEF Seen, Block!Seen
  <2> QED BY <1>3, <2>1 DEF Transfer, Block!Effect
<1> QED
  BY <1>1, <1>2, <1>3 DEF Transfer

\* The completion of a request is where its effect happens in BlockDevice,
\* while the call waits or after it gave up.
LEMMA CompleteStep ==
    ASSUME QueueInv, NEW r \in inflight, Complete(r)
    PROVE  [Block!Next]_(Block!vars)
<1>1. /\ QueueInv' /\ Drained' /\ usedIdx # availIdx
      /\ r.type = req.type /\ r.lba = req.lba
  BY CompleteInv
<1>2. /\ req' = req /\ availIdx' = availIdx /\ vblk' = vblk
      /\ call' = call /\ answer' = answer /\ usedIdx' = availIdx
  BY <1>1 DEF Complete, Drained
<1>3. req.type = "out" => data' = data
  BY <1>1 DEF Complete, Transfer
<1>4. Payload' = Payload
  BY <1>2, <1>3 DEF Payload
<1>5. \/ Transfer(r) /\ status' = "ok"
      \/ Transfer(r) /\ status' = "error"
      \/ UNCHANGED <<disk, cache>> /\ status' = "error"
  BY DEF Complete
<1>6. CASE call # NoCall
  <2>1. /\ AbstractCall = [op |-> req.type, lba |-> req.lba,
                           data |-> Payload, state |-> CallState]
        /\ AbstractCall # Block!NoCall /\ Late = {}
    BY <1>6, SomeAbstractCall
  <2>2. call.target = availIdx /\ call.type = req.type /\ vblk.present
    BY <1>6 DEF QueueInv
  <2>3. CallState = "pending"
    BY <1>1, <2>2 DEF CallState
  <2>4. CallState' = IF status' = "ok" THEN "ok" ELSE "error"
    BY <1>2, <2>2 DEF CallState
  <2>5. AbstractCall' = [AbstractCall EXCEPT !.state = CallState']
    <3>1. AbstractCall' = [op |-> req.type, lba |-> req.lba,
                           data |-> Payload, state |-> CallState']
      BY <1>2, <1>4, <1>6, <2>2 DEF AbstractCall
    <3> QED BY SMT, <2>1, <3>1
  <2>6. Late' = {}
    BY <1>2, <2>2 DEF Late
  <2>7. Transfer(r) => Block!Effect(AbstractCall)
    BY <1>1, <2>1, TransferEffect
  <2>8. AbstractCall.state = "pending"
    BY <2>1, <2>3
  <2>9. Block!Perform
    BY <1>2, <1>5, <2>1, <2>4, <2>5, <2>6, <2>7, <2>8 DEF Block!Perform
  <2> QED BY <2>9 DEF Block!Next
<1>7. CASE call = NoCall
  <2>1. ~vblk.present
    BY <1>1, <1>7 DEF QueueInv, Drained
  <2>2. AbstractCall' = AbstractCall
    BY <1>2, <1>7 DEF AbstractCall
  <2>3. Late' = {}
    BY <1>2 DEF Late
  <2>4. CASE req.type = "in"
    <3>1. Late = {}
      BY <2>4 DEF Late
    <3>2. disk' = disk /\ cache' = cache
      BY <1>1, <1>5, <2>4 DEF Transfer
    <3> QED
      BY <1>2, <2>2, <2>3, <3>1, <3>2 DEF Block!vars
  <2>5. CASE req.type # "in"
    <3> DEFINE c == [op |-> req.type, lba |-> req.lba, data |-> Payload,
                     state |-> "pending"]
    <3>1. Late = {c}
      BY <1>1, <2>1, <2>5 DEF Late
    <3>2. Transfer(r) => Block!Effect(c)
      BY <1>1, TransferEffect
    <3> HIDE DEF c
    <3>3. Block!LateEffect(c)
      BY <1>2, <1>5, <2>2, <2>3, <3>1, <3>2 DEF Block!LateEffect
    <3> QED BY <3>1, <3>3 DEF Block!Next
  <2> QED BY <2>4, <2>5
<1> QED
  BY <1>6, <1>7

\* What the device does is what the medium of BlockDevice does.
LEMMA DeviceStep ==
    ASSUME QueueInv, Device
    PROVE  [Block!Next]_(Block!vars)
<1>1. CASE Fetch
  <2>1. UNCHANGED <<req, data, status, availIdx, vblk, call, answer,
                    usedIdx, disk, cache>>
    BY <1>1 DEF Fetch, driverVars
  <2>2. AbstractCall' = AbstractCall /\ Late' = Late
    BY <2>1 DEF AbstractCall, Payload, CallState, Late
  <2> QED BY <2>1, <2>2 DEF Block!vars
<1>2. ASSUME NEW l \in Lba, Destage(l)
      PROVE  [Block!Next]_(Block!vars)
  <2>1. UNCHANGED <<req, data, status, availIdx, vblk, call, answer, usedIdx>>
    BY <1>2 DEF Destage, driverVars
  <2>2. AbstractCall' = AbstractCall /\ Late' = Late
    BY <2>1 DEF AbstractCall, Payload, CallState, Late
  <2>3. Block!Destage(l)
    BY <1>2, <2>1, <2>2 DEF Block!Destage, Destage
  <2> QED BY <2>3 DEF Block!Next
<1> QED
  BY <1>1, <1>2, CompleteStep DEF Device

\* Every step of the driver and the device is one of BlockDevice, or none.
LEMMA BlockStep ==
    ASSUME QueueInv, [Next]_vars
    PROVE  [Block!Next]_(Block!vars)
<1>0. data \in Sector
  BY DEF QueueInv, TypeOK
<1>1. ASSUME NEW l \in Lba, read_sector(l) PROVE Block!Next
  BY <1>0, <1>1, RefusedStep, SubmitStep DEF read_sector
<1>2. ASSUME NEW l \in Lba, NEW c \in Sector, write_sector(l, c) PROVE Block!Next
  BY <1>2, RefusedStep, SubmitStep DEF write_sector
<1>3. CASE flush
  <2>0. call = NoCall /\ UNCHANGED deviceVars
    BY <1>3 DEF flush
  <2>1. CASE Refused
    BY <2>0, <2>1, RefusedStep
  <2>2. CASE /\ vblk.present /\ ~vblk.flush_ok
             /\ answer' = [ok |-> TRUE, data |-> Zero]
             /\ UNCHANGED <<req, data, status, availIdx, vblk, call>>
    <3>1. AbstractCall = Block!NoCall /\ AbstractCall' = AbstractCall
      BY <2>0, <2>2, NoAbstractCall DEF AbstractCall, Block!NoCall
    <3>2. Late' = Late
      BY <2>0, <2>2 DEF Late, Payload, deviceVars
    <3>3. Block!FlushNothing
      BY <2>0, <2>2, <3>1, <3>2 DEF Block!FlushNothing, deviceVars
    <3> QED BY <3>3 DEF Block!Next
  <2>3. CASE /\ vblk.present
             /\ \E l \in Lba : submit("flush", l)
             /\ UNCHANGED data
    BY <1>0, <2>0, <2>3, SubmitStep
  <2> QED BY <1>3, <2>1, <2>2, <2>3 DEF flush
<1>4. CASE Poll
  BY <1>4, PollStep
<1>5. CASE Device
  BY <1>5, DeviceStep
<1>6. CASE UNCHANGED vars
  BY <1>6 DEF vars, driverVars, deviceVars, Block!vars, AbstractCall, Late,
              Payload, CallState
<1> QED
  BY <1>1, <1>2, <1>3, <1>4, <1>5, <1>6 DEF Next

\* The driver implements the block layer its callers rely on: a call that
\* succeeds did what it says, and after a timeout the abandoned request is
\* out of every caller's sight.
THEOREM DriverIsBlockDevice == Spec => ImplementsBlockDevice
<1>1. Init => Block!Init
  <2> SUFFICES ASSUME Init PROVE Block!Init
    OBVIOUS
  <2>1. vblk.present \in BOOLEAN /\ vblk.flush_ok \in BOOLEAN
    BY InitInv DEF QueueInv, TypeOK
  <2>2. AbstractCall = Block!NoCall /\ Late = {}
    BY NoAbstractCall DEF Init, Late
  <2> QED
    BY <2>1, <2>2 DEF Init, Block!Init, Failed, Block!Failed
<1>2. QueueInv /\ [Next]_vars => [Block!Next]_(Block!vars)
  BY BlockStep
<1> QED
  BY <1>1, <1>2, Invariance, PTL DEF Spec, ImplementsBlockDevice, Block!Spec

-----------------------------------------------------------------------------
(* Queue 0 over a whole boot.  The kernel's last request may still be with *)
(* the device when the ring-3 driver publishes its own, so that the rings  *)
(* hold up to two; both read the scratch sector.                           *)

TwoInRing ==
    /\ inflight = {}
    /\ fetched = usedIdx
    /\ availIdx = Succ(Succ(usedIdx))

OneOut ==
    /\ \E r \in inflight : inflight = {r}
    /\ fetched = availIdx
    /\ availIdx = Succ(usedIdx)

OneOutOneInRing ==
    /\ \E r \in inflight : inflight = {r} /\ r.idx # fetched
    /\ fetched = Succ(usedIdx)
    /\ availIdx = Succ(fetched)

TwoOut ==
    /\ \E r, q \in inflight : r # q /\ inflight = {r, q}
    /\ fetched = availIdx
    /\ availIdx = Succ(Succ(usedIdx))

AtMostTwo ==
    Drained \/ InRing \/ TwoInRing \/ OneOut \/ OneOutOneInRing \/ TwoOut

ScratchRead(r) == r.type = "in" /\ r.lba = Scratch

\* Nothing but reads of the scratch sector is outstanding.
ReadsOnly == ScratchRead(req) /\ \A r \in inflight : ScratchRead(r)

Seeded == Seen(Scratch) = Magic

\* A device without VIRTIO_BLK_F_FLUSH writes through.
WriteThrough == ~vblk.flush_ok => \A l \in Lba : cache[l] = NoSector

\* Boot: the rings are the kernel's.  A seeding write that has completed well,
\* or was answered so, has put the magic into the scratch sector.
KernelInv ==
    /\ QueueInv /\ WriteThrough /\ report = Zero /\ ~timedOut
    /\ step = "seed" /\ call # NoCall =>
          /\ req.type = "out" /\ req.lba = Scratch /\ data = Magic
          /\ Drained /\ status = "ok" => Seeded
    /\ step = "seed" /\ call = NoCall /\ answer.ok /\ vblk.present => Seeded
    /\ step = "submit" => Seeded /\ ScratchRead(req)

\* The driver runs: the buffer holds the sentinel until a read overwrites it,
\* and its status byte cannot be good before one has.
UserInv ==
    /\ TypeOK /\ call = NoCall /\ Seeded /\ ReadsOnly
    /\ ~fresh => data = Zero
    /\ step \in {"fill", "publish"} => QueueInv
    /\ step \in {"poll", "read", "report"} => AtMostTwo /\ drv.target = availIdx
    /\ step \in {"fill", "publish", "poll"} => ~timedOut
    /\ step \in {"publish", "poll", "read"} /\ status = "ok" => data = Magic
    /\ step \in {"read", "report"} /\ ~timedOut => Drained
    /\ step = "report" => /\ report = Magic => fresh
                          /\ ~timedOut /\ status = "ok" => report = Magic

\* Afterwards the device may still work on what was left in the rings.
OverInv ==
    /\ TypeOK /\ call = NoCall
    /\ QueueInv \/ ReadsOnly
    /\ report = Magic => fresh /\ Seeded /\ ReadsOnly

UserSteps == {"fill", "publish", "poll", "read", "report"}

BootInv ==
    /\ step \in {"boot", "seed", "submit", "over"} \cup UserSteps
    /\ drv \in [target : Idx, left : Int]
    /\ timedOut \in BOOLEAN /\ fresh \in BOOLEAN
    /\ step \in {"boot", "seed", "submit"} => KernelInv
    /\ step \in UserSteps => UserInv
    /\ step = "over" => OverInv

\* Two requests ahead is not where the ring began, since it has more than two
\* indices.
LEMMA SuccSucc ==
    ASSUME NEW i \in Idx
    PROVE  Succ(Succ(i)) \in Idx /\ Succ(Succ(i)) # i /\ Succ(Succ(i)) # Succ(i)
<1>1. CASE i + 2 < IdxMod
  <2>1. Succ(i) = i + 1
    BY SMT, <1>1, QueueAssumption DEF Idx, Succ
  <2>2. Succ(Succ(i)) = i + 2
    BY SMT, <1>1, <2>1, QueueAssumption DEF Idx, Succ
  <2> QED BY SMT, <1>1, <2>1, <2>2, QueueAssumption DEF Idx
<1>2. CASE i + 2 = IdxMod
  <2>1. Succ(i) = i + 1
    BY SMT, <1>2, QueueAssumption DEF Idx, Succ
  <2>2. Succ(Succ(i)) = 0
    BY SMT, <1>2, <2>1, QueueAssumption DEF Idx, Succ
  <2> QED BY SMT, <1>2, <2>1, <2>2, QueueAssumption DEF Idx
<1>3. CASE i + 1 = IdxMod
  <2>1. Succ(i) = 0
    BY SMT, <1>3, QueueAssumption DEF Idx, Succ
  <2>2. Succ(Succ(i)) = 1
    BY SMT, <2>1, QueueAssumption DEF Idx, Succ
  <2> QED BY SMT, <1>3, <2>1, <2>2, QueueAssumption DEF Idx
<1> QED
  BY SMT, <1>1, <1>2, <1>3, QueueAssumption DEF Idx

\* When used.idx has caught up with avail.idx, nothing is outstanding.
LEMMA CaughtUp ==
    ASSUME TypeOK, AtMostTwo, usedIdx = availIdx
    PROVE  Drained
<1>1. usedIdx \in Idx
  BY DEF TypeOK
<1>2. usedIdx # Succ(usedIdx) /\ usedIdx # Succ(Succ(usedIdx))
  BY <1>1, SuccNext, SuccSucc
<1> QED
  BY <1>2 DEF AtMostTwo, InRing, TwoInRing, OneOut, OneOutOneInRing, TwoOut

\* The device takes one request at a time from the ring.
LEMMA FetchRing ==
    ASSUME TypeOK, AtMostTwo, Fetch
    PROVE  AtMostTwo'
<1> DEFINE new == [idx |-> fetched, type |-> req.type, lba |-> req.lba]
<1>1. /\ fetched # availIdx /\ fetched' = Succ(fetched)
      /\ inflight' = inflight \cup {new}
      /\ usedIdx' = usedIdx /\ availIdx' = availIdx
  BY DEF Fetch, driverVars
<1>2. new.idx = fetched /\ usedIdx \in Idx
  BY DEF TypeOK
<1> HIDE DEF new
<1>3. CASE InRing
  <2>1. OneOut'
    BY <1>1, <1>3 DEF InRing, OneOut, Succ
  <2> QED BY <2>1 DEF AtMostTwo
<1>4. CASE TwoInRing
  <2>1. fetched # Succ(fetched)
    BY <1>2, <1>4, SuccNext DEF TwoInRing
  <2>2. inflight' = {new} /\ new.idx # fetched'
    BY <1>1, <1>2, <1>4, <2>1 DEF TwoInRing
  <2>3. fetched' = Succ(usedIdx)' /\ availIdx' = Succ(fetched)'
    BY <1>1, <1>4 DEF TwoInRing, Succ
  <2>4. OneOutOneInRing'
    BY <2>2, <2>3 DEF OneOutOneInRing
  <2> QED BY <2>4 DEF AtMostTwo
<1>5. CASE OneOutOneInRing
  <2>1. PICK r \in inflight : inflight = {r} /\ r.idx # fetched
    BY <1>5 DEF OneOutOneInRing
  <2>2. inflight' = {r, new} /\ r # new
    BY <1>1, <1>2, <2>1
  <2>3. fetched' = availIdx' /\ availIdx' = Succ(Succ(usedIdx))'
    BY <1>1, <1>5 DEF OneOutOneInRing, Succ
  <2>4. TwoOut'
    BY <2>2, <2>3 DEF TwoOut
  <2> QED BY <2>4 DEF AtMostTwo
<1> QED
  BY <1>1, <1>3, <1>4, <1>5 DEF AtMostTwo, Drained, OneOut, TwoOut

\* It completes one at a time, in any order.
LEMMA CompleteRing ==
    ASSUME TypeOK, AtMostTwo, NEW r \in inflight, Complete(r)
    PROVE  AtMostTwo'
<1>1. /\ fetched' = fetched /\ inflight' = inflight \ {r}
      /\ usedIdx' = Succ(usedIdx) /\ availIdx' = availIdx
  BY DEF Complete
<1>2. CASE OneOut
  <2>1. Drained'
    BY <1>1, <1>2 DEF OneOut, Drained
  <2> QED BY <2>1 DEF AtMostTwo
<1>3. CASE OneOutOneInRing
  <2>1. InRing'
    BY <1>1, <1>3 DEF OneOutOneInRing, InRing, Succ
  <2> QED BY <2>1 DEF AtMostTwo
<1>4. CASE TwoOut
  <2>1. PICK q \in inflight : q # r /\ inflight = {r, q}
    BY <1>4 DEF TwoOut
  <2>2. inflight' = {q}
    BY <1>1, <2>1
  <2>3. fetched' = availIdx' /\ availIdx' = Succ(usedIdx)'
    BY <1>1, <1>4 DEF TwoOut, Succ
  <2>4. OneOut'
    BY <2>2, <2>3 DEF OneOut
  <2> QED BY <2>4 DEF AtMostTwo
<1> QED
  BY <1>2, <1>3, <1>4 DEF AtMostTwo, Drained, InRing, TwoInRing

\* Whatever the rings hold, the device leaves everything well typed.
LEMMA DeviceTypes == TypeOK /\ Device => TypeOK'
<1> SUFFICES ASSUME TypeOK, Device PROVE TypeOK'
  OBVIOUS
<1>0. /\ data \in Sector /\ disk \in [Lba -> Sector]
      /\ cache \in [Lba -> Sector \cup {NoSector}]
      /\ req.type \in {"in", "out", "flush"} /\ req.lba \in Lba
      /\ inflight \subseteq [idx : Idx, type : {"in", "out", "flush"}, lba : Lba]
      /\ usedIdx \in Idx /\ fetched \in Idx
  BY DEF TypeOK, Request
<1>1. \A l \in Lba : Seen(l) \in Sector
  BY <1>0 DEF Seen
<1>2. CASE Fetch
  <2>1. /\ UNCHANGED <<req, data, status, availIdx, vblk, call, answer>>
        /\ usedIdx' = usedIdx /\ disk' = disk /\ cache' = cache
        /\ fetched' = Succ(fetched)
        /\ inflight' = inflight
             \cup {[idx |-> fetched, type |-> req.type, lba |-> req.lba]}
    BY <1>2 DEF Fetch, driverVars
  <2>2. inflight' \subseteq [idx : Idx, type : {"in", "out", "flush"}, lba : Lba]
    BY SMT, <1>0, <2>1
  <2> QED
    BY <1>0, <2>1, <2>2, SuccNext DEF TypeOK
<1>3. ASSUME NEW r \in inflight, Complete(r) PROVE TypeOK'
  <2>1. /\ UNCHANGED <<req, availIdx, vblk, call, answer, fetched>>
        /\ usedIdx' = Succ(usedIdx) /\ inflight' = inflight \ {r}
        /\ status' \in {"ok", "error"}
    BY <1>3 DEF Complete
  <2>2. r.lba \in Lba
    BY <1>0
  <2>3. Transfer(r) \/ UNCHANGED <<data, disk, cache>>
    BY <1>3 DEF Complete
  <2>4. data' \in Sector
    BY <1>0, <1>1, <2>2, <2>3 DEF Transfer
  <2>5. disk' \in [Lba -> Sector]
    BY <1>0, <1>1, <2>2, <2>3 DEF Transfer
  <2>6. cache' \in [Lba -> Sector \cup {NoSector}]
    BY <1>0, <2>2, <2>3 DEF Transfer
  <2> QED
    BY <1>0, <2>1, <2>4, <2>5, <2>6, SuccNext DEF TypeOK
<1>4. ASSUME NEW l \in Lba, Destage(l) PROVE TypeOK'
  <2>1. /\ UNCHANGED <<req, data, status, availIdx, vblk, call, answer,
                       usedIdx, fetched, inflight>>
        /\ disk' = [disk EXCEPT ![l] = cache[l]] /\ cache[l] # NoSector
        /\ cache' = [cache EXCEPT ![l] = NoSector]
    BY <1>4 DEF Destage, driverVars
  <2>2. cache[l] \in Sector
    BY <1>0, <2>1
  <2>3. disk' \in [Lba -> Sector] /\ cache' \in [Lba -> Sector \cup {NoSector}]
    BY <1>0, <2>1, <2>2
  <2> QED
    BY <2>1, <2>3 DEF TypeOK
<1> QED
  BY <1>2, <1>3, <1>4 DEF Device

\* Writing the cache back is invisible to every read.
LEMMA DestageSeen ==
    ASSUME TypeOK, NEW l \in Lba, Destage(l)
    PROVE  Seen(Scratch)' = Seen(Scratch)
<1>1. /\ disk' = [disk EXCEPT ![l] = cache[l]] /\ cache[l] # NoSector
      /\ cache' = [cache EXCEPT ![l] = NoSector]
  BY DEF Destage
<1>2. disk \in [Lba -> Sector] /\ cache \in [Lba -> Sector \cup {NoSector}]
  BY DEF TypeOK
<1> QED
  BY <1>1, <1>2, DriverAssumption DEF Seen

\* With only reads of the scratch sector outstanding the device changes no
\* sector, and a good status comes with the sector in the buffer.
LEMMA DeviceReads ==
    ASSUME TypeOK, ReadsOnly, Device
    PROVE  /\ ReadsOnly' /\ Seen(Scratch)' = Seen(Scratch)
           /\ UNCHANGED <<req, availIdx, vblk, call, answer>>
           /\ data' = data \/ data' = Seen(Scratch)
           /\ status' = "ok" => \/ status = "ok" /\ data' = data
                                \/ data' = Seen(Scratch)
<1>1. CASE Fetch
  <2>1. /\ UNCHANGED <<req, data, status, availIdx, vblk, call, answer>>
        /\ disk' = disk /\ cache' = cache
        /\ inflight' = inflight
             \cup {[idx |-> fetched, type |-> req.type, lba |-> req.lba]}
    BY <1>1 DEF Fetch, driverVars
  <2>2. ReadsOnly'
    BY SMT, <2>1 DEF ReadsOnly, ScratchRead
  <2> QED BY <2>1, <2>2 DEF Seen
<1>2. ASSUME NEW r \in inflight, Complete(r)
      PROVE  /\ ReadsOnly' /\ Seen(Scratch)' = Seen(Scratch)
             /\ UNCHANGED <<req, availIdx, vblk, call, answer>>
             /\ data' = data \/ data' = Seen(Scratch)
             /\ status' = "ok" => data' = Seen(Scratch)
  <2>1. r.type = "in" /\ r.lba = Scratch
    BY DEF ReadsOnly, ScratchRead
  <2>2. /\ UNCHANGED <<req, availIdx, vblk, call, answer>>
        /\ inflight' = inflight \ {r}
    BY <1>2 DEF Complete
  <2>3. disk' = disk /\ cache' = cache
    BY <1>2, <2>1 DEF Complete, Transfer
  <2>4. ReadsOnly'
    BY <2>2 DEF ReadsOnly, ScratchRead
  <2>5. /\ data' = data \/ data' = Seen(Scratch)
        /\ status' = "ok" => data' = Seen(Scratch)
    BY <1>2, <2>1 DEF Complete, Transfer
  <2> QED BY <2>2, <2>3, <2>4, <2>5 DEF Seen
<1>3. ASSUME NEW l \in Lba, Destage(l)
      PROVE  /\ ReadsOnly' /\ Seen(Scratch)' = Seen(Scratch)
             /\ UNCHANGED <<req, data, status, availIdx, vblk, call, answer>>
  <2>1. UNCHANGED <<req, data, status, availIdx, vblk, call, answer, inflight>>
    BY <1>3 DEF Destage, driverVars
  <2>2. ReadsOnly'
    BY <2>1 DEF ReadsOnly, ScratchRead
  <2> QED BY <1>3, <2>1, <2>2, DestageSeen
<1> QED
  BY <1>1, <1>2, <1>3 DEF Device

\* Nothing outstanding, nothing to do but to write the cache back.
LEMMA DeviceDrained ==
    ASSUME TypeOK, Drained, Device
    PROVE  /\ UNCHANGED <<driverVars, usedIdx, fetched, inflight>>
           /\ Drained' /\ Seen(Scratch)' = Seen(Scratch)
<1>1. \E l \in Lba : Destage(l)
  BY DEF Drained, Device, Fetch
<1>2. PICK l \in Lba : Destage(l)
  BY <1>1
<1>3. UNCHANGED <<driverVars, usedIdx, fetched, inflight>>
  BY <1>2 DEF Destage
<1>4. Drained'
  BY <1>3 DEF Drained, driverVars
<1> QED
  BY <1>2, <1>3, <1>4, DestageSeen

-----------------------------------------------------------------------------
(* The steps of boot and of the ring-3 driver preserve BootInv.            *)

\* No step fills the cache of a device that has none.
LEMMA WriteThroughStays ==
    ASSUME TypeOK, WriteThrough, [Next]_vars
    PROVE  WriteThrough'
<1>1. vblk'.flush_ok = vblk.flush_ok
  <2>1. CASE vblk' = vblk
    BY <2>1
  <2>2. CASE vblk' = [vblk EXCEPT !.present = FALSE]
    BY <2>2 DEF TypeOK
  <2> QED
    BY <2>1, <2>2 DEF Next, vars, driverVars, read_sector, write_sector, flush,
                      Refused, submit, Poll, PollDone, PollAgain, PollTimeout,
                      Disabled, Device, Fetch, Complete, Destage
<1>2. CASE cache' = cache
  BY <1>1, <1>2 DEF WriteThrough
<1>3. ASSUME NEW r \in inflight, Complete(r) PROVE WriteThrough'
  <2>1. \/ cache' = cache \/ vblk.flush_ok
        \/ cache' = [l \in Lba |-> NoSector]
    BY <1>3 DEF Complete, Transfer
  <2> QED BY <1>1, <2>1 DEF WriteThrough
<1>4. ASSUME NEW l \in Lba, Destage(l) PROVE WriteThrough'
  <2>1. vblk.flush_ok
    BY <1>4 DEF Destage, WriteThrough
  <2> QED BY <1>1, <2>1 DEF WriteThrough
<1> QED
  BY <1>2, <1>3, <1>4 DEF Next, vars, deviceVars, read_sector, write_sector,
                          flush, Poll, Device, Fetch

\* The smoke test and the object store work before the seeding.
LEMMA BootCallKeeps == BootInv /\ BootCall => BootInv'
<1> SUFFICES ASSUME BootInv, BootCall PROVE BootInv'
  OBVIOUS
<1>1. step = "boot" /\ step' = "boot" /\ UNCHANGED bootVars /\ Next
  BY DEF BootCall, Next, BootLba
<1>2. KernelInv /\ QueueInv'
  BY <1>1, StepInv DEF BootInv, KernelInv
<1>3. WriteThrough'
  BY <1>1, <1>2, WriteThroughStays DEF KernelInv, QueueInv
<1>4. KernelInv'
  BY <1>1, <1>2, <1>3 DEF KernelInv, bootVars
<1> QED
  BY <1>1, <1>4 DEF BootInv, UserSteps, bootVars

\* The seeding write is one call of the driver.
LEMMA SeedKeeps == BootInv /\ Seed => BootInv'
<1> SUFFICES ASSUME BootInv, Seed PROVE BootInv'
  OBVIOUS
<1>1. /\ step = "boot" /\ step' = "seed" /\ UNCHANGED bootVars
      /\ write_sector(Scratch, Magic)
  BY DEF Seed
<1>2. KernelInv /\ call = NoCall /\ UNCHANGED deviceVars
  BY <1>1 DEF BootInv, write_sector
<1>3. Next
  BY <1>1, DriverAssumption DEF Next
<1>4. QueueInv' /\ WriteThrough'
  BY <1>2, <1>3, StepInv, WriteThroughStays DEF KernelInv, QueueInv
<1>5. CASE Refused
  <2>1. call' = NoCall /\ ~answer'.ok
    BY <1>2, <1>5 DEF Refused, Failed
  <2>2. KernelInv'
    BY <1>1, <1>2, <1>4, <2>1 DEF KernelInv, bootVars
  <2> QED BY <1>1, <2>2 DEF BootInv, UserSteps, bootVars
<1>6. CASE vblk.present /\ data' = Magic /\ submit("out", Scratch)
  <2>1. InRing' /\ usedIdx' # availIdx'
    BY <1>2, <1>6, SubmitInv, DriverAssumption DEF KernelInv
  <2>2. ~Drained'
    BY <2>1 DEF Drained
  <2>3. req' = [type |-> "out", lba |-> Scratch] /\ call' # NoCall
    BY <1>6 DEF submit, Publish, NoCall
  <2>4. KernelInv'
    BY <1>1, <1>2, <1>4, <1>6, <2>2, <2>3 DEF KernelInv, bootVars
  <2> QED BY <1>1, <2>4 DEF BootInv, UserSteps, bootVars
<1> QED
  BY <1>1, <1>5, <1>6 DEF write_sector

\* Without the seeded sector no driver runs.
LEMMA SetupKeeps == BootInv /\ SetupIncomplete => BootInv'
<1> SUFFICES ASSUME BootInv, SetupIncomplete PROVE BootInv'
  OBVIOUS
<1>1. /\ step = "seed" /\ call = NoCall /\ step' = "over"
      /\ UNCHANGED <<vars, bootVars>>
  BY DEF SetupIncomplete
<1>2. QueueInv /\ report = Zero
  BY <1>1 DEF BootInv, KernelInv
<1>3. QueueInv'
  BY <1>1, <1>2, StepInv
<1>4. TypeOK' /\ call' = NoCall /\ report' # Magic
  BY <1>1, <1>2, <1>3, DriverAssumption DEF QueueInv, vars, driverVars, bootVars
<1>5. OverInv'
  BY <1>3, <1>4 DEF OverInv
<1> QED
  BY <1>1, <1>5 DEF BootInv, UserSteps, bootVars

\* DQ_SUBMIT reads the sector the seeding write was acknowledged for.
LEMMA SubmitKeeps == BootInv /\ devqueue_submit => BootInv'
<1> SUFFICES ASSUME BootInv, devqueue_submit PROVE BootInv'
  OBVIOUS
<1>1. /\ step = "seed" /\ call = NoCall /\ answer.ok /\ vblk.present
      /\ step' = "submit" /\ UNCHANGED bootVars /\ read_sector(Scratch)
  BY DEF devqueue_submit
<1>2. KernelInv /\ Seeded
  BY <1>1 DEF BootInv, KernelInv
<1>3. Next
  BY <1>1, DriverAssumption DEF Next
<1>4. QueueInv' /\ WriteThrough'
  BY <1>2, <1>3, StepInv, WriteThroughStays DEF KernelInv, QueueInv
<1>5. req' = [type |-> "in", lba |-> Scratch] /\ UNCHANGED deviceVars
  BY <1>1 DEF read_sector, Refused, submit, Publish
<1>6. Seeded' /\ ScratchRead(req)'
  BY <1>2, <1>5 DEF Seeded, Seen, deviceVars, ScratchRead
<1>7. KernelInv'
  BY <1>1, <1>2, <1>4, <1>6 DEF KernelInv, bootVars
<1> QED
  BY <1>1, <1>7 DEF BootInv, UserSteps, bootVars

\* In the kernel's queue everything outstanding is the request of the frame.
LEMMA ReadsOnlyFromFrame ==
    ASSUME QueueInv, ScratchRead(req)
    PROVE  ReadsOnly
BY SMT DEF QueueInv, ReadsOnly, ScratchRead, Drained, InRing, WithDevice

\* The hand-over clears the buffer of a queue in which at most the kernel's own
\* read of the scratch sector is left.
LEMMA HandOverKeeps == BootInv /\ HandOver => BootInv'
<1> SUFFICES ASSUME BootInv, HandOver PROVE BootInv'
  OBVIOUS
<1>1. /\ step = "submit" /\ call = NoCall /\ data' = Zero /\ fresh' = FALSE
      /\ step' \in {"fill", "over"}
      /\ UNCHANGED <<req, status, availIdx, vblk, call, answer, usedIdx, fetched,
                     inflight, disk, cache, drv, timedOut, report>>
  BY DEF HandOver, Sentinel, deviceVars
<1>2. /\ QueueInv /\ report = Zero /\ ~timedOut /\ Seeded /\ ReadsOnly
  BY <1>1, ReadsOnlyFromFrame DEF BootInv, KernelInv
<1>3. TypeOK'
  BY <1>1, <1>2, QueueAssumption DEF QueueInv, TypeOK
<1>4. (Drained \/ InRing \/ WithDevice)' /\ (vblk'.present => Drained')
  BY <1>1, <1>2 DEF QueueInv, Drained, InRing, WithDevice, Succ
<1>5. QueueInv' /\ call' = NoCall
  BY <1>1, <1>3, <1>4 DEF QueueInv
<1>6. Seeded' /\ ReadsOnly'
  BY <1>1, <1>2 DEF Seeded, Seen, ReadsOnly, ScratchRead
<1>7. CASE step' = "fill"
  <2>1. UserInv'
    BY <1>1, <1>2, <1>3, <1>5, <1>6, <1>7 DEF UserInv
  <2> QED BY <1>1, <1>7, <2>1 DEF BootInv, UserSteps
<1>8. CASE step' = "over"
  <2>1. OverInv'
    BY <1>1, <1>2, <1>3, <1>5, DriverAssumption DEF OverInv
  <2> QED BY <1>1, <1>8, <2>1 DEF BootInv, UserSteps
<1> QED
  BY <1>1, <1>7, <1>8

\* The kernel's polls: a seeding write that is answered well has happened.
LEMMA PollKeeps == BootInv /\ Poll /\ UNCHANGED <<step, bootVars>> => BootInv'
<1> SUFFICES ASSUME BootInv, Poll, UNCHANGED <<step, bootVars>> PROVE BootInv'
  OBVIOUS
<1>1. /\ call # NoCall /\ UNCHANGED <<req, data, status, availIdx, deviceVars>>
      /\ step' = step /\ UNCHANGED <<drv, timedOut, report, fresh>>
  BY DEF Poll, PollDone, PollAgain, PollTimeout, bootVars
<1>2. step \in {"boot", "seed", "submit"} /\ KernelInv
  BY <1>1 DEF BootInv, UserInv, OverInv
<1>3. QueueInv' /\ WriteThrough'
  BY <1>2, StepInv, WriteThroughStays DEF KernelInv, QueueInv, Next
<1>4. /\ (Seeded' = Seeded) /\ (Drained' = Drained)
      /\ (ScratchRead(req)' = ScratchRead(req))
  BY <1>1 DEF Seeded, Seen, deviceVars, Drained, ScratchRead
<1>5. ASSUME step = "seed", call' = NoCall, answer'.ok, vblk'.present
      PROVE  Seeded
  <2>1. PollDone
    <3>1. ~PollTimeout
      BY SMT, <1>5 DEF PollTimeout, Failed
    <3>2. ASSUME PollAgain PROVE call' # NoCall
      <4>1. call \in Call
        BY <1>1, <1>2 DEF KernelInv, QueueInv, TypeOK
      <4>2. call'.type = call.type /\ call.type # "none"
        BY <3>2, <4>1 DEF PollAgain, Call
      <4> QED BY SMT, <4>2 DEF NoCall
    <3> QED BY <1>5, <3>1, <3>2 DEF Poll
  <2>2. status = "ok" /\ usedIdx = call.target
    BY <1>5, <2>1 DEF PollDone, Completed
  <2>3. usedIdx = availIdx /\ usedIdx \in Idx
    BY <1>1, <1>2, <2>2 DEF KernelInv, QueueInv, TypeOK
  <2>4. availIdx # Succ(usedIdx)
    BY <2>3, SuccNext
  <2>5. Drained
    BY <1>2, <2>4 DEF KernelInv, QueueInv, InRing, WithDevice
  <2> QED
    BY <1>1, <1>2, <1>5, <2>2, <2>5 DEF KernelInv
<1>6. KernelInv'
  BY <1>1, <1>2, <1>3, <1>4, <1>5 DEF KernelInv
<1> QED
  BY <1>1, <1>2, <1>6 DEF BootInv, UserSteps

\* The device at work for the kernel: the completion of the seeding write puts
\* the magic into the scratch sector, and nothing takes it away again.
LEMMA DeviceForKernel ==
    ASSUME KernelInv, Device, UNCHANGED <<step, timedOut, report>>
    PROVE  KernelInv'
<1>1. QueueInv /\ TypeOK /\ QueueInv' /\ WriteThrough'
  BY StepInv, WriteThroughStays DEF KernelInv, QueueInv, Next
<1>2. UNCHANGED <<req, availIdx, vblk, call, answer>>
  BY DEF Device, Fetch, Complete, Destage, driverVars
<1>3. ASSUME step = "seed", call = NoCall, answer.ok, vblk.present
      PROVE  Seeded'
  <2>1. Drained /\ Seeded
    BY <1>1, <1>3 DEF QueueInv, KernelInv
  <2> QED BY <1>1, <2>1, DeviceDrained DEF Seeded
<1>4. ASSUME step = "submit" PROVE Seeded' /\ ScratchRead(req)'
  <2>1. Seeded /\ ScratchRead(req) /\ ReadsOnly
    BY <1>1, <1>4, ReadsOnlyFromFrame DEF KernelInv
  <2>2. Seen(Scratch)' = Seen(Scratch) /\ ReadsOnly'
    BY <1>1, <2>1, DeviceReads
  <2> QED BY <2>1, <2>2 DEF Seeded, ReadsOnly
<1>5. ASSUME step = "seed", call # NoCall
      PROVE  /\ req'.type = "out" /\ req'.lba = Scratch /\ data' = Magic
             /\ Drained' /\ status' = "ok" => Seeded'
  <2>1. /\ req.type = "out" /\ req.lba = Scratch /\ data = Magic
        /\ Drained /\ status = "ok" => Seeded
    BY <1>5 DEF KernelInv
  <2>2. ASSUME Fetch PROVE data' = data /\ ~Drained'
    BY <1>1, <2>2, FetchInv DEF Fetch, driverVars
  <2>3. ASSUME NEW r \in inflight, Complete(r)
        PROVE  data' = data /\ (status' = "ok" => Seeded')
    <3>1. r.type = "out" /\ r.lba = Scratch
      BY <1>1, <2>1, <2>3, CompleteInv
    <3>2. data' = data
      BY <2>3, <3>1 DEF Complete, Transfer
    <3>3. ASSUME Transfer(r) PROVE Seeded'
      <4>1. CASE vblk.flush_ok
        <5>1. cache' = [cache EXCEPT ![Scratch] = Magic]
          BY <2>1, <3>1, <3>3, <4>1 DEF Transfer
        <5>2. cache'[Scratch] = Magic /\ Magic # NoSector
          BY <1>1, <5>1, DriverAssumption, QueueAssumption DEF TypeOK
        <5> QED BY <5>2 DEF Seeded, Seen
      <4>2. CASE ~vblk.flush_ok
        <5>1. disk' = [disk EXCEPT ![Scratch] = Magic] /\ cache' = cache
          BY <2>1, <3>1, <3>3, <4>2 DEF Transfer
        <5>2. cache[Scratch] = NoSector
          BY <4>2, DriverAssumption DEF KernelInv, WriteThrough
        <5>3. disk'[Scratch] = Magic
          BY <1>1, <5>1, DriverAssumption DEF TypeOK
        <5> QED BY <5>1, <5>2, <5>3 DEF Seeded, Seen
      <4> QED BY <4>1, <4>2
    <3> QED BY <2>3, <3>2, <3>3 DEF Complete
  <2>4. ASSUME NEW l \in Lba, Destage(l)
        PROVE  /\ data' = data /\ status' = status
               /\ (Drained' = Drained) /\ (Seeded' = Seeded)
    <3>1. UNCHANGED <<data, status, availIdx, usedIdx, fetched, inflight>>
      BY <2>4 DEF Destage, driverVars
    <3> QED BY <1>1, <2>4, <3>1, DestageSeen DEF Drained, Seeded
  <2> QED
    BY <1>2, <2>1, <2>2, <2>3, <2>4 DEF Device
<1> QED
  BY <1>1, <1>2, <1>3, <1>4, <1>5 DEF KernelInv

\* The device at work while the driver runs.
LEMMA DeviceForDriver ==
    ASSUME UserInv, step \in UserSteps, fresh \in BOOLEAN, Device,
           fresh' = (fresh \/ data' # data),
           UNCHANGED <<step, drv, timedOut, report>>
    PROVE  UserInv'
<1>1. TypeOK /\ ReadsOnly /\ Seeded /\ call = NoCall
  BY DEF UserInv
<1>2. /\ ReadsOnly' /\ Seen(Scratch)' = Seen(Scratch)
      /\ UNCHANGED <<req, availIdx, vblk, call, answer>>
      /\ data' = data \/ data' = Magic
      /\ status' = "ok" => (status = "ok" /\ data' = data) \/ data' = Magic
  BY <1>1, DeviceReads DEF Seeded
<1>3. TypeOK' /\ Seeded' /\ call' = NoCall
  BY <1>1, <1>2, DeviceTypes DEF Seeded
<1>4. ~fresh' => data' = Zero
  BY DEF UserInv
<1>5. QueueInv => QueueInv'
  BY StepInv DEF Next
<1>6. AtMostTwo => AtMostTwo'
  <2>1. ASSUME NEW l \in Lba, Destage(l), AtMostTwo PROVE AtMostTwo'
    <3>1. UNCHANGED <<availIdx, usedIdx, fetched, inflight>>
      BY <2>1 DEF Destage, driverVars
    <3> QED BY <2>1, <3>1 DEF AtMostTwo, Drained, InRing, TwoInRing, OneOut,
                              OneOutOneInRing, TwoOut, Succ
  <2> QED BY <1>1, <2>1, FetchRing, CompleteRing DEF Device
<1>7. Drained => Drained' /\ status' = status
  BY <1>1, DeviceDrained DEF driverVars
<1>8. step' = step /\ drv' = drv /\ timedOut' = timedOut /\ report' = report
  OBVIOUS
<1>9. step \in {"publish", "poll", "read"} /\ status' = "ok" => data' = Magic
  BY <1>2 DEF UserInv
<1>10. step = "report" => /\ report = Magic => fresh'
                          /\ ~timedOut /\ status' = "ok" => report = Magic
  BY <1>7 DEF UserInv
<1>11. /\ step \in {"fill", "publish"} => QueueInv'
       /\ step \in {"poll", "read", "report"} => AtMostTwo' /\ drv.target = availIdx'
       /\ step \in {"fill", "publish", "poll"} => ~timedOut
       /\ step \in {"read", "report"} /\ ~timedOut => Drained'
  BY <1>2, <1>5, <1>6, <1>7 DEF UserInv
<1> QED
  BY SMT, <1>2, <1>3, <1>4, <1>8, <1>9, <1>10, <1>11 DEF UserInv

\* The device at work after the driver has ended.
LEMMA DeviceAfterwards ==
    ASSUME OverInv, fresh \in BOOLEAN, Device,
           fresh' = (fresh \/ data' # data), report' = report
    PROVE  OverInv'
<1>1. TypeOK /\ call = NoCall /\ TypeOK'
  BY DeviceTypes DEF OverInv
<1>2. call' = NoCall
  BY <1>1 DEF Device, Fetch, Complete, Destage, driverVars
<1>3. QueueInv => QueueInv'
  BY StepInv DEF Next
<1>4. ReadsOnly => ReadsOnly' /\ Seen(Scratch)' = Seen(Scratch)
  BY <1>1, DeviceReads
<1> QED
  BY <1>1, <1>2, <1>3, <1>4 DEF OverInv, Seeded

\* The device may work at any time.
LEMMA DeviceKeeps ==
    ASSUME BootInv, Device, fresh' = (fresh \/ data' # data),
           UNCHANGED <<step, drv, timedOut, report>>
    PROVE  BootInv'
<1>1. fresh \in BOOLEAN /\ fresh' \in BOOLEAN
  BY DEF BootInv
<1>2. CASE step \in {"boot", "seed", "submit"}
  BY <1>1, <1>2, DeviceForKernel DEF BootInv, UserSteps
<1>3. CASE step \in UserSteps
  BY <1>1, <1>3, DeviceForDriver DEF BootInv, UserSteps
<1>4. CASE step = "over"
  BY <1>1, <1>4, DeviceAfterwards DEF BootInv, UserSteps
<1> QED
  BY <1>2, <1>3, <1>4 DEF BootInv

\* The driver rewrites the request that is there and makes its status bad.
LEMMA DrvFillKeeps == BootInv /\ DrvFill => BootInv'
<1> SUFFICES ASSUME BootInv, DrvFill PROVE BootInv'
  OBVIOUS
<1>1. /\ step = "fill" /\ step' = "publish" /\ status' = "unset"
      /\ req' = [type |-> "in", lba |-> Scratch]
      /\ UNCHANGED <<data, availIdx, vblk, call, answer, usedIdx, fetched,
                     inflight, disk, cache, drv, timedOut, report, fresh>>
  BY DEF DrvFill, deviceVars, bootVars
<1>2. UserInv /\ QueueInv
  BY <1>1 DEF BootInv, UserInv, UserSteps
<1>3. req'.type = req.type /\ req'.lba = req.lba /\ req' \in Request
  BY <1>1, <1>2, DriverAssumption DEF UserInv, ReadsOnly, ScratchRead, Request
<1>4. TypeOK'
  BY <1>1, <1>2, <1>3 DEF UserInv, TypeOK
<1>5. (Drained \/ InRing \/ WithDevice)' /\ (vblk'.present => Drained')
  BY <1>1, <1>2, <1>3 DEF UserInv, QueueInv, Drained, InRing, WithDevice, Succ
<1>6. QueueInv'
  BY <1>1, <1>2, <1>4, <1>5 DEF UserInv, QueueInv
<1>7. Seeded' /\ ReadsOnly'
  BY <1>1, <1>2 DEF UserInv, Seeded, Seen, ReadsOnly, ScratchRead
<1>8. UserInv'
  BY <1>1, <1>2, <1>4, <1>6, <1>7 DEF UserInv
<1> QED
  BY <1>1, <1>8 DEF BootInv, UserSteps

\* It publishes one more request, whether or not the kernel's is still there.
LEMMA DrvPublishKeeps == BootInv /\ DrvPublish => BootInv'
<1> SUFFICES ASSUME BootInv, DrvPublish PROVE BootInv'
  OBVIOUS
<1>1. /\ step = "publish" /\ step' = "poll" /\ availIdx' = Succ(availIdx)
      /\ drv' = [drv EXCEPT !.target = Succ(availIdx)]
      /\ UNCHANGED <<req, data, status, vblk, call, answer, usedIdx, fetched,
                     inflight, disk, cache, timedOut, report, fresh>>
  BY DEF DrvPublish, deviceVars
<1>2. UserInv /\ QueueInv /\ TypeOK
  BY <1>1 DEF BootInv, UserInv, UserSteps
<1>3. availIdx \in Idx /\ usedIdx \in Idx /\ Succ(availIdx) \in Idx
  BY <1>2, SuccNext DEF TypeOK
<1>4. drv' \in [target : Idx, left : Int] /\ drv'.target = availIdx'
  BY <1>1, <1>3 DEF BootInv
<1>5. TypeOK'
  BY <1>1, <1>2, <1>3 DEF TypeOK
<1>6. AtMostTwo'
  <2>1. CASE Drained
    <3>1. InRing'
      BY <1>1, <2>1 DEF Drained, InRing, Succ
    <3> QED BY <3>1 DEF AtMostTwo
  <2>2. CASE InRing
    <3>1. TwoInRing'
      BY <1>1, <2>2 DEF InRing, TwoInRing, Succ
    <3> QED BY <3>1 DEF AtMostTwo
  <2>3. CASE WithDevice
    <3> DEFINE r == [idx |-> usedIdx, type |-> req.type, lba |-> req.lba]
    <3>1. inflight' = {r} /\ r.idx = usedIdx
      BY <1>1, <2>3 DEF WithDevice
    <3>2. fetched' = Succ(usedIdx)' /\ availIdx' = Succ(fetched)'
      BY <1>1, <2>3 DEF WithDevice, Succ
    <3>3. usedIdx # fetched'
      BY <1>1, <1>3, <2>3, SuccNext DEF WithDevice
    <3>4. OneOutOneInRing'
      BY <3>1, <3>2, <3>3 DEF OneOutOneInRing
    <3> QED BY <3>4 DEF AtMostTwo
  <2> QED BY <1>2, <2>1, <2>2, <2>3 DEF QueueInv
<1>7. Seeded' /\ ReadsOnly'
  BY <1>1, <1>2 DEF UserInv, Seeded, Seen, ReadsOnly, ScratchRead
<1>8. UserInv'
  BY <1>1, <1>2, <1>4, <1>5, <1>6, <1>7 DEF UserInv
<1> QED
  BY <1>1, <1>4, <1>8 DEF BootInv, UserSteps

\* A step of the driver that leaves the queue alone.
LEMMA QueueAlone ==
    ASSUME UserInv, UNCHANGED vars
    PROVE  /\ TypeOK' /\ call' = NoCall /\ Seeded' /\ ReadsOnly'
           /\ (AtMostTwo => AtMostTwo') /\ (Drained' = Drained)
           /\ UNCHANGED <<data, status, availIdx, usedIdx>>
<1>1. UNCHANGED <<req, data, status, availIdx, vblk, call, answer, usedIdx,
                  fetched, inflight, disk, cache>>
  BY DEF vars, driverVars, deviceVars
<1>2. TypeOK' /\ call' = NoCall
  BY <1>1 DEF UserInv, TypeOK
<1>3. Seeded' /\ ReadsOnly' /\ (Drained' = Drained)
  BY <1>1 DEF UserInv, Seeded, Seen, ReadsOnly, ScratchRead, Drained
<1>4. AtMostTwo => AtMostTwo'
  BY <1>1 DEF AtMostTwo, Drained, InRing, TwoInRing, OneOut, OneOutOneInRing,
              TwoOut, Succ
<1> QED
  BY <1>1, <1>2, <1>3, <1>4

\* The bounded poll ends with an empty queue or with a timeout.
LEMMA DrvPollKeeps == BootInv /\ DrvPoll => BootInv'
<1> SUFFICES ASSUME BootInv, DrvPoll PROVE BootInv'
  OBVIOUS
<1>1. step = "poll" /\ UserInv /\ UNCHANGED <<vars, report, fresh>>
  BY DEF DrvPoll, BootInv, UserSteps
<1>2. /\ TypeOK' /\ call' = NoCall /\ Seeded' /\ ReadsOnly'
      /\ (AtMostTwo => AtMostTwo') /\ (Drained' = Drained)
      /\ UNCHANGED <<data, status, availIdx, usedIdx>>
  BY <1>1, QueueAlone
<1>3. TypeOK /\ AtMostTwo /\ AtMostTwo' /\ drv.target = availIdx /\ ~timedOut
      /\ (~fresh => data = Zero) /\ (status = "ok" => data = Magic)
  BY <1>1, <1>2 DEF UserInv
<1>4. CASE usedIdx = drv.target
  <2>1. step' = "read" /\ drv' = drv /\ timedOut' = timedOut
    BY <1>4 DEF DrvPoll
  <2>2. Drained'
    BY <1>2, <1>3, <1>4, CaughtUp
  <2>3. UserInv'
    BY <1>1, <1>2, <1>3, <2>1, <2>2 DEF UserInv
  <2> QED BY <1>1, <2>1, <2>3 DEF BootInv, UserSteps
<1>5. CASE usedIdx # drv.target
  <2>1. /\ drv' = [drv EXCEPT !.left = @ - 1]
        /\ timedOut' = (drv.left = 1)
        /\ step' = IF drv.left = 1 THEN "read" ELSE "poll"
    BY <1>5 DEF DrvPoll
  <2>2. drv \in [target : Idx, left : Int]
    BY DEF BootInv
  <2>3. drv' \in [target : Idx, left : Int] /\ drv'.target = drv.target
    BY SMT, <2>1, <2>2
  <2>4. step' \in {"read", "poll"} /\ (step' = "poll" <=> ~timedOut')
        /\ timedOut' \in BOOLEAN
    BY <2>1
  <2>5. UserInv'
    BY <1>1, <1>2, <1>3, <2>3, <2>4 DEF UserInv
  <2> QED BY <1>1, <2>3, <2>4, <2>5 DEF BootInv, UserSteps
<1> QED
  BY <1>4, <1>5

\* It takes what the buffer holds.
LEMMA DrvReadKeeps == BootInv /\ DrvRead => BootInv'
<1> SUFFICES ASSUME BootInv, DrvRead PROVE BootInv'
  OBVIOUS
<1>1. /\ step = "read" /\ UserInv /\ UNCHANGED <<vars, drv, timedOut, fresh>>
      /\ step' = "report" /\ report' = data
  BY DEF DrvRead, BootInv, UserSteps
<1>2. /\ TypeOK' /\ call' = NoCall /\ Seeded' /\ ReadsOnly'
      /\ (AtMostTwo => AtMostTwo') /\ (Drained' = Drained)
      /\ UNCHANGED <<data, status, availIdx, usedIdx>>
  BY <1>1, QueueAlone
<1>3. report' = Magic => fresh
  BY <1>1, DriverAssumption DEF UserInv
<1>4. status = "ok" => report' = Magic
  BY <1>1 DEF UserInv
<1>5. UserInv'
  BY <1>1, <1>2, <1>3, <1>4 DEF UserInv
<1> QED
  BY <1>1, <1>5 DEF BootInv, UserSteps

\* The report is the driver's last act.
LEMMA ReportKeeps == BootInv /\ devqueue_report => BootInv'
<1> SUFFICES ASSUME BootInv, devqueue_report PROVE BootInv'
  OBVIOUS
<1>1. step = "report" /\ UserInv /\ UNCHANGED <<vars, bootVars>> /\ step' = "over"
  BY DEF devqueue_report, BootInv, UserSteps
<1>2. TypeOK' /\ call' = NoCall /\ Seeded' /\ ReadsOnly'
  BY <1>1, QueueAlone
<1>3. report' = Magic => fresh'
  BY <1>1 DEF UserInv, bootVars
<1>4. OverInv'
  BY <1>2, <1>3 DEF OverInv
<1> QED
  BY <1>1, <1>4 DEF BootInv, UserSteps, bootVars

\* A step that changes nothing.
LEMMA BootStutter == BootInv /\ UNCHANGED allVars => BootInv'
<1> SUFFICES ASSUME BootInv, UNCHANGED allVars PROVE BootInv'
  OBVIOUS
<1>1. UNCHANGED <<req, data, status, availIdx, vblk, call, answer, usedIdx,
                  fetched, inflight, disk, cache, step, drv, timedOut, report,
                  fresh>>
  BY DEF allVars, vars, driverVars, deviceVars, bootVars
<1>2. QueueInv => QueueInv'
  BY StepInv DEF allVars
<1>3. TypeOK => TypeOK'
  BY <1>1 DEF TypeOK
<1>4. /\ (Drained' = Drained) /\ (Seeded' = Seeded) /\ (ReadsOnly' = ReadsOnly)
      /\ (WriteThrough' = WriteThrough)
      /\ (ScratchRead(req)' = ScratchRead(req))
  BY <1>1 DEF Drained, Seeded, Seen, ReadsOnly, ScratchRead, WriteThrough
<1>5. AtMostTwo => AtMostTwo'
  BY <1>1 DEF AtMostTwo, Drained, InRing, TwoInRing, OneOut, OneOutOneInRing,
              TwoOut, Succ
<1>6. KernelInv => KernelInv'
  BY <1>1, <1>2, <1>4 DEF KernelInv
<1>7. UserInv => UserInv'
  BY <1>1, <1>2, <1>3, <1>4, <1>5 DEF UserInv
<1>8. OverInv => OverInv'
  BY <1>1, <1>2, <1>3, <1>4 DEF OverInv
<1> QED
  BY <1>1, <1>6, <1>7, <1>8 DEF BootInv

\* BootInv holds from power-on to the driver's end and after.
LEMMA BootInvariance == QueueSpec => []BootInv
<1>1. QueueInit => BootInv
  <2> SUFFICES ASSUME QueueInit PROVE BootInv
    OBVIOUS
  <2>1. QueueInv /\ WriteThrough
    BY InitInv DEF QueueInit, Init, WriteThrough
  <2>2. KernelInv
    BY <2>1 DEF QueueInit, KernelInv
  <2>3. drv \in [target : Idx, left : Int]
    BY SMT, QueueAssumption, DriverAssumption DEF QueueInit, Idx
  <2> QED
    BY <2>2, <2>3 DEF QueueInit, BootInv, UserSteps
<1>2. BootInv /\ [QueueNext]_allVars => BootInv'
  BY BootCallKeeps, SeedKeeps, SetupKeeps, SubmitKeeps, HandOverKeeps, PollKeeps,
     DrvFillKeeps, DrvPublishKeeps, DrvPollKeeps, DrvReadKeeps, ReportKeeps,
     DeviceKeeps, BootStutter
     DEF QueueNext, QueueBoot, Driver
<1> QED
  BY <1>1, <1>2, PTL DEF QueueSpec

\* Over the whole boot, hand-over and ring-3 driver included, the shared
\* memory, the rings and the device keep their types.
THEOREM BootTypeCorrect == QueueSpec => []TypeOK
<1>1. BootInv => TypeOK
  BY DEF BootInv, KernelInv, QueueInv, UserInv, OverInv
<1> QED
  BY <1>1, BootInvariance, PTL

\* The precise target of submit, over the whole boot: the driver's requests
\* never meet a call of the kernel.
THEOREM BootPreciseTarget == QueueSpec => []CompletionIsOwn
<1>1. BootInv => CompletionIsOwn
  <2> SUFFICES ASSUME BootInv, call # NoCall, usedIdx = call.target
               PROVE  Drained
    BY DEF CompletionIsOwn
  <2>1. QueueInv
    BY DEF BootInv, KernelInv, UserInv, OverInv
  <2>2. usedIdx \in Idx /\ usedIdx = availIdx
    BY <2>1 DEF QueueInv, TypeOK
  <2>3. availIdx # Succ(usedIdx)
    BY <2>2, SuccNext
  <2> QED BY <2>1, <2>3 DEF QueueInv, InRing, WithDevice
<1> QED
  BY <1>1, BootInvariance, PTL

\* driver_main polls for an exact index: when used.idx reaches it, the queue is
\* empty, also when a request the kernel gave up on was completed in between.
THEOREM DriverTarget == QueueSpec => []DriverCompletionIsOwn
<1>1. BootInv => DriverCompletionIsOwn
  BY CaughtUp DEF BootInv, UserSteps, UserInv, DriverCompletionIsOwn
<1> QED
  BY <1>1, BootInvariance, PTL

\* The kernel prints match=true only when the device has filled the buffer
\* after the sentinel, from a sector that holds the magic.
THEOREM MatchIsHonest == QueueSpec => []HonestMatch
<1>1. BootInv => HonestMatch
  BY DEF BootInv, OverInv, HonestMatch, Matched, Seeded
<1> QED
  BY <1>1, BootInvariance, PTL

\* A driver whose request completes in time and well reports the magic.
THEOREM DriverSeesSeed == QueueSpec => []DriverReadsSeed
<1>1. BootInv => DriverReadsSeed
  BY DEF BootInv, UserSteps, UserInv, DriverReadsSeed, Matched
<1> QED
  BY <1>1, BootInvariance, PTL

-----------------------------------------------------------------------------
(* BlockDevice, over the whole boot.                                       *)

\* While nothing but reads is outstanding and no call is in progress, the
\* rings are invisible in BlockDevice.
LEMMA RingsInvisible ==
    ASSUME call = NoCall, call' = NoCall, req.type = "in", req'.type = "in",
           UNCHANGED <<vblk, answer, disk, cache>>
    PROVE  UNCHANGED Block!vars
<1>1. AbstractCall' = AbstractCall
  BY DEF AbstractCall
<1>2. Late = {} /\ Late' = {}
  BY DEF Late
<1> QED
  BY <1>1, <1>2 DEF Block!vars

\* Completing reads and writing the cache back are steps of BlockDevice.
LEMMA ReadsStep ==
    ASSUME TypeOK, ReadsOnly, call = NoCall, Device
    PROVE  [Block!Next]_(Block!vars)
<1>1. /\ ReadsOnly' /\ call' = NoCall /\ req' = req
      /\ vblk' = vblk /\ answer' = answer
  BY DeviceReads
<1>2. req.type = "in" /\ req'.type = "in"
  BY <1>1 DEF ReadsOnly, ScratchRead
<1>3. CASE disk' = disk /\ cache' = cache
  BY <1>1, <1>2, <1>3, RingsInvisible
<1>4. ASSUME NEW l \in Lba, Destage(l)
      PROVE  [Block!Next]_(Block!vars)
  <2>1. AbstractCall' = AbstractCall
    BY <1>1 DEF AbstractCall
  <2>2. Late' = Late
    BY <1>2 DEF Late
  <2>3. Block!Destage(l)
    BY <1>1, <1>4, <2>1, <2>2 DEF Block!Destage, Destage
  <2> QED BY <2>3 DEF Block!Next
<1>5. ASSUME NEW r \in inflight, Complete(r)
      PROVE  disk' = disk /\ cache' = cache
  BY <1>5 DEF ReadsOnly, ScratchRead, Complete, Transfer
<1>6. Fetch => disk' = disk /\ cache' = cache
  BY DEF Fetch
<1> QED
  BY <1>3, <1>4, <1>5, <1>6 DEF Device

\* Every step of the boot is a step of BlockDevice, or none.
LEMMA BootBlockStep ==
    ASSUME BootInv, [QueueNext]_allVars
    PROVE  [Block!Next]_(Block!vars)
<1>1. CASE BootCall
  BY <1>1, BlockStep DEF BootCall, BootInv, KernelInv, Next, BootLba
<1>2. CASE Seed
  BY <1>2, BlockStep, DriverAssumption DEF Seed, BootInv, KernelInv, Next
<1>3. CASE devqueue_submit
  BY <1>3, BlockStep, DriverAssumption DEF devqueue_submit, BootInv, KernelInv, Next
<1>4. CASE UNCHANGED vars
  BY <1>4 DEF vars, driverVars, deviceVars, Block!vars, AbstractCall, Late,
              Payload, CallState
<1>5. CASE HandOver
  <2>1. step = "submit" /\ KernelInv /\ call = NoCall
    BY <1>5 DEF HandOver, BootInv
  <2>2. UNCHANGED <<req, vblk, call, answer, disk, cache>> /\ req.type = "in"
    BY <1>5, <2>1 DEF HandOver, KernelInv, deviceVars, ScratchRead
  <2> QED BY <2>1, <2>2, RingsInvisible
<1>6. CASE Poll
  <2>1. QueueInv
    BY <1>6 DEF BootInv, KernelInv, UserInv, OverInv, Poll, PollDone, PollAgain,
                PollTimeout
  <2> QED BY <1>6, <2>1, PollStep
<1>7. CASE DrvFill \/ DrvPublish
  <2>1. UserInv
    BY <1>7 DEF DrvFill, DrvPublish, BootInv, UserSteps
  <2>2. /\ call = NoCall /\ UNCHANGED <<call, vblk, answer, disk, cache>>
        /\ req.type = "in" /\ req'.type = "in"
    BY SMT, <1>7, <2>1
    DEF DrvFill, DrvPublish, UserInv, ReadsOnly, ScratchRead,
                      deviceVars
  <2> QED BY <2>2, RingsInvisible
<1>8. CASE Device
  <2>1. QueueInv \/ (TypeOK /\ ReadsOnly /\ call = NoCall)
    BY DEF BootInv, KernelInv, UserInv, OverInv
  <2> QED BY <1>8, <2>1, DeviceStep, ReadsStep
<1>9. DrvPoll \/ DrvRead \/ devqueue_report \/ SetupIncomplete => UNCHANGED vars
  BY DEF DrvPoll, DrvRead, devqueue_report, SetupIncomplete
<1> QED
  BY <1>1, <1>2, <1>3, <1>4, <1>5, <1>6, <1>7, <1>8, <1>9
     DEF QueueNext, QueueBoot, Driver, allVars

\* The queue implements the block layer over the whole boot: handing it to a
\* ring-3 driver, with a late request of the kernel possibly in it, shows
\* nothing at the block layer that its callers were not promised.
THEOREM BootIsBlockDevice == QueueSpec => ImplementsBlockDevice
<1>1. QueueInit => Block!Init
  <2> SUFFICES ASSUME QueueInit PROVE Block!Init
    OBVIOUS
  <2>1. Init
    BY DEF QueueInit
  <2>2. vblk.present \in BOOLEAN /\ vblk.flush_ok \in BOOLEAN
    BY <2>1, InitInv DEF QueueInv, TypeOK
  <2>3. AbstractCall = Block!NoCall /\ Late = {}
    BY <2>1, NoAbstractCall DEF Init, Late
  <2> QED
    BY <2>1, <2>2, <2>3 DEF Init, Block!Init, Failed, Block!Failed
<1>2. BootInv /\ [QueueNext]_allVars => [Block!Next]_(Block!vars)
  BY BootBlockStep
<1> QED
  BY <1>1, <1>2, BootInvariance, PTL
     DEF QueueSpec, ImplementsBlockDevice, Block!Spec

=============================================================================
