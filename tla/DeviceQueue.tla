---------------------------- MODULE DeviceQueue -----------------------------
(***************************************************************************)
(* Queue 0 over a whole boot: the kernel's calls of the block driver       *)
(* (smoke test, object store), the hand-over of the queue to the ring-3    *)
(* driver domain (main.rs: seed, DQ_SUBMIT, sentinel, DQ_MAP), and the     *)
(* ring-3 driver (user.rs), which drives the rings itself and reports what *)
(* it read with DQ_REPORT.                                                 *)
(***************************************************************************)
EXTENDS VirtQueue

CONSTANTS
    Scratch,        \* DQ_SCRATCH_LBA
    Magic,          \* DQ_MAGIC, the seeded sector
    DrvPollLimit    \* polls of the ring-3 driver

ASSUME DriverAssumption ==
    /\ Scratch \in Lba
    /\ Magic \in Sector \ {Zero}
    /\ DrvPollLimit \in Nat \ {0}

VARIABLES
    step,       \* where boot, and then the ring-3 driver, is
    drv,        \* the driver's registers: poll target and polls left
    timedOut,   \* the driver's poll ran out
    report,     \* the word the driver read back
    fresh       \* history: the device has filled the buffer since the sentinel

bootVars == <<drv, timedOut, report, fresh>>

allVars == <<vars, step, bootVars>>

BootLba == Lba \ {Scratch}

QueueInit ==
    /\ Init
    /\ step = "boot"
    /\ drv = [target |-> 0, left |-> DrvPollLimit]
    /\ timedOut = FALSE
    /\ report = Zero
    /\ fresh = FALSE

-----------------------------------------------------------------------------
(* Boot, with interrupts off.                                              *)

\* The smoke test and the object store; neither touches the scratch sector.
BootCall ==
    /\ step = "boot"
    /\ \/ \E l \in BootLba : read_sector(l)
       \/ \E l \in BootLba, s \in Sector \ {Magic} : write_sector(l, s)
       \/ flush
    /\ UNCHANGED <<step, bootVars>>

Seed ==
    /\ step = "boot"
    /\ write_sector(Scratch, Magic)
    /\ step' = "seed"
    /\ UNCHANGED bootVars

\* Without a seeded sector and a present device there is no hand-over.
SetupIncomplete ==
    /\ step = "seed" /\ call = NoCall
    /\ ~(answer.ok /\ vblk.present)
    /\ step' = "over"
    /\ UNCHANGED <<vars, bootVars>>

MutantSubmit ==                 \* the answer of the seeding write is ignored
    /\ step = "seed" /\ call = NoCall
    /\ vblk.present
    /\ read_sector(Scratch)
    /\ step' = "submit"
    /\ UNCHANGED bootVars

\* DQ_SUBMIT through the capability without MAP: a read by the kernel.
devqueue_submit ==
    /\ step = "seed" /\ call = NoCall
    /\ answer.ok /\ vblk.present
    /\ read_sector(Scratch)
    /\ step' = "submit"
    /\ UNCHANGED bootVars

MutantSentinel == data          \* the buffer still holds what DQ_SUBMIT read

Sentinel == Zero

\* Whatever DQ_SUBMIT answered, the buffer is cleared, the pages are mapped
\* and the driver is admitted; when that fails no driver runs.
HandOver ==
    /\ step = "submit" /\ call = NoCall
    /\ data' = Sentinel
    /\ fresh' = FALSE
    /\ step' \in {"fill", "over"}
    /\ UNCHANGED <<req, status, availIdx, vblk, call, answer, deviceVars,
                   drv, timedOut, report>>

-----------------------------------------------------------------------------
(* The ring-3 driver, driver_main.                                         *)

DrvFill ==
    /\ step = "fill"
    /\ req' = [type |-> "in", lba |-> Scratch]
    /\ status' = "unset"
    /\ step' = "publish"
    /\ UNCHANGED <<data, availIdx, vblk, call, answer, deviceVars, bootVars>>

MutantDrvPublish ==             \* waits for one completion, not for its own
    /\ step = "publish"
    /\ availIdx' = Succ(availIdx)
    /\ drv' = [drv EXCEPT !.target = Succ(usedIdx)]
    /\ step' = "poll"
    /\ UNCHANGED <<req, data, status, vblk, call, answer, deviceVars,
                   timedOut, report, fresh>>

DrvPublish ==
    /\ step = "publish"
    /\ availIdx' = Succ(availIdx)
    /\ drv' = [drv EXCEPT !.target = Succ(availIdx)]
    /\ step' = "poll"
    /\ UNCHANGED <<req, data, status, vblk, call, answer, deviceVars,
                   timedOut, report, fresh>>

MutantDrvPoll ==                \* polls without a bound
    /\ step = "poll"
    /\ usedIdx = drv.target
    /\ step' = "read"
    /\ UNCHANGED <<vars, drv, timedOut, report, fresh>>

DrvPoll ==
    /\ step = "poll"
    /\ \/ /\ usedIdx = drv.target
          /\ step' = "read"
          /\ UNCHANGED <<drv, timedOut>>
       \/ /\ usedIdx # drv.target
          /\ drv' = [drv EXCEPT !.left = @ - 1]
          /\ timedOut' = (drv.left = 1)
          /\ step' = IF drv.left = 1 THEN "read" ELSE "poll"
    /\ UNCHANGED <<vars, report, fresh>>

\* On a timeout as well.
DrvRead ==
    /\ step = "read"
    /\ report' = data
    /\ step' = "report"
    /\ UNCHANGED <<vars, drv, timedOut, fresh>>

\* DQ_REPORT: the kernel compares the word with the magic; then ud2 ends the
\* driver and its domain is reaped.
Matched == report = Magic

devqueue_report ==
    /\ step = "report"
    /\ step' = "over"
    /\ UNCHANGED <<vars, bootVars>>

Driver == DrvFill \/ DrvPublish \/ DrvPoll \/ DrvRead \/ devqueue_report

-----------------------------------------------------------------------------
QueueBoot == Seed \/ SetupIncomplete \/ devqueue_submit \/ HandOver

QueueNext ==
    \/ BootCall
    \/ QueueBoot
    \/ Poll /\ UNCHANGED <<step, bootVars>>
    \/ Driver
    \/ /\ Device
       /\ fresh' = (fresh \/ data' # data)
       /\ UNCHANGED <<step, drv, timedOut, report>>

\* The poll is a loop of the boot thread, which runs on.  The driver has the
\* shortest period of all tasks, so that it has the earliest deadline again and
\* again, whatever the others do.  Nothing is assumed of the device.
QueueSpec ==
    /\ QueueInit /\ [][QueueNext]_allVars
    /\ WF_allVars(Poll /\ UNCHANGED <<step, bootVars>>)
    /\ WF_allVars(Driver)

-----------------------------------------------------------------------------
\* The ring-3 driver polls for an exact target too: when it is reached,
\* nothing of the queue is left, even if the kernel's DQ_SUBMIT had timed out
\* and its read was still with the device at the hand-over.
DriverCompletionIsOwn ==
    step = "poll" /\ usedIdx = drv.target => Drained

\* A report that matches is honest: the magic is on the disk, and the device
\* has put it into the buffer after the sentinel, it is not what DQ_SUBMIT
\* left there.
HonestMatch ==
    step = "over" /\ Matched => fresh /\ Seen(Scratch) = Magic

\* When the driver's request completes in time and without an error, the
\* report matches: the seeded sector has reached the device and no late
\* request of the kernel disturbs the driver's.
DriverReadsSeed ==
    step = "report" /\ ~timedOut /\ status = "ok" => Matched

\* Once admitted the driver always reports and ends, also when the device
\* never answers: "a mis-mapped doorbell must not spin forever".
DriverReports == [](step = "fill" => <>(step = "over"))

\* user.rs on the bounded poll: "on timeout we still report, so the proof line
\* always prints, just match=false".
TimeoutIsMismatch == step = "report" /\ timedOut => ~Matched

=============================================================================
