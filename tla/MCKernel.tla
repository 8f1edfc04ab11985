------------------------------ MODULE MCKernel ------------------------------
(***************************************************************************)
(* Boot states for model checking Kernel, built with the operations boot   *)
(* itself uses (main.rs).  Domain 1 is the client, 2 the server, 3 the     *)
(* faulter, which the supervisor restarts.                                 *)
(***************************************************************************)
EXTENDS KernelChannel, TLC

CONSTANT b1     \* one bit of a word

MCBits == {b1}

NoCaps == [objects |-> EmptyObjectTable,
           tables  |-> [d \in Domain |-> EmptyCapTable]]

\* Delegate the root capability just made into domain d.
Granted(root, d, mask) == delegate_from_root(root.cs, d, root.cptr, mask).cs

MCTasks == Task

MCBootDomain == [t \in Task |-> (<<0, 3, 2, 1>>)[t + 1]]

NoMaps == [d \in Domain |-> <<>>]

-----------------------------------------------------------------------------
(* The IPC demo: a shared endpoint, a Memory capability to grant, and the  *)
(* faulter with its own.                                                   *)

IpcFaulter == Granted(init_root(NoCaps), 3, {"INVOKE"})

IpcEndpoint == create_endpoint(IpcFaulter)

IpcClient == Granted(IpcEndpoint, 1, {"INVOKE", "GRANT_CAP"})

IpcServer == delegate_from_root(IpcClient, 2, IpcEndpoint.cptr, {"INVOKE"}).cs

IpcMemory == Granted(init_root(IpcServer), 1, {"INVOKE", "DELEGATE"})

IpcBoot == mint_timeslice(IpcMemory).cs

IpcXfers == {1, OutOfRange, CPTR_NONE}

-----------------------------------------------------------------------------
(* Two peers that may both grant, the second of them restartable.  The     *)
(* first can grant a Memory capability and its endpoint capability itself; *)
(* the second's table has one free slot, so a second grant finds it full.  *)

PeerDomain == [t \in Task |-> t]

PeerEndpoint == create_endpoint(NoCaps)

PeerFirst ==
    Granted(PeerEndpoint, 1, {"INVOKE", "GRANT_CAP", "DELEGATE"})

PeerSecond ==
    delegate_from_root(PeerFirst, 2, PeerEndpoint.cptr,
                       {"INVOKE", "GRANT_CAP"}).cs

PeerMemory == init_root(PeerSecond)

\* Memory for domain 1, and copies that leave domain 2 one free slot.
PeerFilled ==
    LET a == Granted(PeerMemory, 1, {"INVOKE", "DELEGATE"})
        b == delegate_from_root(a, 2, PeerMemory.cptr, {"READ", "DELEGATE"}).cs
        c == delegate_from_root(b, 2, PeerMemory.cptr, {"READ"}).cs
    IN  c

PeerBoot == mint_timeslice(PeerFilled).cs

PeerXfers == {0, 1, CPTR_NONE}

-----------------------------------------------------------------------------
(* Mappings and notifications: the driver (domain 1) may map the device    *)
(* queue, the faulter (domain 2) a loaded extent, and both the other's     *)
(* object; a notification joins them.                                      *)

MapQueue == create_device_queue(NoCaps)

MapExtent ==
    mint_extent(delegate_from_root(Granted(MapQueue, 1, {"INVOKE", "MAP"}), 2,
                                   MapQueue.cptr, {"INVOKE", "MAP"}).cs)

MapNotify ==
    create_notification(
        delegate_from_root(Granted(MapExtent, 2, {"INVOKE", "MAP"}), 1,
                           MapExtent.cptr, {"INVOKE", "READ"}).cs)

MapShared ==
    delegate_from_root(Granted(MapNotify, 1, {"INVOKE", "WRITE"}), 2,
                       MapNotify.cptr, {"INVOKE", "READ"}).cs

MapBoot == Granted(init_root(MapShared), 2, {"INVOKE"})

MapExtents == {1}

MapQueues == {0}

=============================================================================
