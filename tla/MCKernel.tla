------------------------------ MODULE MCKernel ------------------------------
(***************************************************************************)
(* The memory, the scheduling, the log and the devices of the kernel for   *)
(* TLC: the page allocator, the heap above it, the scheduler, the log ring *)
(* and the VirtIO drivers.  They share no variable, so each is explored    *)
(* with the others at rest.                                                *)
(***************************************************************************)
EXTENDS PageAllocator, KHeap, Scheduler, KlogRing, VirtioBlk, VirtioNet, TLC

VARIABLE part   \* the part that is explored

kernelVars == <<vars, heapVars, schedVars, logVars, blkVars, nicVars, part>>

KernelInit ==
    /\ Init
    /\ kheap_init
    /\ scheduler_init
    /\ klog_ring_init
    /\ virtio_block_boots
    /\ virtio_net_init_persistent
    /\ part \in {"pages", "heap", "tasks", "log", "disk", "nic"}

(* A step of one part leaves the memory, and the devices and the log, alone *)
MemoryRests == UNCHANGED <<vars, heapVars, schedVars>>
DevicesRest == UNCHANGED <<logVars, blkVars, nicVars>>

KernelNext ==
    /\ \/ part = "pages" /\ Next /\ UNCHANGED <<heapVars, schedVars>> /\ DevicesRest
       \/ part = "heap" /\ HeapNext /\ UNCHANGED <<vars, schedVars>> /\ DevicesRest
       \/ part = "tasks" /\ SchedNext /\ UNCHANGED <<vars, heapVars>> /\ DevicesRest
       \/ part = "log" /\ LogNext /\ UNCHANGED <<blkVars, nicVars>> /\ MemoryRests
       \/ part = "disk" /\ BlkNext /\ UNCHANGED <<logVars, nicVars>> /\ MemoryRests
       \/ part = "nic" /\ RxNext /\ UNCHANGED <<logVars, blkVars>> /\ MemoryRests
    /\ UNCHANGED part

(* The log and the drivers do what their callers see: the ring holds the   *)
(* newest bytes, a transfer that answers OK moved the sector, and the      *)
(* device owns every receive buffer that no frame is being copied from.    *)
DevicesFaithful == RingIsTail /\ TransfersHappen /\ RxBuffersHeld

KernelSpec == KernelInit /\ [][KernelNext]_kernelVars

-----------------------------------------------------------------------------
(* Pages: six frames in words of two bits, one frame reserved, one in a    *)
(* hole of the memory map and one beyond the bitmap, so that the hint can  *)
(* point past the end and words can be empty.  Heap: three pages of four   *)
(* units, with alignments that make the search skip blocks.  Tasks: two    *)
(* CPUs with tables of two slots, two processes and queues of one that     *)
(* fill up, so that registrations race for the last slot and a steal races *)
(* a call on the stolen process.  Log: a ring of four bytes and lines cut  *)
(* to three.  Disk: two sectors, indices that wrap at four.  NIC: three    *)
(* receive buffers.                                                        *)
CONSTANTS c1, c2

MCCPUs == {c1, c2}
MCConventional == {0, 1, 3, 4, 5}
MCReserved == {0}
MCSizes == {1, 2, 4}
MCAligns == {1, 2, 4}
MCPids == {1, 2}
MCUrgent == {2}
MCMessages == {<<"a">>, <<"b">>, <<"a", "b">>, <<"a", "b", "c", "d">>}
Symmetry == Permutations(MCCPUs)
=============================================================================
