----------------------------- MODULE VirtioBlk -----------------------------
(***************************************************************************)
(* The block driver of src/kernel/dev/virtio/virtio_blk.c over the MMIO    *)
(* transport of virtio_transport.c, and the device behind it.  One chain   *)
(* of descriptors, one request header, one sector buffer and one status    *)
(* byte serve every transfer, so a device that is still at work on a       *)
(* transfer the driver gave up writes into the memory of the next one.     *)
(* The device takes and answers requests in steps of its own.  Ring        *)
(* indices wrap at IdxMod (2^16 in the code).                              *)
(***************************************************************************)
EXTENDS Integers

CONSTANTS Sectors,    \* the sectors of the device
          SectorData, \* what a sector can hold; Zeroed is one of them
          Zeroed,     \* what bytes_zero leaves in dma_sector
          IdxMod

ASSUME BlkAssumption == IdxMod \in Nat \ {0}

VARIABLES disk,   \* sector -> data
          blk,    \* the driver: pc, the transfer, used_target, what it answered
          vq,     \* shared memory: avail->idx, used->idx, request, dma_sector, status
          dev     \* the device: running, requests taken, the one at work on

blkVars == <<disk, blk, vq, dev>>

Quiet == [avail |-> 0, used |-> 0, type |-> "in", sector |-> 0,
          dma |-> Zeroed, status |-> 0]
Fresh == [on |-> TRUE, taken |-> 0, work |-> "none", type |-> "in", sector |-> 0]

virtio_block_boots ==
    /\ disk = [s \in Sectors |-> Zeroed]
    /\ blk = [pc |-> "idle", type |-> "in", sector |-> 0, data |-> Zeroed,
              target |-> 0, answer |-> "none", lapse |-> FALSE]
    /\ vq = Quiet
    /\ dev = Fresh

\* The device is reset, whatever it was at work on; one that refuses the
\* features or the queue stays stopped.
virtio_transport_negotiate_no_features(accepted) == [Fresh EXCEPT !.on = accepted]

\* Rings of zeros are handed over.
virtio_transport_setup_queue(q) == [q EXCEPT !.avail = 0, !.used = 0]

\* A driver whose device refuses stays initialized.
virtio_block_init(accepted) ==
    /\ blk.pc = "idle"
    /\ dev' = virtio_transport_negotiate_no_features(accepted)
    /\ vq' = IF accepted THEN virtio_transport_setup_queue(vq) ELSE vq
    /\ blk' = [blk EXCEPT !.answer = "none", !.lapse = ~accepted]
    /\ UNCHANGED disk

\* Mutant: the index waited for is the one the ring already has.
transfer_sector_h_Target(type, sector, data) ==
    /\ blk.pc = "idle"
    /\ vq' = [vq EXCEPT !.type = type, !.sector = sector, !.status = 255,
                        !.dma = IF type = "out" THEN data ELSE Zeroed]
    /\ blk' = [blk EXCEPT !.pc = "filled", !.type = type, !.sector = sector,
                          !.data = data, !.target = vq.used, !.answer = "none"]
    /\ UNCHANGED <<disk, dev>>

\* The memory of the transfer is filled; lapse notes a wait that does not
\* wait, the sum (uint16_t)(used->idx + 1) being 0.
transfer_sector_h(type, sector, data) ==
    /\ blk.pc = "idle"
    /\ vq' = [vq EXCEPT !.type = type, !.sector = sector, !.status = 255,
                        !.dma = IF type = "out" THEN data ELSE Zeroed]
    /\ LET target == (vq.used + 1) % IdxMod
       IN blk' = [blk EXCEPT !.pc = "filled", !.type = type, !.sector = sector,
                             !.data = data, !.target = target, !.answer = "none",
                             !.lapse = @ \/ target = 0]
    /\ UNCHANGED <<disk, dev>>

virtio_transport_notify ==
    /\ blk.pc = "filled"
    /\ vq' = [vq EXCEPT !.avail = (@ + 1) % IdxMod]
    /\ blk' = [blk EXCEPT !.pc = "wait"]
    /\ UNCHANGED <<disk, dev>>

Answered(verdict, data) ==
    blk' = [blk EXCEPT !.pc = "idle", !.answer = verdict, !.data = data]

\* *used_idx >= expected ends the wait; then the status byte decides.
virtio_transport_wait_used ==
    /\ blk.pc = "wait"
    /\ vq.used >= blk.target
    /\ IF vq.status # 0 THEN Answered("io", blk.data)
       ELSE Answered("ok", IF blk.type = "in" THEN vq.dma ELSE blk.data)
    /\ UNCHANGED <<disk, vq, dev>>

\* VIRTIO_SPIN_LIMIT looks have not seen the answer.
SpinLimit ==
    /\ blk.pc = "wait"
    /\ vq.used < blk.target
    /\ blk' = [blk EXCEPT !.pc = "idle", !.answer = "io", !.lapse = TRUE]
    /\ UNCHANGED <<disk, vq, dev>>

(* The device.                                                             *)
DeviceTakes ==
    /\ dev.on /\ dev.work = "none" /\ dev.taken # vq.avail
    /\ dev' = [dev EXCEPT !.taken = (@ + 1) % IdxMod, !.work = "taken",
                          !.type = vq.type, !.sector = vq.sector]
    /\ UNCHANGED <<disk, blk, vq>>

DeviceServes(ok) ==
    /\ dev.work = "taken"
    /\ vq' = [vq EXCEPT !.status = IF ok THEN 0 ELSE 1,
                        !.dma = IF ok /\ dev.type = "in" THEN disk[dev.sector] ELSE @]
    /\ disk' = IF ok /\ dev.type = "out" THEN [disk EXCEPT ![dev.sector] = vq.dma] ELSE disk
    /\ dev' = [dev EXCEPT !.work = "served"]
    /\ UNCHANGED blk

DeviceUses ==
    /\ dev.work = "served"
    /\ vq' = [vq EXCEPT !.used = (@ + 1) % IdxMod]
    /\ dev' = [dev EXCEPT !.work = "none", !.type = "in", !.sector = 0]
    /\ UNCHANGED <<disk, blk>>

BlkNext ==
    \/ \E accepted \in BOOLEAN : virtio_block_init(accepted)
    \/ \E type \in {"in", "out"}, sector \in Sectors, data \in SectorData :
          (type = "in" => data = Zeroed) /\ transfer_sector_h(type, sector, data)
    \/ virtio_transport_notify
    \/ virtio_transport_wait_used
    \/ SpinLimit
    \/ DeviceTakes
    \/ \E ok \in BOOLEAN : DeviceServes(ok)
    \/ DeviceUses

BlkSpec == virtio_block_boots /\ [][BlkNext]_blkVars

(* A transfer that virtio_blk.c answers with XAIOS_OK has happened: a read *)
(* returned what is in its sector, a write is in its sector.  This is so   *)
(* from an initialization on to the first wait that ends without the       *)
(* device, by the spin limit or by an index that wraps to 0.               *)
TransfersHappen ==
    blk.answer = "ok" /\ ~blk.lapse => disk[blk.sector] = blk.data
=============================================================================
