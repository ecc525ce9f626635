---------------------------- MODULE KernelProofs ----------------------------
(***************************************************************************)
(* Proofs about the virtio block driver, for every disk and every width of *)
(* the ring indices; about the scheduler's task tables, for every number   *)
(* of slots; and about the ticket spinlock, for every set of CPUs, when no *)
(* secondary comes online after the boot wait has ended.                   *)
(***************************************************************************)
EXTENDS Spinlock, Scheduler, VirtioBlk, TLAPS

USE SMTT(60), ZenonT(30)

(* The block driver.  As long as every wait has ended with the device, the *)
(* driver and the device are at the same transfer: the ring indices differ *)
(* by the one request under way, and the shared memory is that request's.  *)
BlkTypeOK ==
  /\ DOMAIN disk = Sectors
  /\ DOMAIN blk = {"pc", "type", "sector", "data", "target", "answer", "lapse"}
  /\ DOMAIN vq = {"avail", "used", "type", "sector", "dma", "status"}
  /\ DOMAIN dev = {"on", "taken", "work", "type", "sector"}
  /\ blk.pc \in {"idle", "filled", "wait"}
  /\ blk.type \in {"in", "out"}
  /\ blk.pc # "idle" => blk.sector \in Sectors /\ blk.answer = "none"
  /\ {vq.avail, vq.used, dev.taken} \subseteq 0 .. IdxMod - 1

(* The memory of the transfer is as transfer_sector_h filled it.           *)
Request == /\ vq.type = blk.type /\ vq.sector = blk.sector
           /\ blk.type = "out" => vq.dma = blk.data

Moved == disk[blk.sector] = IF blk.type = "in" THEN vq.dma ELSE blk.data

(* Where the device can be while the driver waits.                         *)
Waiting ==
  \/ dev.work = "none" /\ dev.taken = vq.used /\ vq.used + 1 = blk.target /\ Request
  \/ /\ dev.work = "taken" /\ dev.taken = blk.target /\ vq.used + 1 = blk.target /\ Request
     /\ dev.type = blk.type /\ dev.sector = blk.sector
  \/ /\ dev.work = "served" /\ dev.taken = blk.target /\ vq.used + 1 = blk.target
     /\ vq.status = 0 => Moved
  \/ /\ dev.work = "none" /\ dev.taken = blk.target /\ vq.used = blk.target
     /\ vq.status = 0 => Moved

InStep ==
  /\ blk.pc \in {"idle", "filled"} =>
       dev.work = "none" /\ dev.taken = vq.avail /\ vq.used = vq.avail
  /\ blk.pc = "filled" => Request
  /\ blk.pc \in {"filled", "wait"} => blk.target \in 1 .. IdxMod - 1
  /\ blk.pc = "filled" => blk.target = vq.used + 1
  /\ blk.pc = "wait" => vq.avail = blk.target /\ Waiting
  /\ blk.answer = "ok" => disk[blk.sector] = blk.data

BlkInv == BlkTypeOK /\ (~blk.lapse => InStep)

LEMMA BlkInit == virtio_block_boots => BlkInv
  BY BlkAssumption DEF virtio_block_boots, BlkInv, BlkTypeOK, InStep, Quiet, Fresh

LEMMA BlkTypeStep ==
  ASSUME BlkTypeOK, [BlkNext]_blkVars
  PROVE  BlkTypeOK'
<1> USE DEF BlkTypeOK
<1>1. ASSUME NEW accepted \in BOOLEAN, virtio_block_init(accepted) PROVE BlkTypeOK'
  BY <1>1, BlkAssumption DEF virtio_block_init, virtio_transport_negotiate_no_features, virtio_transport_setup_queue, Fresh
<1>2. ASSUME NEW type \in {"in", "out"}, NEW sector \in Sectors, NEW data \in SectorData,
             transfer_sector_h(type, sector, data)
      PROVE  BlkTypeOK'
  BY <1>2 DEF transfer_sector_h
<1>3. CASE virtio_transport_notify
  BY <1>3, BlkAssumption DEF virtio_transport_notify
<1>4. CASE virtio_transport_wait_used
  BY <1>4, ZenonT(60) DEF virtio_transport_wait_used, Answered
<1>5. CASE SpinLimit
  BY <1>5 DEF SpinLimit
<1>6. CASE DeviceTakes
  BY <1>6, BlkAssumption DEF DeviceTakes
<1>7. ASSUME NEW ok \in BOOLEAN, DeviceServes(ok) PROVE BlkTypeOK'
  BY <1>7 DEF DeviceServes
<1>8. CASE DeviceUses
  BY <1>8, BlkAssumption DEF DeviceUses
<1>9. CASE UNCHANGED blkVars
  BY <1>9 DEF blkVars
<1> QED
  BY <1>1, <1>2, <1>3, <1>4, <1>5, <1>6, <1>7, <1>8, <1>9 DEF BlkNext

(* An initialization that the device accepts starts over.                  *)
LEMMA BlkResetStep ==
  ASSUME BlkTypeOK, NEW accepted \in BOOLEAN, virtio_block_init(accepted), ~blk'.lapse
  PROVE  InStep'
<1>1. accepted = TRUE
  BY ZenonT(60) DEF virtio_block_init, BlkTypeOK
<1> QED
  BY <1>1 DEF virtio_block_init, virtio_transport_negotiate_no_features,
              virtio_transport_setup_queue, Fresh, BlkTypeOK, InStep

(* Every other step that ends no wait without the device keeps driver and  *)
(* device at the same transfer.                                            *)
LEMMA InStepStep ==
  ASSUME BlkTypeOK, InStep, ~blk'.lapse,
         \/ \E type \in {"in", "out"}, sector \in Sectors, data \in SectorData :
               transfer_sector_h(type, sector, data)
         \/ virtio_transport_notify \/ virtio_transport_wait_used \/ SpinLimit
         \/ DeviceTakes \/ (\E ok \in BOOLEAN : DeviceServes(ok)) \/ DeviceUses
  PROVE  InStep'
<1> USE DEF BlkTypeOK
<1>1. ASSUME NEW type \in {"in", "out"}, NEW sector \in Sectors, NEW data \in SectorData,
             transfer_sector_h(type, sector, data)
      PROVE  InStep'
  <2>1. (vq.used + 1) % IdxMod # 0
    BY <1>1, Zenon DEF transfer_sector_h
  <2>2. (vq.used + 1) % IdxMod = vq.used + 1 /\ vq.used + 1 \in 1 .. IdxMod - 1
    BY <2>1, BlkAssumption
  <2>3. /\ blk'.pc = "filled" /\ blk'.type = type /\ blk'.sector = sector /\ blk'.data = data
        /\ blk'.target = vq.used + 1 /\ blk'.answer = "none"
    <3>1. PICK lapse : blk' = [blk EXCEPT !.pc = "filled", !.type = type, !.sector = sector,
                                 !.data = data, !.target = (vq.used + 1) % IdxMod,
                                 !.answer = "none", !.lapse = lapse]
      BY <1>1, Zenon DEF transfer_sector_h
    <3> QED
      BY <2>2, <3>1
  <2>4. /\ vq'.type = type /\ vq'.sector = sector /\ (type = "out" => vq'.dma = data)
        /\ vq'.avail = vq.avail /\ vq'.used = vq.used /\ dev' = dev
    BY <1>1, ZenonT(60) DEF transfer_sector_h
  <2>5. blk.pc = "idle"
    BY <1>1, Zenon DEF transfer_sector_h
  <2> QED
    BY <2>2, <2>3, <2>4, <2>5 DEF InStep, Request
<1>2. CASE virtio_transport_notify
  <2>1. (vq.avail + 1) % IdxMod = blk.target
    BY <1>2, BlkAssumption DEF virtio_transport_notify, InStep
  <2> QED
    BY <1>2, <2>1 DEF virtio_transport_notify, InStep, Request, Waiting
<1>3. CASE virtio_transport_wait_used
  <2>1. blk.pc = "wait" /\ vq.used >= blk.target /\ vq' = vq /\ dev' = dev /\ disk' = disk
    BY <1>3 DEF virtio_transport_wait_used
  <2>2. /\ vq.avail = blk.target /\ dev.work = "none" /\ dev.taken = blk.target
        /\ vq.used = blk.target /\ (vq.status = 0 => Moved)
    BY <2>1 DEF InStep, Waiting
  <2>3. /\ blk'.pc = "idle" /\ blk'.sector = blk.sector
        /\ blk'.answer = IF vq.status # 0 THEN "io" ELSE "ok"
        /\ vq.status = 0 => blk'.data = IF blk.type = "in" THEN vq.dma ELSE blk.data
    BY <1>3, ZenonT(60) DEF virtio_transport_wait_used, Answered
  <2> QED
    BY <2>1, <2>2, <2>3 DEF InStep, Moved
<1>4. CASE SpinLimit
  BY <1>4 DEF SpinLimit
<1>5. CASE DeviceTakes
  <2>1. blk.pc = "wait" /\ dev.taken = vq.used
    BY <1>5 DEF DeviceTakes, InStep, Waiting
  <2>2. (dev.taken + 1) % IdxMod = blk.target
    BY <1>5, <2>1, BlkAssumption DEF DeviceTakes, InStep, Waiting
  <2> QED
    BY <1>5, <2>1, <2>2 DEF DeviceTakes, InStep, Waiting, Request
<1>6. ASSUME NEW ok \in BOOLEAN, DeviceServes(ok) PROVE InStep'
  <2>1. dev.work = "taken" /\ blk' = blk
    BY <1>6, Zenon DEF DeviceServes
  <2>2. /\ blk.pc = "wait" /\ dev.taken = blk.target /\ vq.used + 1 = blk.target /\ Request
        /\ dev.type = blk.type /\ dev.sector = blk.sector /\ vq.avail = blk.target
    BY <2>1 DEF InStep, Waiting
  <2>3. /\ dev'.work = "served" /\ dev'.taken = dev.taken
        /\ vq'.used = vq.used /\ vq'.avail = vq.avail
        /\ vq'.status = 0 => ok = TRUE
    <3>1. PICK d : vq' = [vq EXCEPT !.status = IF ok THEN 0 ELSE 1, !.dma = d]
      BY <1>6, Zenon DEF DeviceServes
    <3>2. vq'.status = (IF ok THEN 0 ELSE 1) /\ vq'.used = vq.used /\ vq'.avail = vq.avail
      BY <3>1
    <3>3. dev'.work = "served" /\ dev'.taken = dev.taken
      BY <1>6, Zenon DEF DeviceServes
    <3> QED
      BY <3>2, <3>3
  <2>4. vq'.status = 0 => Moved'
    <3>1. CASE dev.type = "in"
      BY <1>6, <2>1, <2>2, <2>3, <3>1, ZenonT(60) DEF DeviceServes, Moved
    <3>2. CASE dev.type = "out"
      BY <1>6, <2>1, <2>2, <2>3, <3>2, Zenon DEF DeviceServes, Moved, Request
    <3> QED
      BY <2>2, <3>1, <3>2
  <2> QED
    BY <2>1, <2>2, <2>3, <2>4 DEF InStep, Waiting
<1>7. CASE DeviceUses
  <2>1. blk.pc = "wait" /\ vq.used + 1 = blk.target
    BY <1>7 DEF DeviceUses, InStep, Waiting
  <2>2. (vq.used + 1) % IdxMod = blk.target
    BY <2>1, BlkAssumption DEF InStep
  <2> QED
    BY <1>7, <2>1, <2>2 DEF DeviceUses, InStep, Waiting, Moved
<1> QED
  BY <1>1, <1>2, <1>3, <1>4, <1>5, <1>6, <1>7

(* A transfer that virtio_blk.c answers with XAIOS_OK has happened, for    *)
(* every device size and every width of the ring indices, from an          *)
(* initialization on to the first wait that ends without the device.       *)
THEOREM BlockTransfersHappen == BlkSpec => []TransfersHappen
<1>1. BlkInv /\ [BlkNext]_blkVars => BlkInv'
  <2> SUFFICES ASSUME BlkInv, [BlkNext]_blkVars PROVE BlkInv'
    OBVIOUS
  <2>1. BlkTypeOK /\ BlkTypeOK'
    BY BlkTypeStep DEF BlkInv
  <2>2. ASSUME NEW accepted \in BOOLEAN, virtio_block_init(accepted) PROVE BlkInv'
    BY <2>1, <2>2, BlkResetStep DEF BlkInv
  <2>3. CASE UNCHANGED blkVars
    BY <2>3 DEF blkVars, BlkInv, BlkTypeOK, InStep, Waiting, Request, Moved
  <2>4. ASSUME \/ \E type \in {"in", "out"}, sector \in Sectors, data \in SectorData :
                     transfer_sector_h(type, sector, data)
               \/ virtio_transport_notify \/ virtio_transport_wait_used \/ SpinLimit
               \/ DeviceTakes \/ (\E ok \in BOOLEAN : DeviceServes(ok)) \/ DeviceUses
        PROVE  BlkInv'
    <3>1. ~blk'.lapse => ~blk.lapse
      <4>1. ASSUME NEW type \in {"in", "out"}, NEW sector \in Sectors, NEW data \in SectorData,
                   transfer_sector_h(type, sector, data)
            PROVE  ~blk'.lapse => ~blk.lapse
        BY <2>1, <4>1, ZenonT(60) DEF BlkTypeOK, transfer_sector_h
      <4>2. CASE virtio_transport_notify \/ virtio_transport_wait_used \/ SpinLimit
        BY <2>1, <4>2, ZenonT(60) DEF BlkTypeOK, virtio_transport_notify,
            virtio_transport_wait_used, Answered, SpinLimit
      <4>3. CASE DeviceTakes \/ (\E ok \in BOOLEAN : DeviceServes(ok)) \/ DeviceUses
        BY <4>3, Zenon DEF DeviceTakes, DeviceServes, DeviceUses
      <4> QED
        BY <2>4, <4>1, <4>2, <4>3
    <3> QED
      BY <2>1, <2>4, <3>1, InStepStep DEF BlkInv
  <2> QED
    BY <2>2, <2>3, <2>4 DEF BlkNext
<1>2. BlkInv => TransfersHappen
  BY DEF BlkInv, InStep, TransfersHappen
<1> QED
  BY BlkInit, <1>1, <1>2, PTL DEF BlkSpec

-----------------------------------------------------------------------------
(* The scheduler: the tables and the calls under way.                      *)
Task == [active : BOOLEAN, pid : Pids \cup {0},
         state : {"UNUSED", "REGISTERED", "RUNNABLE", "RUNNING", "BLOCKED"},
         left : Int, cpu : SchedCpus \cup {0}]

Table == [taken : SUBSET (1 .. TaskSlots), task : [1 .. TaskSlots -> Task]]

Tables == [SchedCpus -> Table]

Calls == [stage : {"none", "claim", "fill", "add", "drop", "retire"}, pid : Pids \cup {0},
          cpu : SchedCpus \cup {0}, seen : SUBSET (1 .. TaskSlots), slot : Nat]

SchedTypeOK ==
  /\ slots \in Tables
  /\ call \in [SchedCpus -> Calls]
  /\ \A c \in SchedCpus : call[c].stage \in {"claim", "fill"} => call[c].cpu \in SchedCpus
  /\ \A c \in SchedCpus : call[c].stage = "claim" => call[c].slot >= 1
  /\ \A c \in SchedCpus : call[c].stage = "fill" => call[c].slot \in 1 .. TaskSlots

(* What the tables say: the claimed slots, and the task in a slot.         *)
Taken(t, c) == t[c].taken
Active(t, c, s) == t[c].task[s].active
PidOf(t, c, s) == t[c].task[s].pid

(* A claimed slot is claimed in the bitmap and by one call, and only such  *)
(* slots hold tasks.                                                       *)
ClaimInv ==
  /\ \A c \in SchedCpus : call[c].stage = "fill" =>
        /\ call[c].slot \in Taken(slots, call[c].cpu)
        /\ ~Active(slots, call[c].cpu, call[c].slot)
        /\ \A d \in SchedCpus \ {c} : call[d].stage = "fill" =>
              call[d].cpu # call[c].cpu \/ call[d].slot # call[c].slot
  /\ \A c \in SchedCpus, s \in 1 .. TaskSlots : Active(slots, c, s) => s \in Taken(slots, c)

(* A process has one task, and one that is being registered has none and   *)
(* no other call.                                                          *)
PidInv ==
  /\ \A c, d \in SchedCpus : \A s, u \in 1 .. TaskSlots :
        PidOf(slots, c, s) \in Pids /\ PidOf(slots, c, s) = PidOf(slots, d, u) => c = d /\ s = u
  /\ \A c \in SchedCpus : call[c].stage \in {"claim", "fill"} =>
        /\ call[c].pid \in Pids
        /\ \A d \in SchedCpus, s \in 1 .. TaskSlots : PidOf(slots, d, s) # call[c].pid
        /\ \A d \in SchedCpus \ {c} : call[d].pid # call[c].pid

SlotInv == SchedTypeOK /\ ClaimInv /\ PidInv

(* Two tables with the same claimed slots and the same tasks in them.      *)
SameTasks(t, u) ==
  \A c \in SchedCpus :
    /\ Taken(u, c) = Taken(t, c)
    /\ \A s \in 1 .. TaskSlots : /\ Active(u, c, s) = Active(t, c, s)
                                 /\ PidOf(u, c, s) = PidOf(t, c, s)

(* u is t with one slot of c's table rewritten.                            *)
Rewrites(t, u, c, s, taken, active, pid) ==
  /\ u \in Tables
  /\ Taken(u, c) = taken /\ \A d \in SchedCpus \ {c} : Taken(u, d) = Taken(t, d)
  /\ Active(u, c, s) = active /\ PidOf(u, c, s) = pid
  /\ \A d \in SchedCpus, v \in 1 .. TaskSlots : d # c \/ v # s =>
       Active(u, d, v) = Active(t, d, v) /\ PidOf(u, d, v) = PidOf(t, d, v)

LEMMA SlotWritten ==
  ASSUME NEW t \in Tables, NEW c \in SchedCpus, NEW s \in 1 .. TaskSlots,
         NEW tab \in Table,
         NEW k, tab.task = [t[c].task EXCEPT ![s] = k]
  PROVE  Rewrites(t, [t EXCEPT ![c] = tab], c, s, tab.taken, k.active, k.pid)
<1>1. tab.task[s] = k /\ \A v \in 1 .. TaskSlots : v # s => tab.task[v] = t[c].task[v]
  BY Zenon DEF Tables, Table
<1>2. PICK u : u = [t EXCEPT ![c] = tab]
  BY Zenon
<1>3. u[c] = tab /\ \A d \in SchedCpus \ {c} : u[d] = t[d]
  BY <1>2 DEF Tables
<1>4. u \in Tables
  BY <1>2, Zenon DEF Tables
<1>5. Taken(u, c) = tab.taken /\ \A d \in SchedCpus \ {c} : Taken(u, d) = Taken(t, d)
  BY <1>3, Zenon DEF Taken
<1>6. Active(u, c, s) = k.active /\ PidOf(u, c, s) = k.pid
  BY <1>1, <1>3, Zenon DEF Active, PidOf
<1>7. ASSUME NEW d \in SchedCpus, NEW v \in 1 .. TaskSlots, d # c \/ v # s
      PROVE  Active(u, d, v) = Active(t, d, v) /\ PidOf(u, d, v) = PidOf(t, d, v)
  <2>1. CASE d = c
    BY <1>1, <1>3, <1>7, <2>1, Zenon DEF Active, PidOf
  <2>2. CASE d # c
    BY <1>3, <2>2, Zenon DEF Active, PidOf
  <2> QED
    BY <2>1, <2>2
<1> QED
  BY <1>2, <1>4, <1>5, <1>6, <1>7, Zenon DEF Rewrites

(* The three ways the source writes a slot: claimed, filled, freed.        *)
LEMMA SlotClaimed ==
  ASSUME NEW t \in Tables, NEW c \in SchedCpus, NEW s \in 1 .. TaskSlots,
         NEW m \in SUBSET (1 .. TaskSlots), NEW k \in Task
  PROVE  Rewrites(t, [t EXCEPT ![c].taken = m, ![c].task[s] = k], c, s, m, k.active, k.pid)
<1>1. t[c] \in Table
  BY DEF Tables
<1>2. PICK tab : tab = [t[c] EXCEPT !.taken = m, !.task[s] = k]
  BY Zenon
<1>3. tab \in Table
  BY <1>1, <1>2, Zenon DEF Table
<1>4. tab.taken = m /\ tab.task = [t[c].task EXCEPT ![s] = k]
  BY <1>1, <1>2, Zenon DEF Table
<1>5. [t EXCEPT ![c].taken = m, ![c].task[s] = k] = [t EXCEPT ![c] = tab]
  BY <1>2, Zenon DEF Tables
<1>6. Rewrites(t, [t EXCEPT ![c] = tab], c, s, tab.taken, k.active, k.pid)
  BY <1>3, <1>4, SlotWritten
<1> QED
  BY <1>4, <1>5, <1>6, Zenon

LEMMA SlotFilled ==
  ASSUME NEW t \in Tables, NEW c \in SchedCpus, NEW s \in 1 .. TaskSlots, NEW k \in Task
  PROVE  Rewrites(t, [t EXCEPT ![c].task[s] = k], c, s, Taken(t, c), k.active, k.pid)
<1>1. t[c] \in Table
  BY DEF Tables
<1>2. PICK tab : tab = [t[c] EXCEPT !.task[s] = k]
  BY Zenon
<1>3. tab \in Table
  BY <1>1, <1>2, Zenon DEF Table
<1>4. tab.taken = Taken(t, c) /\ tab.task = [t[c].task EXCEPT ![s] = k]
  BY <1>1, <1>2, Zenon DEF Taken, Table
<1>5. [t EXCEPT ![c].task[s] = k] = [t EXCEPT ![c] = tab]
  BY <1>2, Zenon DEF Tables
<1>6. Rewrites(t, [t EXCEPT ![c] = tab], c, s, tab.taken, k.active, k.pid)
  BY <1>3, <1>4, SlotWritten
<1> QED
  BY <1>4, <1>5, <1>6, Zenon

LEMMA SlotFreed ==
  ASSUME NEW t \in Tables, NEW c \in SchedCpus, NEW s \in 1 .. TaskSlots, NEW k \in Task
  PROVE  Rewrites(t, [t EXCEPT ![c].task[s] = k, ![c].taken = @ \ {s}], c, s,
                  Taken(t, c) \ {s}, k.active, k.pid)
<1>1. t[c] \in Table
  BY DEF Tables
<1>2. PICK tab : tab = [t[c] EXCEPT !.task[s] = k, !.taken = @ \ {s}]
  BY Zenon
<1>3. tab \in Table
  BY <1>1, <1>2, Zenon DEF Table
<1>4. tab.taken = Taken(t, c) \ {s} /\ tab.task = [t[c].task EXCEPT ![s] = k]
  BY <1>1, <1>2, Zenon DEF Taken, Table
<1>5. [t EXCEPT ![c].task[s] = k, ![c].taken = @ \ {s}] = [t EXCEPT ![c] = tab]
  BY <1>2, Zenon DEF Tables
<1>6. Rewrites(t, [t EXCEPT ![c] = tab], c, s, tab.taken, k.active, k.pid)
  BY <1>3, <1>4, SlotWritten, Zenon
<1> QED
  BY <1>4, <1>5, <1>6, Zenon

(* Writing a field that is neither the owner nor the active flag of a task *)
(* keeps the tasks.                                                        *)
LEMMA PutSame ==
  ASSUME NEW t \in Tables, NEW c \in SchedCpus, NEW p, NEW field, NEW value,
         \A r \in Task : LET w == [r EXCEPT ![field] = value]
                         IN  w \in Task /\ w.active = r.active /\ w.pid = r.pid
  PROVE  Put(t, c, p, field, value) \in Tables /\ SameTasks(t, Put(t, c, p, field, value))
<1> DEFINE New(s) == IF s \in t[c].taken /\ t[c].task[s].active /\ t[c].task[s].pid = p
                     THEN [t[c].task[s] EXCEPT ![field] = value] ELSE t[c].task[s]
<1>1. ASSUME NEW s \in 1 .. TaskSlots
      PROVE  New(s) \in Task /\ New(s).active = t[c].task[s].active
                              /\ New(s).pid = t[c].task[s].pid
  <2>1. t[c].task[s] \in Task
    BY ZenonT(60) DEF Tables, Table
  <2> QED
    BY <2>1
<1> HIDE DEF New
<1>2. Put(t, c, p, field, value) = [t EXCEPT ![c].task = [s \in 1 .. TaskSlots |-> New(s)]]
  BY DEF Put, New
<1>3. PICK u : u = Put(t, c, p, field, value)
  BY Zenon
<1>4. u \in Tables
  BY <1>1, <1>2, <1>3 DEF Tables, Table
<1>5. /\ \A d \in SchedCpus \ {c} : u[d] = t[d]
      /\ u[c].taken = t[c].taken /\ \A s \in 1 .. TaskSlots : u[c].task[s] = New(s)
  BY <1>2, <1>3 DEF Tables, Table
<1>6. \A d \in SchedCpus : Taken(u, d) = Taken(t, d)
  BY <1>5, Zenon DEF Taken
<1>7. \A d \in SchedCpus, s \in 1 .. TaskSlots :
        Active(u, d, s) = Active(t, d, s) /\ PidOf(u, d, s) = PidOf(t, d, s)
  <2>1. \A s \in 1 .. TaskSlots : Active(u, c, s) = Active(t, c, s) /\ PidOf(u, c, s) = PidOf(t, c, s)
    BY <1>1, <1>5, Zenon DEF Active, PidOf
  <2>2. \A d \in SchedCpus \ {c}, s \in 1 .. TaskSlots :
          Active(u, d, s) = Active(t, d, s) /\ PidOf(u, d, s) = PidOf(t, d, s)
    BY <1>5, Zenon DEF Active, PidOf
  <2> QED
    BY <2>1, <2>2
<1> QED
  BY <1>3, <1>4, <1>6, <1>7, Zenon DEF SameTasks

LEMMA PutState ==
  ASSUME NEW t \in Tables, NEW c \in SchedCpus, NEW p,
         NEW value \in {"RUNNABLE", "RUNNING", "BLOCKED"}
  PROVE  Put(t, c, p, "state", value) \in Tables /\ SameTasks(t, Put(t, c, p, "state", value))
<1>1. \A r \in Task : LET w == [r EXCEPT !["state"] = value]
                      IN  w \in Task /\ w.active = r.active /\ w.pid = r.pid
  BY DEF Task
<1> QED
  BY <1>1, PutSame, Zenon

LEMMA PutLeft ==
  ASSUME NEW t \in Tables, NEW c \in SchedCpus, NEW p, NEW value \in Int
  PROVE  Put(t, c, p, "left", value) \in Tables /\ SameTasks(t, Put(t, c, p, "left", value))
<1>1. \A r \in Task : LET w == [r EXCEPT !["left"] = value]
                      IN  w \in Task /\ w.active = r.active /\ w.pid = r.pid
  BY DEF Task
<1> QED
  BY <1>1, PutSame, Zenon

LEMMA PutCpu ==
  ASSUME NEW t \in Tables, NEW c \in SchedCpus, NEW p, NEW value \in SchedCpus
  PROVE  Put(t, c, p, "cpu", value) \in Tables /\ SameTasks(t, Put(t, c, p, "cpu", value))
<1>1. \A r \in Task : LET w == [r EXCEPT !["cpu"] = value]
                      IN  w \in Task /\ w.active = r.active /\ w.pid = r.pid
  BY DEF Task
<1> QED
  BY <1>1, PutSame

LEMMA SchedInit == scheduler_init => SlotInv
<1> SUFFICES ASSUME scheduler_init PROVE SlotInv
  OBVIOUS
<1>1. /\ slots = [c \in SchedCpus |-> [taken |-> {}, task |-> [s \in 1 .. TaskSlots |-> NoTask]]]
      /\ call = [c \in SchedCpus |-> NoCall]
  BY DEF scheduler_init
<1>2. NoTask \in Task /\ NoTask.active = FALSE /\ NoTask.pid = 0
  BY DEF Task, NoTask
<1>3. NoCall \in Calls /\ NoCall.stage = "none"
  BY DEF Calls, NoCall
<1>4. SchedTypeOK
  <2>1. slots \in Tables
    BY <1>1, <1>2, Zenon DEF Tables, Table
  <2>2. call \in [SchedCpus -> Calls] /\ \A c \in SchedCpus : call[c].stage = "none"
    BY <1>1, <1>3
  <2> QED
    BY <2>1, <2>2 DEF SchedTypeOK
<1>5. \A c \in SchedCpus : call[c].stage = "none"
  BY <1>1, <1>3
<1>6. \A c \in SchedCpus, s \in 1 .. TaskSlots : ~Active(slots, c, s) /\ PidOf(slots, c, s) = 0
  BY <1>1, <1>2, Zenon DEF Active, PidOf
<1>7. ClaimInv
  BY <1>5, <1>6 DEF ClaimInv
<1>8. PidInv
  BY <1>5, <1>6, SchedAssumption DEF PidInv
<1> QED
  BY <1>4, <1>7, <1>8 DEF SlotInv

(* A step that keeps the tasks and starts no registration keeps the        *)
(* invariant: a tick, a steal, a yield, a change of state.                 *)
LEMMA SameKeeps ==
  ASSUME SlotInv, slots' \in Tables, SameTasks(slots, slots'),
         \/ UNCHANGED call
         \/ \E c \in SchedCpus, r \in Calls :
              /\ call[c].stage \notin {"claim", "fill"} /\ r.stage \notin {"claim", "fill"}
              /\ \A d \in SchedCpus : call[d].stage \in {"claim", "fill"} => call[d].pid # r.pid
              /\ call' = [call EXCEPT ![c] = r]
  PROVE  SlotInv'
<1> USE DEF SlotInv
<1>1. CASE UNCHANGED call
  <2>1. SchedTypeOK'
    BY <1>1 DEF SchedTypeOK
  <2>2. ClaimInv'
    BY <1>1 DEF SchedTypeOK, ClaimInv, SameTasks
  <2>3. PidInv'
    BY <1>1 DEF SchedTypeOK, PidInv, SameTasks
  <2> QED
    BY <2>1, <2>2, <2>3
<1>2. ASSUME NEW c \in SchedCpus, NEW r \in Calls,
             call[c].stage \notin {"claim", "fill"}, r.stage \notin {"claim", "fill"},
             \A d \in SchedCpus : call[d].stage \in {"claim", "fill"} => call[d].pid # r.pid,
             call' = [call EXCEPT ![c] = r]
      PROVE  SlotInv'
  <2>0. call'[c] = r /\ \A d \in SchedCpus \ {c} : call'[d] = call[d]
    BY <1>2 DEF SchedTypeOK
  <2>1. SchedTypeOK'
    BY <1>2, <2>0 DEF SchedTypeOK
  <2>2. ClaimInv'
    BY <1>2, <2>0 DEF SchedTypeOK, ClaimInv, SameTasks
  <2>3. PidInv'
    BY <1>2, <2>0 DEF SchedTypeOK, PidInv, SameTasks
  <2> QED
    BY <2>1, <2>2, <2>3
<1> QED
  BY <1>1, <1>2

(* A process whose task the CPU's own table holds is not being registered. *)
LEMMA FoundIsRegistered ==
  ASSUME SlotInv, NEW c \in SchedCpus, NEW p \in Pids, Finds(c, p)
  PROVE  /\ call[c].stage = "none"
         /\ \A d \in SchedCpus : call[d].stage \in {"claim", "fill"} => call[d].pid # p
         /\ Local(c, p) \in Task
         /\ \E s \in slots[c].taken : /\ s = CHOOSE x \in find_task_local(c, p) : TRUE
                                      /\ s \in find_task_local(c, p)
<1>1. PICK s : s \in find_task_local(c, p)
  BY DEF Finds
<1>2. /\ (CHOOSE x \in find_task_local(c, p) : TRUE) \in find_task_local(c, p)
      /\ find_task_local(c, p) \subseteq slots[c].taken
      /\ slots[c].taken \subseteq 1 .. TaskSlots
      /\ \A x \in find_task_local(c, p) : slots[c].task[x].pid = p /\ slots[c].task[x] \in Task
  BY <1>1, Zenon DEF find_task_local, SlotInv, SchedTypeOK, Tables, Table
<1> QED
  <2>1. PICK x : x = CHOOSE y \in find_task_local(c, p) : TRUE
    BY Zenon
  <2>2. x \in slots[c].taken /\ x \in 1 .. TaskSlots /\ PidOf(slots, c, x) = p /\ slots[c].task[x] \in Task
    BY <1>2, <2>1, Zenon DEF PidOf
  <2>3. \A d \in SchedCpus : call[d].stage \in {"claim", "fill"} => call[d].pid # p
    BY <2>2 DEF SlotInv, PidInv
  <2>4. call[c].stage = "none" /\ Local(c, p) \in Task
    BY <2>1, <2>2, Zenon DEF Local, Finds
  <2> QED
    BY <1>2, <2>1, <2>2, <2>3, <2>4, Zenon

(* The call that goes on to the queue of the task's CPU.                   *)
LEMMA OnToQueueCall ==
  ASSUME SlotInv, NEW c \in SchedCpus, NEW p \in Pids, Finds(c, p),
         NEW stage \in {"add", "drop", "retire"}, OnToQueue(c, p, stage)
  PROVE  \E x \in SchedCpus, r \in Calls :
              /\ call[x].stage \notin {"claim", "fill"} /\ r.stage \notin {"claim", "fill"}
              /\ \A d \in SchedCpus : call[d].stage \in {"claim", "fill"} => call[d].pid # r.pid
              /\ call' = [call EXCEPT ![x] = r]
<1> DEFINE r == [NoCall EXCEPT !.stage = stage, !.pid = p, !.cpu = Local(c, p).cpu]
<1>1. call' = [call EXCEPT ![c] = r]
  BY DEF OnToQueue
<1>2. r \in Calls /\ r.stage = stage /\ r.pid = p
  BY FoundIsRegistered, ZenonT(60) DEF NoCall, Calls, Task
<1> HIDE DEF r
<1> QED
  BY <1>1, <1>2, FoundIsRegistered, Zenon

(* What a tick charges the running process keeps the tasks.                *)
LEMMA ChargedSame ==
  ASSUME SlotInv, NEW c \in SchedCpus
  PROVE  Charged(c) \in Tables /\ SameTasks(slots, Charged(c))
<1>0. slots \in Tables
  BY DEF SlotInv, SchedTypeOK
<1>1. CASE find_task_local(c, current[c]) = {} \/ Local(c, current[c]).left = 0
  BY <1>0, <1>1 DEF Charged, SameTasks
<1>2. CASE ~(find_task_local(c, current[c]) = {} \/ Local(c, current[c]).left = 0)
  <2>1. Local(c, current[c]) \in Task
    BY <1>0, <1>2, Zenon DEF Local, find_task_local, Tables, Table
  <2>2. Local(c, current[c]).left - 1 \in Int
    BY <2>1 DEF Task
  <2>3. Charged(c) = Put(slots, c, current[c], "left", Local(c, current[c]).left - 1)
    BY <1>2 DEF Charged
  <2> QED
    BY <1>0, <2>2, <2>3, PutLeft
<1> QED
  BY <1>1, <1>2

LEMMA SameTrans ==
  ASSUME NEW t, NEW u, NEW v, SameTasks(t, u), SameTasks(u, v)
  PROVE  SameTasks(t, v)
  BY DEF SameTasks

(* Every step of a tick or a yield keeps the tasks.                        *)
LEMMA TickSame ==
  ASSUME SlotInv, NEW c \in SchedCpus, Tick(c) \/ scheduler_yield(c)
  PROVE  slots' \in Tables /\ SameTasks(slots, slots') /\ UNCHANGED call
<1>0. slots \in Tables
  BY DEF SlotInv, SchedTypeOK
<1>s. Slice \in Int /\ 0 \in Int
  BY SchedAssumption
<1>c. Charged(c) \in Tables /\ SameTasks(slots, Charged(c))
  BY ChargedSame
<1>1. CASE scheduler_tick(c)
  <2>1. PICK fresh \in Tables : /\ SameTasks(slots, fresh)
                                /\ \/ slots' = fresh /\ UNCHANGED call
                                   \/ \E p, q : Switch(fresh, c, p, q)
    <3> DEFINE re == Put(Charged(c), c, current[c], "left", Slice)
    <3>1. re \in Tables /\ SameTasks(Charged(c), re)
      BY <1>c, <1>s, PutLeft
    <3>2. SameTasks(slots, re)
      BY <1>c, <3>1, SameTrans
    <3> HIDE DEF re
    <3>3. \/ slots' = Charged(c) /\ UNCHANGED call
          \/ \E p, q : Switch(re, c, p, q) \/ Switch(Charged(c), c, p, q)
      BY <1>1, Zenon DEF scheduler_tick, re
    <3> QED
      BY <1>c, <3>1, <3>2, <3>3
  <2>2. CASE slots' = fresh /\ UNCHANGED call
    BY <2>1, <2>2
  <2>3. ASSUME NEW p, NEW q, Switch(fresh, c, p, q)
        PROVE  slots' \in Tables /\ SameTasks(slots, slots') /\ UNCHANGED call
    <3> DEFINE run == Put(fresh, c, p, "state", "RUNNING")
    <3>1. run \in Tables /\ SameTasks(fresh, run)
      BY PutState
    <3>2. SameTasks(slots, run)
      BY <2>1, <3>1, SameTrans
    <3> HIDE DEF run
    <3>3. (slots' = fresh \/ slots' = run) /\ UNCHANGED call
      BY <2>3 DEF Switch, run
    <3> QED
      BY <2>1, <3>1, <3>2, <3>3
  <2> QED
    BY <2>1, <2>2, <2>3
<1>2. CASE StealTake(c) \/ Idle(c)
  BY <1>2, <1>c DEF StealTake, Idle
<1>3. CASE StealPlace(c)
  <2> DEFINE P(v) == Put(slots, v, theft[c], "cpu", c)
             Q(v) == Put(P(v), v, theft[c], "left", Slice)
  <2>1. ASSUME NEW v \in SchedCpus
        PROVE  Q(v) \in Tables /\ SameTasks(slots, Q(v))
    <3>1. P(v) \in Tables /\ SameTasks(slots, P(v))
      BY <1>0, PutCpu
    <3> HIDE DEF P
    <3>2. Q(v) \in Tables /\ SameTasks(P(v), Q(v))
      BY <3>1, <1>s, PutLeft
    <3> QED
      BY <3>1, <3>2, SameTrans
  <2>2. /\ slots' = [v \in SchedCpus |-> IF v # c /\ find_task_local(v, theft[c]) # {}
                                        THEN Q(v)[v] ELSE slots[v]]
        /\ UNCHANGED call
    BY <1>3 DEF StealPlace
  <2> HIDE DEF Q
  <2>3. PICK u : u = slots'
    BY Zenon
  <2>4. u \in Tables
    BY <1>0, <2>1, <2>2, <2>3 DEF Tables, Table
  <2>5. \A v \in SchedCpus : u[v] = slots[v] \/ u[v] = Q(v)[v]
    BY <2>2, <2>3
  <2>6. ASSUME NEW v \in SchedCpus
        PROVE  /\ Taken(u, v) = Taken(slots, v)
               /\ \A s \in 1 .. TaskSlots : Active(u, v, s) = Active(slots, v, s)
                                         /\ PidOf(u, v, s) = PidOf(slots, v, s)
    <3>1. CASE u[v] = slots[v]
      BY <3>1, Zenon DEF Taken, Active, PidOf
    <3>2. CASE u[v] = Q(v)[v]
      <4>1. /\ Taken(Q(v), v) = Taken(slots, v)
            /\ \A s \in 1 .. TaskSlots : Active(Q(v), v, s) = Active(slots, v, s)
                                      /\ PidOf(Q(v), v, s) = PidOf(slots, v, s)
        BY <2>1, Zenon DEF SameTasks
      <4>2. /\ Taken(u, v) = Taken(Q(v), v)
            /\ \A s \in 1 .. TaskSlots : Active(u, v, s) = Active(Q(v), v, s)
                                      /\ PidOf(u, v, s) = PidOf(Q(v), v, s)
        BY <3>2, Zenon DEF Taken, Active, PidOf
      <4> QED
        BY <4>1, <4>2
    <3> QED
      BY <2>5, <3>1, <3>2
  <2> QED
    BY <2>2, <2>3, <2>4, <2>6, Zenon DEF SameTasks
<1>4. CASE scheduler_yield(c)
  <2> DEFINE p == current[c]
             t1 == Put(slots, c, p, "left", 0)
             t2 == Put(t1, c, p, "state", "RUNNABLE")
  <2>1. t1 \in Tables /\ SameTasks(slots, t1)
    BY <1>0, <1>s, PutLeft
  <2>2. t2 \in Tables /\ SameTasks(t1, t2)
    <3> HIDE DEF t1
    <3> QED BY <2>1, PutState
  <2>3. SameTasks(slots, t2) /\ SameTasks(slots, slots)
    <3>1. SameTasks(slots, slots)
      BY DEF SameTasks
    <3> HIDE DEF t1, t2
    <3> QED BY <2>1, <2>2, <3>1, SameTrans
  <2>4. PICK t \in {slots, t2} : /\ slots' = t \/ \E n : slots' = Put(t, c, n, "state", "RUNNING")
                                 /\ UNCHANGED call
    BY <1>4, Zenon DEF scheduler_yield
  <2>5. t \in Tables /\ SameTasks(slots, t)
    BY <1>0, <2>2, <2>3, Zenon
  <2>6. \A n : /\ Put(t, c, n, "state", "RUNNING") \in Tables
               /\ SameTasks(t, Put(t, c, n, "state", "RUNNING"))
    BY <2>5, PutState
  <2> QED
    BY <2>4, <2>5, <2>6, SameTrans
<1> QED
  BY <1>1, <1>2, <1>3, <1>4 DEF Tick

(* What alloc_task_slot does: it gives up, claims the first free bit it    *)
(* has not tried when the bitmap is what it read, or reads it again.       *)
LEMMA ClaimStep ==
  ASSUME SlotInv, NEW c \in SchedCpus, alloc_task_slot(c)
  PROVE  /\ call[c].stage = "claim" /\ call[c].cpu \in SchedCpus
         /\ \/ call' = [call EXCEPT ![c] = NoCall] /\ UNCHANGED slots
            \/ \E s \in 1 .. TaskSlots :
                 /\ s \notin Taken(slots, call[c].cpu)
                 /\ Rewrites(slots, slots', call[c].cpu, s, Taken(slots, call[c].cpu) \cup {s},
                             FALSE, 0)
                 /\ call' = [call EXCEPT ![c].stage = "fill", ![c].slot = s]
            \/ \E s \in 1 .. TaskSlots :
                 /\ call' = [call EXCEPT ![c].seen = Taken(slots, call[c].cpu),
                                         ![c].slot = s + 1]
                 /\ UNCHANGED slots
<1> DEFINE free == {s \in call[c].slot .. TaskSlots : s \notin call[c].seen}
<1>1. /\ call[c].stage = "claim" /\ call[c].cpu \in SchedCpus
      /\ call[c].slot \in Nat /\ call[c].slot >= 1
  BY Zenon DEF alloc_task_slot, SlotInv, SchedTypeOK, Calls
<1>2. free \subseteq 1 .. TaskSlots
  BY <1>1, SchedAssumption
<1>3. \/ free = {} /\ call' = [call EXCEPT ![c] = NoCall] /\ UNCHANGED slots
      \/ \E s \in free :
           \/ /\ Taken(slots, call[c].cpu) = call[c].seen
              /\ slots' = [slots EXCEPT ![call[c].cpu].taken = call[c].seen \cup {s},
                                        ![call[c].cpu].task[s] = NoTask]
              /\ call' = [call EXCEPT ![c].stage = "fill", ![c].slot = s]
           \/ /\ UNCHANGED slots
              /\ call' = [call EXCEPT ![c].seen = Taken(slots, call[c].cpu), ![c].slot = s + 1]
  BY Zenon DEF alloc_task_slot, Swapped, Taken
<1>4. \A s \in free : s \in 1 .. TaskSlots /\ s \notin call[c].seen
  BY <1>2, Zenon
<1> HIDE DEF free
<1>5. ASSUME NEW s \in 1 .. TaskSlots, s \notin call[c].seen,
             Taken(slots, call[c].cpu) = call[c].seen,
             slots' = [slots EXCEPT ![call[c].cpu].taken = call[c].seen \cup {s},
                                    ![call[c].cpu].task[s] = NoTask]
      PROVE  /\ s \notin Taken(slots, call[c].cpu)
             /\ Rewrites(slots, slots', call[c].cpu, s, Taken(slots, call[c].cpu) \cup {s},
                         FALSE, 0)
  <2>1. slots \in Tables /\ Taken(slots, call[c].cpu) \in SUBSET (1 .. TaskSlots)
    BY <1>1 DEF SlotInv, SchedTypeOK, Tables, Table, Taken
  <2>2. call[c].seen \cup {s} \in SUBSET (1 .. TaskSlots)
    BY <1>5, <2>1, Zenon
  <2>3. NoTask \in Task /\ NoTask.active = FALSE /\ NoTask.pid = 0
    BY DEF Task, NoTask
  <2>4. Rewrites(slots, slots', call[c].cpu, s, call[c].seen \cup {s}, NoTask.active, NoTask.pid)
    BY <1>1, <1>5, <2>1, <2>2, <2>3, SlotClaimed, Zenon
  <2> QED
    BY <1>5, <2>3, <2>4, Zenon
<1> QED
  BY <1>1, <1>3, <1>4, <1>5, ZenonT(60)

(* Registration and unregistration keep the invariant.                     *)
LEMMA RegisterStep ==
  ASSUME SlotInv, NEW c \in SchedCpus,
         BeginRegister(c) \/ alloc_task_slot(c) \/ scheduler_register_with_priority(c)
  PROVE  SlotInv'
<1>0. slots \in Tables /\ call \in [SchedCpus -> Calls] /\ 0 \notin Pids /\ ClaimInv /\ PidInv
  BY SchedAssumption DEF SlotInv, SchedTypeOK
<1>t. SchedTypeOK
  BY DEF SlotInv
<1>1. CASE BeginRegister(c)
  <2>1. PICK p \in Pids, t \in SchedCpus :
          /\ p \notin Registered
          /\ \A d \in SchedCpus : call[d].pid # p
          /\ call' = [call EXCEPT ![c] = [stage |-> "claim", pid |-> p, cpu |-> t,
                                          seen |-> slots[t].taken, slot |-> 1]]
    BY <1>1, Zenon DEF BeginRegister, find_least_loaded_cpu
  <2>2. PICK r : r = [stage |-> "claim", pid |-> p, cpu |-> t, seen |-> slots[t].taken, slot |-> 1]
    BY Zenon
  <2>3. r \in Calls /\ r.stage = "claim" /\ r.pid = p /\ r.cpu = t /\ r.slot = 1
    <3>1. slots[t].taken \in SUBSET (1 .. TaskSlots)
      BY <1>0 DEF Tables, Table
    <3> QED
      BY <2>2, <3>1 DEF Calls
  <2>4. call'[c] = r /\ (\A d \in SchedCpus \ {c} : call'[d] = call[d]) /\ call' \in [SchedCpus -> Calls]
    BY <1>0, <2>1, <2>2, <2>3
  <2>5. slots' = slots
    BY <1>1 DEF BeginRegister
  <2>6. SchedTypeOK'
    BY <1>t, <2>3, <2>4, <2>5 DEF SchedTypeOK
  <2>7. ClaimInv'
    BY <1>0, <2>3, <2>4, <2>5 DEF ClaimInv
  <2>8. \A d \in SchedCpus, s \in 1 .. TaskSlots : PidOf(slots, d, s) # p
    BY <2>1 DEF Registered, PidOf
  <2>9. PidInv'
    BY <1>0, <2>1, <2>3, <2>4, <2>5, <2>8 DEF PidInv
  <2> QED
    BY <2>6, <2>7, <2>9 DEF SlotInv
<1>2. CASE alloc_task_slot(c)
  <2>0. call[c].stage = "claim" /\ call[c].cpu \in SchedCpus
    BY <1>2, ClaimStep, Zenon
  <2>1. CASE call' = [call EXCEPT ![c] = NoCall] /\ UNCHANGED slots
    <3>1. NoCall \in Calls /\ NoCall.stage = "none" /\ NoCall.pid = 0
      BY DEF NoCall, Calls
    <3>2. \A d \in SchedCpus : call[d].stage \in {"claim", "fill"} => call[d].pid \in Pids
      BY <1>0 DEF PidInv
    <3>3. /\ call'[c] = NoCall /\ \A d \in SchedCpus \ {c} : call'[d] = call[d]
          /\ call' \in [SchedCpus -> Calls]
      BY <1>0, <2>1, <3>1
    <3>4. SchedTypeOK'
      BY <1>t, <2>1, <3>1, <3>3 DEF SchedTypeOK
    <3>5. ClaimInv'
      BY <1>0, <2>1, <3>1, <3>3 DEF ClaimInv
    <3>6. PidInv'
      BY <1>0, <2>1, <3>1, <3>2, <3>3 DEF PidInv
    <3> QED
      BY <3>4, <3>5, <3>6 DEF SlotInv
  <2>2. ASSUME NEW s \in 1 .. TaskSlots, s \notin Taken(slots, call[c].cpu),
               Rewrites(slots, slots', call[c].cpu, s, Taken(slots, call[c].cpu) \cup {s}, FALSE, 0),
               call' = [call EXCEPT ![c].stage = "fill", ![c].slot = s]
        PROVE  SlotInv'
    <3>1. PICK r : r = [call[c] EXCEPT !.stage = "fill", !.slot = s]
      BY Zenon
    <3>2. /\ r \in Calls /\ r.stage = "fill" /\ r.slot = s
          /\ r.pid = call[c].pid /\ r.cpu = call[c].cpu
      <4>1. call[c] \in Calls
        BY <1>0
      <4>0. s \in Nat /\ "fill" \in {"none", "claim", "fill", "add", "drop", "retire"}
        BY SchedAssumption
      <4>2. r \in Calls
        BY <3>1, <4>0, <4>1, Zenon DEF Calls
      <4>3. /\ r.stage = "fill" /\ r.slot = s
            /\ r.pid = call[c].pid /\ r.cpu = call[c].cpu
        BY <3>1, <4>1, Zenon DEF Calls
      <4> QED
        BY <4>2, <4>3
    <3>3. call' = [call EXCEPT ![c] = r]
      BY <1>0, <2>2, <3>1, Zenon
    <3>4. /\ call'[c] = r /\ \A d \in SchedCpus \ {c} : call'[d] = call[d]
          /\ call' \in [SchedCpus -> Calls]
      <4>1. r \in Calls
        BY <3>2
      <4> QED
        BY <1>0, <3>3, <4>1, Zenon
    <3>5. SchedTypeOK'
      <4>1. slots' \in Tables
        BY <2>2, Zenon DEF Rewrites
      <4>2. \A d \in SchedCpus \ {c} : call'[d] = call[d]
        BY <3>4
      <4>3. call'[c].stage = "fill" /\ call'[c].slot = s /\ call'[c].cpu \in SchedCpus
        BY <2>0, <3>2, <3>4
      <4> QED
        BY <1>t, <3>4, <4>1, <4>2, <4>3 DEF SchedTypeOK
    <3> DEFINE at == call[c].cpu
    <3>6. ASSUME NEW d \in SchedCpus, NEW v \in 1 .. TaskSlots, Active(slots', d, v)
          PROVE  v \in Taken(slots', d)
      BY <1>0, <2>0, <2>2, <3>6 DEF ClaimInv, Rewrites
    <3>7. ASSUME NEW d \in SchedCpus \ {c}, call[d].stage = "fill"
          PROVE  /\ call[d].slot \in Taken(slots', call[d].cpu)
                 /\ ~Active(slots', call[d].cpu, call[d].slot)
                 /\ call[d].cpu # at \/ call[d].slot # s
      <4>1. /\ call[d].cpu \in SchedCpus /\ call[d].slot \in 1 .. TaskSlots
            /\ call[d].slot \in Taken(slots, call[d].cpu)
            /\ ~Active(slots, call[d].cpu, call[d].slot)
        BY <1>0, <1>t, <3>7 DEF ClaimInv, SchedTypeOK
      <4>2. call[d].cpu # at \/ call[d].slot # s
        BY <2>2, <4>1
      <4> QED
        BY <2>0, <2>2, <4>1, <4>2 DEF Rewrites
    <3>8. s \in Taken(slots', at) /\ ~Active(slots', at, s)
      BY <2>2 DEF Rewrites
    <3>9. ClaimInv'
      BY <1>0, <3>2, <3>4, <3>6, <3>7, <3>8 DEF ClaimInv
    <3>10. \A d \in SchedCpus, u \in 1 .. TaskSlots :
              PidOf(slots', d, u) = PidOf(slots, d, u) \/ PidOf(slots', d, u) = 0
      BY <2>2 DEF Rewrites
    <3>11. PidInv'
      BY <1>0, <2>0, <3>2, <3>4, <3>10 DEF PidInv
    <3> QED
      BY <3>5, <3>9, <3>11 DEF SlotInv
  <2>3. ASSUME NEW s \in 1 .. TaskSlots, UNCHANGED slots,
               call' = [call EXCEPT ![c].seen = Taken(slots, call[c].cpu), ![c].slot = s + 1]
        PROVE  SlotInv'
    <3>1. PICK r : r = [call[c] EXCEPT !.seen = Taken(slots, call[c].cpu), !.slot = s + 1]
      BY Zenon
    <3>2. /\ r \in Calls /\ r.stage = "claim" /\ r.slot = s + 1
          /\ r.pid = call[c].pid /\ r.cpu = call[c].cpu
      <4>1. call[c] \in Calls /\ Taken(slots, call[c].cpu) \in SUBSET (1 .. TaskSlots)
        BY <1>0, <2>0 DEF Tables, Table, Taken
      <4>2. s + 1 \in Nat
        BY SchedAssumption
      <4>3. r \in Calls
        BY <3>1, <4>1, <4>2, Zenon DEF Calls
      <4>4. /\ r.stage = call[c].stage /\ r.slot = s + 1
            /\ r.pid = call[c].pid /\ r.cpu = call[c].cpu
        BY <3>1, <4>1, Zenon DEF Calls
      <4> QED
        BY <2>0, <4>3, <4>4, Zenon
    <3>3. call' = [call EXCEPT ![c] = r] /\ slots' = slots
      BY <1>0, <2>3, <3>1, Zenon
    <3>4. /\ call'[c] = r /\ \A d \in SchedCpus \ {c} : call'[d] = call[d]
          /\ call' \in [SchedCpus -> Calls]
      <4>1. r \in Calls
        BY <3>2
      <4> QED
        BY <1>0, <3>3, <4>1, Zenon
    <3>5. SchedTypeOK'
      <4>1. \A d \in SchedCpus \ {c} : call'[d] = call[d]
        BY <3>4
      <4>2. call'[c].stage = "claim" /\ call'[c].slot >= 1 /\ call'[c].cpu \in SchedCpus
        BY <2>0, <3>2, <3>4, SchedAssumption
      <4> QED
        BY <1>t, <3>3, <3>4, <4>1, <4>2 DEF SchedTypeOK
    <3>6. ClaimInv'
      BY <1>0, <3>2, <3>3, <3>4 DEF ClaimInv
    <3>7. PidInv'
      BY <1>0, <2>0, <3>2, <3>3, <3>4 DEF PidInv
    <3> QED
      BY <3>5, <3>6, <3>7 DEF SlotInv
  <2> QED
    BY <1>2, <2>1, <2>2, <2>3, ClaimStep, ZenonT(60)
<1>3. CASE scheduler_register_with_priority(c)
  <2>1. PICK at, s, task : /\ at = call[c].cpu /\ s = call[c].slot
                           /\ task = [active |-> TRUE, pid |-> call[c].pid, state |-> "REGISTERED",
                                      left |-> Slice, cpu |-> at]
    BY Zenon
  <2>2. /\ call[c].stage = "fill" /\ at \in SchedCpus /\ s \in 1 .. TaskSlots
        /\ call[c].pid \in Pids
    BY <1>0, <1>t, <1>3, <2>1 DEF scheduler_register_with_priority, SchedTypeOK, PidInv
  <2>3. slots' = [slots EXCEPT ![at].task[s] = task] /\ call' = [call EXCEPT ![c] = NoCall]
    BY <1>3, <2>1, Zenon DEF scheduler_register_with_priority
  <2>4. task \in Task /\ task.active = TRUE /\ task.pid = call[c].pid
    BY <2>1, <2>2, SchedAssumption DEF Task
  <2>5. Rewrites(slots, slots', at, s, Taken(slots, at), TRUE, call[c].pid)
    BY <1>0, <2>2, <2>3, <2>4, SlotFilled, Zenon
  <2>6. NoCall \in Calls /\ NoCall.stage = "none" /\ NoCall.pid = 0
    BY DEF NoCall, Calls
  <2>7. /\ call'[c] = NoCall /\ \A d \in SchedCpus \ {c} : call'[d] = call[d]
        /\ call' \in [SchedCpus -> Calls]
    BY <1>0, <2>3, <2>6
  <2>8. SchedTypeOK'
    BY <1>t, <2>5, <2>6, <2>7 DEF SchedTypeOK, Rewrites
  <2>9. ClaimInv'
    <3>1. ASSUME NEW d \in SchedCpus, NEW u \in 1 .. TaskSlots, Active(slots', d, u)
          PROVE  u \in Taken(slots', d)
      BY <1>0, <2>1, <2>2, <2>5, <3>1 DEF ClaimInv, Rewrites
    <3>2. ASSUME NEW d \in SchedCpus \ {c}, call[d].stage = "fill"
          PROVE  /\ call[d].slot \in Taken(slots', call[d].cpu)
                 /\ ~Active(slots', call[d].cpu, call[d].slot)
      <4>1. /\ call[d].cpu \in SchedCpus /\ call[d].slot \in 1 .. TaskSlots
            /\ call[d].slot \in Taken(slots, call[d].cpu)
            /\ ~Active(slots, call[d].cpu, call[d].slot)
            /\ call[d].cpu # at \/ call[d].slot # s
        BY <1>0, <1>t, <2>1, <2>2, <3>2 DEF ClaimInv, SchedTypeOK
      <4> QED
        BY <2>2, <2>5, <4>1, Zenon DEF Rewrites
    <3> QED
      BY <1>0, <2>6, <2>7, <3>1, <3>2 DEF ClaimInv
  <2>10. PidInv'
    <3>1. \A d \in SchedCpus, u \in 1 .. TaskSlots :
            IF d = at /\ u = s THEN PidOf(slots', d, u) = call[c].pid
            ELSE PidOf(slots', d, u) = PidOf(slots, d, u)
      BY <2>5 DEF Rewrites
    <3>2. \A d \in SchedCpus, u \in 1 .. TaskSlots : PidOf(slots, d, u) # call[c].pid
      BY <1>0, <2>2 DEF PidInv
    <3>3. \A d, e \in SchedCpus : \A u, v \in 1 .. TaskSlots :
            PidOf(slots', d, u) \in Pids /\ PidOf(slots', d, u) = PidOf(slots', e, v)
              => d = e /\ u = v
      BY <1>0, <3>1, <3>2 DEF PidInv
    <3>4. ASSUME NEW d \in SchedCpus, call'[d].stage \in {"claim", "fill"}
          PROVE  /\ call'[d].pid \in Pids
                 /\ \A e \in SchedCpus, u \in 1 .. TaskSlots : PidOf(slots', e, u) # call'[d].pid
                 /\ \A e \in SchedCpus \ {d} : call'[e].pid # call'[d].pid
      <4>1. d # c /\ call'[d] = call[d]
        BY <2>6, <2>7, <3>4, Zenon
      <4>2. call[c].pid # call[d].pid /\ call[d].pid \in Pids
        BY <1>0, <2>2, <3>4, <4>1, Zenon DEF PidInv
      <4> QED
        BY <1>0, <2>6, <2>7, <3>1, <3>4, <4>1, <4>2 DEF PidInv
    <3> QED
      BY <3>3, <3>4 DEF PidInv
  <2> QED
    BY <2>8, <2>9, <2>10 DEF SlotInv
<1> QED
  BY <1>1, <1>2, <1>3

(* A task is freed together with its slot.                                 *)
LEMMA UnregisterStep ==
  ASSUME SlotInv, NEW c \in SchedCpus, NEW p \in Pids, scheduler_unregister(c, p)
  PROVE  SlotInv'
<1>0. slots \in Tables /\ call \in [SchedCpus -> Calls] /\ 0 \notin Pids /\ ClaimInv /\ PidInv
  BY SchedAssumption DEF SlotInv, SchedTypeOK
<1>t. SchedTypeOK
  BY DEF SlotInv
<1>1. Finds(c, p) /\ OnToQueue(c, p, "retire")
  BY DEF scheduler_unregister
<1>2. PICK s : s = CHOOSE x \in find_task_local(c, p) : TRUE
  BY Zenon
<1>3. slots' = [slots EXCEPT ![c].task[s] = NoTask, ![c].taken = @ \ {s}]
  BY <1>2, Zenon DEF scheduler_unregister
<1>4. s \in find_task_local(c, p) /\ s \in slots[c].taken
  BY <1>1, <1>2, FoundIsRegistered, Zenon
<1>5. s \in 1 .. TaskSlots /\ Active(slots, c, s)
  BY <1>0, <1>4 DEF find_task_local, Tables, Table, Active
<1>6. PICK x \in SchedCpus, r \in Calls :
              /\ call[x].stage \notin {"claim", "fill"} /\ r.stage \notin {"claim", "fill"}
              /\ \A d \in SchedCpus : call[d].stage \in {"claim", "fill"} => call[d].pid # r.pid
              /\ call' = [call EXCEPT ![x] = r]
  BY <1>1, OnToQueueCall
<1>7. /\ call'[x] = r /\ \A d \in SchedCpus \ {x} : call'[d] = call[d]
      /\ call' \in [SchedCpus -> Calls]
  BY <1>0, <1>6
<1>8. NoTask \in Task /\ NoTask.active = FALSE /\ NoTask.pid = 0
  BY DEF Task, NoTask
<1>9. Rewrites(slots, slots', c, s, Taken(slots, c) \ {s}, FALSE, 0)
  <2>1. Rewrites(slots, [slots EXCEPT ![c].task[s] = NoTask, ![c].taken = @ \ {s}], c, s,
                 Taken(slots, c) \ {s}, NoTask.active, NoTask.pid)
    BY <1>0, <1>5, <1>8, SlotFreed, Zenon
  <2> QED
    BY <1>3, <1>8, <2>1, Zenon
<1>10. SchedTypeOK'
  BY <1>t, <1>6, <1>7, <1>9 DEF SchedTypeOK, Rewrites
<1>11. ClaimInv'
  <2>1. ASSUME NEW d \in SchedCpus, NEW u \in 1 .. TaskSlots, Active(slots', d, u)
        PROVE  u \in Taken(slots', d)
    BY <1>0, <1>9, <2>1 DEF ClaimInv, Rewrites
  <2>2. ASSUME NEW d \in SchedCpus, call[d].stage = "fill"
        PROVE  /\ call[d].slot \in Taken(slots', call[d].cpu)
               /\ ~Active(slots', call[d].cpu, call[d].slot)
    <3>1. /\ call[d].cpu \in SchedCpus /\ call[d].slot \in 1 .. TaskSlots
          /\ call[d].slot \in Taken(slots, call[d].cpu)
          /\ ~Active(slots, call[d].cpu, call[d].slot)
      BY <1>0, <1>t, <2>2 DEF ClaimInv, SchedTypeOK
    <3>2. call[d].cpu # c \/ call[d].slot # s
      BY <1>5, <3>1, Zenon
    <3> QED
      BY <1>9, <3>1, <3>2, Zenon DEF Rewrites
  <2> QED
    BY <1>0, <1>6, <1>7, <2>1, <2>2 DEF ClaimInv
<1>12. PidInv'
  <2>1. \A d \in SchedCpus, u \in 1 .. TaskSlots :
          PidOf(slots', d, u) = PidOf(slots, d, u) \/ PidOf(slots', d, u) = 0
    BY <1>9 DEF Rewrites
  <2> QED
    BY <1>0, <1>6, <1>7, <2>1 DEF PidInv
<1> QED
  BY <1>10, <1>11, <1>12 DEF SlotInv

(* The two halves of the other calls keep the invariant.                   *)
LEMMA CallStep ==
  ASSUME SlotInv, NEW c \in SchedCpus,
         \/ \E p \in Pids : scheduler_set_runnable(c, p) \/ scheduler_set_blocked(c, p)
         \/ UnderQueueLock(c)
  PROVE  SlotInv'
<1>0. slots \in Tables /\ call \in [SchedCpus -> Calls]
  BY DEF SlotInv, SchedTypeOK
<1>1. ASSUME NEW p \in Pids, scheduler_set_runnable(c, p) PROVE SlotInv'
  <2> DEFINE t == Put(slots, c, p, "state", "RUNNABLE")
  <2>1. t \in Tables /\ SameTasks(slots, t)
    BY <1>0, PutState
  <2>2. slots' = Put(t, c, p, "left", Slice)
    BY <1>1 DEF scheduler_set_runnable
  <2> HIDE DEF t
  <2>3. slots' \in Tables /\ SameTasks(t, slots')
    BY <2>1, <2>2, SchedAssumption, PutLeft
  <2>4. SameTasks(slots, slots')
    BY <2>1, <2>3, SameTrans
  <2>5. Finds(c, p) /\ OnToQueue(c, p, "add")
    BY <1>1 DEF scheduler_set_runnable
  <2> QED
    BY <2>3, <2>4, <2>5, OnToQueueCall, SameKeeps
<1>2. ASSUME NEW p \in Pids, scheduler_set_blocked(c, p) PROVE SlotInv'
  <2>1. slots' \in Tables /\ SameTasks(slots, slots')
    BY <1>0, <1>2, PutState DEF scheduler_set_blocked
  <2>2. Finds(c, p) /\ OnToQueue(c, p, "drop")
    BY <1>2 DEF scheduler_set_blocked
  <2> QED
    BY <2>1, <2>2, OnToQueueCall, SameKeeps
<1>3. CASE UnderQueueLock(c)
  <2>1. /\ call[c].stage \in {"add", "drop", "retire"} /\ slots' = slots
        /\ call' = [call EXCEPT ![c] = NoCall]
    BY <1>3 DEF UnderQueueLock
  <2>2. NoCall \in Calls /\ NoCall.stage = "none" /\ NoCall.pid = 0
    BY Zenon DEF NoCall, Calls
  <2>3. \A d \in SchedCpus : call[d].stage \in {"claim", "fill"} => call[d].pid # NoCall.pid
    BY <2>2, SchedAssumption, Zenon DEF SlotInv, PidInv
  <2>4. slots' \in Tables /\ SameTasks(slots, slots')
    BY <1>0, <2>1 DEF SameTasks
  <2> QED
    BY <2>1, <2>2, <2>3, <2>4, SameKeeps, ZenonT(60)
<1> QED
  BY <1>1, <1>2, <1>3

LEMMA SlotInvExclusive == SlotInv => SlotsExclusive
<1> SUFFICES ASSUME SlotInv PROVE SlotsExclusive
  OBVIOUS
<1>1. \A c, d \in SchedCpus : \A s, u \in 1 .. TaskSlots :
        /\ slots[c].task[s].pid \in Pids
        /\ slots[c].task[s].pid = slots[d].task[u].pid
        => <<c, s>> = <<d, u>>
  BY Zenon DEF SlotInv, PidInv, PidOf
<1>2. ASSUME NEW c \in SchedCpus, call[c].stage = "fill"
      PROVE  /\ call[c].slot \in slots[call[c].cpu].taken
             /\ ~slots[call[c].cpu].task[call[c].slot].active
             /\ \A d \in SchedCpus \ {c} : call[d].stage = "fill" =>
                  <<call[d].cpu, call[d].slot>> # <<call[c].cpu, call[c].slot>>
  BY <1>2 DEF SlotInv, ClaimInv, Taken, Active
<1>3. \A c \in SchedCpus, s \in 1 .. TaskSlots : slots[c].task[s].active => s \in slots[c].taken
  BY Zenon DEF SlotInv, ClaimInv, Taken, Active
<1> QED
  BY <1>1, <1>2, <1>3, Zenon DEF SlotsExclusive

(* Whatever the order in which registrations race for the slots of a       *)
(* table, ticks interrupt calls and CPUs steal from each other, no slot    *)
(* has two owners and no process two tasks, for every number of CPUs,      *)
(* processes and slots (alloc_task_slot, free_task_slot,                   *)
(* scheduler_register_with_priority).                                      *)
THEOREM SchedulerSlots == SchedSpec => []SlotsExclusive
<1>1. SlotInv /\ [SchedNext]_schedVars => SlotInv'
  <2> SUFFICES ASSUME SlotInv, [SchedNext]_schedVars PROVE SlotInv'
    OBVIOUS
  <2>1. ASSUME NEW c \in SchedCpus, Tick(c) \/ scheduler_yield(c) PROVE SlotInv'
    BY <2>1, TickSame, SameKeeps
  <2>2. ASSUME NEW c \in SchedCpus, TaskOp(c) PROVE SlotInv'
    BY <2>1, <2>2, RegisterStep, UnregisterStep, CallStep DEF TaskOp
  <2>3. CASE UNCHANGED schedVars
    BY <2>3, Zenon DEF schedVars, SlotInv, SchedTypeOK, ClaimInv, PidInv
  <2> QED
    BY <2>1, <2>2, <2>3 DEF SchedNext
<1> QED
  BY SchedInit, <1>1, SlotInvExclusive, PTL DEF SchedSpec

-----------------------------------------------------------------------------
(* The spinlock.                                                           *)
\* Which CPUs can be where: before the secondaries are up only the boot CPU
\* runs, and it sits in its wait loop while they come up.
BootInv ==
  /\ phase = "early" => online = {}
  /\ phase # "early" => Boot \in online
  /\ phase = "waiting" => pc[Boot] = "idle"
  /\ phase = "running" => online = CPUs
  /\ \A c \in CPUs \ {Boot} : pc[c] # "idle" => c \in online /\ phase # "early"
  /\ \A c \in CPUs : pc[c] = "plain" => ~Multi
  /\ \A c \in CPUs : pc[c] \in {"take", "spin", "store"} => Multi

\* The tickets in use lie between serve and next_ticket and are distinct, the
\* holder's is the one served, and a value trylock has read is not ahead of
\* serve.
TicketInv ==
  /\ serve <= next_ticket
  /\ \A c \in CPUs : Queued(c) => serve <= reg[c] /\ reg[c] < next_ticket
  /\ \A c \in CPUs : Inside(c) /\ Multi => reg[c] = serve /\ serve < next_ticket
  /\ \A c \in CPUs : pc[c] \in {"compare", "cas"} => reg[c] <= serve
  /\ \A c, d \in CPUs : c # d /\ Multi /\ (Queued(c) \/ Inside(c))
                              /\ (Queued(d) \/ Inside(d)) => reg[c] # reg[d]

IInv == TypeOK /\ BootInv /\ TicketInv

\* In a single-core phase every CPU but the boot CPU is idle.
LEMMA SingleCore == ASSUME BootInv, ~Multi
                    PROVE  \A c \in CPUs \ {Boot} : pc[c] = "idle"
  BY Zenon DEF BootInv, Multi

\* The inductive invariant implies mutual exclusion.
LEMMA IInvMutex == IInv => MutualExclusion
<1> SUFFICES ASSUME IInv, NEW c \in CPUs, NEW d \in CPUs, Inside(c), Inside(d), c # d
             PROVE  FALSE
  BY DEF MutualExclusion
<1>1. CASE Multi
  BY <1>1, Zenon DEF IInv, TicketInv
<1>2. CASE ~Multi
  BY <1>2, SingleCore DEF IInv, Inside
<1> QED BY <1>1, <1>2

LEMMA InitIInv == Init => IInv
  BY BootAssumption DEF Init, IInv, TypeOK, BootInv, TicketInv, Multi, Queued, Inside

\* Typing is preserved by every step.
LEMMA TypeStep == TypeOK /\ [Next]_vars => TypeOK'
<1> SUFFICES ASSUME TypeOK, [Next]_vars PROVE TypeOK'
  OBVIOUS
<1> USE DEF TypeOK, lock
<1>1. CASE SmpInit
  BY <1>1, BootAssumption DEF SmpInit
<1>2. CASE BootWaitEnd
  BY <1>2 DEF BootWaitEnd
<1>3. ASSUME NEW c \in CPUs, BumpOnline(c) PROVE TypeOK'
  BY <1>3 DEF BumpOnline
<1>4. ASSUME NEW c \in CPUs, CpuStep(c) PROVE TypeOK'
  <2>1. CASE LockCheck(c)
    BY <2>1 DEF LockCheck
  <2>2. CASE LockPlain(c)
    BY <2>2 DEF LockPlain
  <2>3. CASE LockTake(c)
    BY <2>3 DEF LockTake
  <2>4. CASE LockSpin(c)
    BY <2>4 DEF LockSpin
  <2>5. CASE Unlock(c)
    BY <2>5 DEF Unlock
  <2>6. CASE UnlockStore(c)
    BY <2>6 DEF UnlockStore
  <2>7. CASE TryLoad(c)
    BY <2>7 DEF TryLoad
  <2>8. CASE TryCompare(c)
    BY <2>8 DEF TryCompare
  <2>9. CASE TryCas(c)
    BY <2>9 DEF TryCas
  <2> QED BY <1>4, <2>1, <2>2, <2>3, <2>4, <2>5, <2>6, <2>7, <2>8, <2>9, Zenon DEF CpuStep
<1>5. CASE UNCHANGED vars
  BY <1>5 DEF vars
<1> QED BY <1>1, <1>2, <1>3, <1>4, <1>5 DEF Next, SpinsOn

\* Which CPUs run is preserved when the boot wait does not time out.
LEMMA BootStep == ASSUME BootTimeout = FALSE
                  PROVE  IInv /\ [Next]_vars => BootInv'
<1> SUFFICES ASSUME IInv, [Next]_vars PROVE BootInv'
  OBVIOUS
<1> USE BootAssumption DEF IInv, TypeOK, BootInv, lock, Multi
<1>1. CASE SmpInit
  BY <1>1 DEF SmpInit
<1>2. CASE BootWaitEnd
  BY <1>2 DEF BootWaitEnd
<1>3. ASSUME NEW c \in CPUs, BumpOnline(c) PROVE BootInv'
  BY <1>3 DEF BumpOnline
<1>4. ASSUME NEW c \in CPUs, CpuStep(c) PROVE BootInv'
  <2>1. CASE LockCheck(c)
    BY <2>1 DEF LockCheck, Runs
  <2>2. CASE LockPlain(c)
    BY <2>2 DEF LockPlain
  <2>3. CASE LockTake(c)
    BY <2>3 DEF LockTake
  <2>4. CASE LockSpin(c)
    BY <2>4 DEF LockSpin
  <2>5. CASE Unlock(c)
    BY <2>5 DEF Unlock
  <2>6. CASE UnlockStore(c)
    BY <2>6 DEF UnlockStore
  <2>7. CASE TryLoad(c)
    BY <2>7 DEF TryLoad, Runs
  <2>8. CASE TryCompare(c)
    BY <2>8 DEF TryCompare
  <2>9. CASE TryCas(c)
    BY <2>9 DEF TryCas
  <2> HIDE DEF IInv, TypeOK, BootInv, lock, Multi
  <2> QED BY <1>4, <2>1, <2>2, <2>3, <2>4, <2>5, <2>6, <2>7, <2>8, <2>9 DEF CpuStep
<1>5. CASE UNCHANGED vars
  BY <1>5 DEF vars
<1> HIDE DEF IInv, TypeOK, BootInv, lock, Multi
<1> QED BY <1>1, <1>2, <1>3, <1>4, <1>5 DEF Next, SpinsOn

\* The ticket window and the distinctness of tickets are preserved.
LEMMA TicketStep == ASSUME BootTimeout = FALSE
                    PROVE  IInv /\ [Next]_vars => TicketInv'
<1> SUFFICES ASSUME IInv, [Next]_vars PROVE TicketInv'
  OBVIOUS
<1> USE BootAssumption DEF IInv, TypeOK, TicketInv, lock, Queued, Inside
<1>1. CASE SmpInit
  BY <1>1 DEF SmpInit, BootInv, Multi
<1>2. CASE BootWaitEnd
  BY <1>2, Zenon DEF BootWaitEnd, Multi
<1>3. ASSUME NEW c \in CPUs, BumpOnline(c) PROVE TicketInv'
  <2>1. \A d \in CPUs : Inside(d) => Multi
    BY <1>3, Zenon DEF BumpOnline, BootInv, Multi
  <2> QED BY <1>3, <2>1, Zenon DEF BumpOnline, BootInv
<1>4. ASSUME NEW c \in CPUs, CpuStep(c) PROVE TicketInv'
  <2>m. online' = online => (Multi' <=> Multi)
    BY DEF Multi
  <2>1. CASE LockCheck(c)
    BY <2>1, <2>m, Zenon DEF LockCheck
  <2>2. CASE LockPlain(c)
    BY <2>2, <2>m, Zenon DEF LockPlain, BootInv
  <2>3. CASE LockTake(c)
    BY <2>3, <2>m DEF LockTake, BootInv
  <2>4. CASE LockSpin(c)
    BY <2>4, <2>m DEF LockSpin
  <2>5. CASE Unlock(c)
    BY <2>5, <2>m DEF Unlock
  <2>6. CASE UnlockStore(c)
    BY <2>6, <2>m DEF UnlockStore, BootInv
  <2>7. CASE TryLoad(c)
    BY <2>7, <2>m DEF TryLoad
  <2>8. CASE TryCompare(c)
    BY <2>8, <2>m, Zenon DEF TryCompare
  <2>9. CASE TryCas(c)
    BY <2>9, <2>m DEF TryCas
  <2> HIDE DEF IInv, TypeOK, TicketInv, lock, Queued, Inside
  <2> QED BY <1>4, <2>1, <2>2, <2>3, <2>4, <2>5, <2>6, <2>7, <2>8, <2>9 DEF CpuStep
<1>5. CASE UNCHANGED vars
  BY <1>5, Zenon DEF vars, Multi
<1> HIDE DEF IInv, TypeOK, TicketInv, lock, Queued, Inside
<1> QED BY <1>1, <1>2, <1>3, <1>4, <1>5, Zenon DEF Next, SpinsOn

\* Typing holds in every reachable state, late CPUs or not.
THEOREM SpinlockTyped == Spec => []TypeOK
<1>1. Init => TypeOK
  BY InitIInv DEF IInv
<1> QED BY <1>1, TypeStep, PTL DEF Spec

\* Mutual exclusion of xaios_spin_lock, xaios_spin_trylock and
\* xaios_spin_unlock: two CPUs are never both inside, whatever the number of
\* CPUs and the interleaving, provided smp_init's wait for the secondaries
\* ended because all of them were online.
THEOREM SpinlockMutex == ASSUME BootTimeout = FALSE
                         PROVE  Spec => []MutualExclusion
<1>1. IInv /\ [Next]_vars => IInv'
  BY TypeStep, BootStep, TicketStep, Zenon DEF IInv
<1> QED BY InitIInv, <1>1, IInvMutex, PTL DEF Spec

\* First come, first served (xaios_spin_lock's ticket, spinlock.h:33-45): a
\* CPU that enters past another's back would have to be served a ticket that
\* is not the smallest waiting, or to pass trylock's compare-and-swap while a
\* ticket is out.
THEOREM SpinlockFifo == ASSUME BootTimeout = FALSE
                        PROVE  Spec => EntersInOrder
<1> DEFINE InOrder == \A c \in CPUs : pc[c] # "cs" /\ pc'[c] = "cs" =>
                        \A d \in CPUs \ {c} : Queued(d) => pc[c] = "spin" /\ reg[c] < reg[d]
<1>1. IInv /\ [Next]_vars => IInv'
  BY TypeStep, BootStep, TicketStep, Zenon DEF IInv
<1>2. IInv /\ [Next]_vars => [InOrder]_vars
  <2> SUFFICES ASSUME IInv, Next, NEW c \in CPUs, pc[c] # "cs", pc'[c] = "cs",
                      NEW d \in CPUs \ {c}, Queued(d)
               PROVE  pc[c] = "spin" /\ reg[c] < reg[d]
    OBVIOUS
  <2>t. TypeOK /\ TicketInv
    BY DEF IInv
  <2>m. Multi /\ serve <= reg[d] /\ reg[d] < next_ticket
    BY Zenon DEF IInv, BootInv, TicketInv, Queued
  <2>1. PICK e \in CPUs : CpuStep(e)
    BY Zenon DEF Next, SmpInit, BootWaitEnd, BumpOnline, SpinsOn, vars
  <2>2. e = c
    BY <2>1, <2>t, Zenon DEF CpuStep, LockCheck, LockPlain, LockTake, LockSpin, Unlock, UnlockStore,
                      TryLoad, TryCompare, TryCas, TypeOK
  <2>3. LockPlain(c) \/ LockSpin(c) \/ TryCas(c)
    BY <2>1, <2>2, <2>t, Zenon DEF CpuStep, LockCheck, LockTake, Unlock, UnlockStore,
                      TryLoad, TryCompare, TypeOK
  <2>4. CASE LockPlain(c)
    BY <2>4, <2>m DEF LockPlain, IInv, BootInv
  <2>5. CASE LockSpin(c)
    BY <2>5, <2>m, <2>t DEF LockSpin, TicketInv, Queued, TypeOK
  <2>6. CASE TryCas(c)
    BY <2>6, <2>m, <2>t DEF TryCas, TicketInv, TypeOK
  <2> QED BY <2>3, <2>4, <2>5, <2>6, Zenon
<1> QED BY InitIInv, <1>1, <1>2, PTL DEF Spec, EntersInOrder

\* Every ticket drawn and not yet served is in some CPU's hands, or was left
\* behind by an unlock of the single-core path.
HeldInv ==
  \A k \in Nat : serve <= k /\ k < next_ticket =>
    k \in unserved \/ \E d \in CPUs : (Queued(d) \/ Inside(d)) /\ reg[d] = k

\* Every step keeps the tickets accounted for.
LEMMA HeldStep == ASSUME IInv, HeldInv, [Next]_vars
                  PROVE  HeldInv'
<1>t. TypeOK /\ BootInv /\ TicketInv
  BY DEF IInv
<1> USE DEF lock
<1>1. CASE SmpInit
  BY <1>1, Zenon DEF SmpInit, HeldInv, Queued, Inside
<1>2. CASE BootWaitEnd
  BY <1>2, Zenon DEF BootWaitEnd, HeldInv, Queued, Inside
<1>3. ASSUME NEW c \in CPUs, BumpOnline(c) PROVE HeldInv'
  BY <1>3, Zenon DEF BumpOnline, HeldInv, Queued, Inside
<1>4. ASSUME NEW c \in CPUs, CpuStep(c) PROVE HeldInv'
  <2>1. CASE LockCheck(c)
    BY <2>1, <1>t DEF LockCheck, HeldInv, TypeOK, Queued, Inside
  <2>2. CASE LockPlain(c)
    BY <2>2, <1>t DEF LockPlain, HeldInv, TypeOK, Queued, Inside
  <2>3. CASE LockTake(c)
    BY <2>3, <1>t DEF LockTake, HeldInv, TypeOK, Queued, Inside
  <2>4. CASE LockSpin(c)
    BY <2>4, <1>t DEF LockSpin, HeldInv, TypeOK, Queued, Inside
  <2>5. CASE Unlock(c)
    <3>1. CASE Multi
      BY <3>1, <2>5, <1>t DEF Unlock, HeldInv, TicketInv, TypeOK, Queued, Inside
    <3>2. CASE ~Multi
      <4>1. unserved' = unserved \cup serve .. next_ticket - 1
            /\ serve' = serve /\ next_ticket' = next_ticket
        BY <3>2, <2>5 DEF Unlock
      <4> QED BY <4>1, <1>t DEF HeldInv, TypeOK
    <3> QED BY <3>1, <3>2
  <2>6. CASE UnlockStore(c)
    BY <2>6, <1>t DEF UnlockStore, HeldInv, TicketInv, BootInv, TypeOK, Queued, Inside
  <2>7. CASE TryLoad(c)
    BY <2>7, <1>t DEF TryLoad, HeldInv, TypeOK, Queued, Inside
  <2>8. CASE TryCompare(c)
    BY <2>8, <1>t DEF TryCompare, HeldInv, TypeOK, Queued, Inside
  <2>9. CASE TryCas(c)
    BY <2>9, <1>t DEF TryCas, HeldInv, TypeOK, Queued, Inside
  <2> QED BY <1>4, <2>1, <2>2, <2>3, <2>4, <2>5, <2>6, <2>7, <2>8, <2>9, Zenon DEF CpuStep
<1>5. CASE UNCHANGED vars
  BY <1>5, Zenon DEF vars, HeldInv, Queued, Inside
<1> QED BY <1>1, <1>2, <1>3, <1>4, <1>5, Zenon DEF Next, SpinsOn

\* xaios_spin_trylock fails only on a lock that is held, waited for or has just
\* changed hands, or whose due ticket an unlock of the single-core path left
\* unserved (spinlock.h:47-72), for any number of CPUs and trylocks at any time
\* of the boot: in particular a lock trylock was first used on with several
\* CPUs up is never found taken while it is free.
THEOREM SpinlockTrylock == ASSUME BootTimeout = FALSE
                           PROVE  Spec => TrylockFailsOnlyWhenHeld
<1> DEFINE Fails == \A c \in CPUs : pc[c] \in {"compare", "cas"} /\ pc'[c] = "idle" =>
                      \/ serve # reg[c]
                      \/ \E d \in CPUs \ {c} : Queued(d) \/ Inside(d)
                      \/ serve \in unserved
<1>1. Init => IInv /\ HeldInv
  BY InitIInv DEF Init, HeldInv
<1>2. IInv /\ HeldInv /\ [Next]_vars => IInv' /\ HeldInv'
  BY TypeStep, BootStep, TicketStep, HeldStep, Zenon DEF IInv
<1>3. IInv /\ HeldInv /\ [Next]_vars => [Fails]_vars
  <2> SUFFICES ASSUME IInv, HeldInv, Next, NEW c \in CPUs,
                      pc[c] \in {"compare", "cas"}, pc'[c] = "idle", serve = reg[c],
                      serve \notin unserved
               PROVE  \E d \in CPUs \ {c} : Queued(d) \/ Inside(d)
    OBVIOUS
  <2>t. TypeOK /\ TicketInv
    BY DEF IInv
  <2>1. PICK e \in CPUs : CpuStep(e)
    BY <2>t, Zenon DEF Next, SmpInit, BootWaitEnd, BumpOnline, SpinsOn, vars
  <2>2. e = c
    BY <2>1, <2>t, Zenon DEF CpuStep, LockCheck, LockPlain, LockTake, LockSpin, Unlock, UnlockStore,
                      TryLoad, TryCompare, TryCas, TypeOK
  <2>3. next_ticket # reg[c]
    BY <2>1, <2>2, <2>t, Zenon DEF CpuStep, LockCheck, LockPlain, LockTake, LockSpin, Unlock, UnlockStore,
                      TryLoad, TryCompare, TryCas, TypeOK
  <2>4. serve <= serve /\ serve < next_ticket /\ serve \in Nat
    BY <2>3, <2>t DEF TicketInv, TypeOK
  <2>5. PICK d \in CPUs : (Queued(d) \/ Inside(d)) /\ reg[d] = serve
    BY <2>4 DEF HeldInv
  <2> QED BY <2>5 DEF Queued, Inside
<1> QED BY <1>1, <1>2, <1>3, PTL DEF Spec, TrylockFailsOnlyWhenHeld

=============================================================================
