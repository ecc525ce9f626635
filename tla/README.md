# XAI OS: formal verification

TLA+ models of the XAI OS kernel (`src/kernel`) and its SSH server
(`src/userspace/sshd`), model-checked with TLC and, for the lock, memory,
scheduling, the drivers, the filesystem, the network's tables, SSH admission,
updates and services, proved with TLAPS. The models are translated from the C
source; every definition that stands for code is listed with its lines in
`PROJECT.json` (`map`), and keeps the name of the function it models where TLA+
allows it.

Contents: [parts of the system](#parts-of-the-system),
[modules](#modules-and-the-code), [runs](#what-the-runs-check),
[findings](#findings), [met on the way](#met-on-the-way),
[proofs](#what-is-proved), [limits](#limits-and-what-is-not-modelled),
[plan](#plan).

## Parts of the system

The kernel is a freestanding C program for AArch64. One CPU boots, runs the
initialisers and self-tests of `kmain.c`, and starts the other CPUs through
PSCI. The secondaries enter an idle loop and run the scheduler from their timer
interrupts. What several CPUs may enter at once is guarded by spinlocks: the
CPU table, the page allocator, the heap, the pool of socket buffers and the run
queues. The other parts take no lock and run to completion, one call at a time.

| Part | State | Operations | What is hard |
|---|---|---|---|
| Spinlock (`spinlock.h`, `smp.c`) | ticket, serve, guard; online CPUs | lock, unlock, trylock; bring-up of CPUs | two code paths chosen by a count that changes; stale register values; late CPUs; trylock before the others are up |
| Pages (`numa.c`, `pmm.c`), heap (`kheap.c`) | bitmap, hint, tracker; free list | alloc, free | wrapping scan, stale tracker entries, a full tracker; blocks the search skips |
| Scheduler (`scheduler.c`) | task tables, run queues | register, tick, yield, block, steal | races for slots, stealing between lock regions |
| Log and devices (`klog*.c`, `dev/virtio/`) | ring; descriptor rings | log, flush; submit, wait, poll | overwriting; a device that is late |
| AI cells (`ai_cell.c`) with leases, arenas, model arenas, queues, runtime slots | one table per resource | create, prepare, start, stop; register, lease, bind | six acquisitions with unwinding, reference counts |
| Inference (`cpu_ai_runtime.c`, `bpe_tokenizer.c`, batcher, preemption, speculation) | KV caches, tokenizer, batch, checkpoints | bind, decode, batch, speculate, save, restore | refusals in the middle of a piece |
| Workspaces, sandboxes, index (`git_workspace.c`, `sandbox.c`, `source_index.c`) | patch ring, builds, symbols | sync, patch, diff; build, roll back; scan | two-step operations, limits |
| Mutable filesystem (`mutable_fs.c`) | node table, bitmap, sectors, image, journal; descriptors | mkdir, write, delete, rename, commit, rollback, mount; open, read, write, close | a stop or a failed sector between any two writes; no space half-way |
| Remote access (`remote_login.c`, `sshd/`) | files, working directory, handles; connections, channels, bans | commands; SFTP requests; turns of the server loop | errors half-way, full tables, timeouts |
| TCP (`network_stack.c`, `socket_buffer.c`, socket calls) | flows, listeners, buffers, rings, sockets | poll a frame, expire, drain; listen, accept, recv, send, close | lost, reordered, repeated segments; wrapping numbers; every table full |
| Net tables (`routing.c`, `arp.c`, `ndp.c`, UDP, `rate_limit.c`) | routes, caches, flows, buckets | announce, look up, age; send, expire; consume | eviction, ageing, reuse |
| Updates (`update.c`, `persistence.c`, `security.c`) and services (`service.c`) | transaction, registry, sector; services, dumps | begin, stage, commit, recover, roll back; start, crash, restart, watchdog | one of several writes failing; rollback restoring an older record |

How they interact: arenas and heap take pages from the page allocator; an AI
cell takes one of each resource and gives all of them back; the update manager
and the supervisor keep their records in the mutable filesystem, and an update's
rollback rolls back the whole tree, the supervisor's records included;
`update_begin` and the supervisor's `update` command draw on one signature
counter; a cell's NIC queue is a binding of the network stack; sends ask the
routes and the ARP cache; a command that an SSH channel runs, an SFTP request
and a local program reach one file table.

`PROJECT.json` lists every part (`components`) with what is modelled of it or
why it is not, and the places where the code is hard to test (`hazards`).

## Modules and the code

A component's state is the VARIABLES of its module, a handler is an action that
stands for the whole handler, and a routine that only other handlers call is an
operator on the state. Handlers that run under one lock, or in a part only one
CPU runs, are one step; where the code drops a lock, writes a sector or makes a
separate memory access that others can see, a step ends. A definition that
precedes another one and has its name with a suffix, or says in its comment what
it drops, is a wrong version of it, used to show that a property notices.

Components that share no state are explored in one run: a variable (`part`,
`bound`, `use`, `load` or `menu`) is chosen in the initial state and TLC explores
the union. Each part then keeps bounds of its own, which a product would not
allow.

**`Spinlock`** (`spinlock.h`, `smp.c:50-170`). `next_ticket`, `serve`, `guard`
are the lock, `online` the CPUs counted in `g_online_count`, `phase` the boot
CPU's place in `smp_init_qemu_virt`, `pc` and `reg` each CPU's place and
register, `unserved` the tickets no unlock will serve. `LockCheck/LockPlain/LockTake/LockSpin`, `Unlock/UnlockStore` and
`TryLoad/TryCompare/TryCas` are the single accesses of `xaios_spin_lock`,
`_unlock` and `_trylock`; `SmpInit`, `BumpOnline` and `BootWaitEnd` the bring-up.
With one CPU online the lock is a plain flag, with more it is a ticket lock, and
each call decides for itself which of the two it is. `trylock` always draws a
ticket; an unlock with one CPU online does not serve it, and the ticket joins
`unserved`.

**`MCKernel`** composes six parts.
**`PageAllocator`** (`numa.c`, `pmm.c`): `bitmap`, `free_count`, `alloc_hint`
are the node, `tracked` is `g_freed_pages`, `held` and `gave` say what callers
have, `slipped` the pages of which a second free got past the tracker. `AllocPage` is the next-fit scan by words with wrap-around; a free is
`FreeCall`, `FreeCheck` (tracker), `FreeReturn` (bitmap) and `FreeMagic` (the
words written into the page, after it is free), under a lock that allocation
does not take. **`KHeap`** (`kheap.c`): the bump pointer, the mapped end and the
free list as it is linked, with the best-fit search and what its `continue`
skips. **`Scheduler`** (`scheduler.c`): tables whose slots are claimed by
compare-and-swap, run queues, and the calls split where the code leaves a lock;
a steal takes from the victim and places on the thief in two steps.
**`KlogRing`** (`klog.c`, `klog_ring.c`): line buffer, ring, flush.
**`VirtioBlk`**, **`VirtioNet`** (`dev/virtio/`): the drivers' waits and rings
against a device that takes, serves and uses requests in steps of its own.

**`FileStore`** is what the mutable filesystem promises: a tree, a snapshot of
it, write, mkdir, delete, rename, commit and rollback, the last two path by path
and possibly stopping half-way. **`MutableFs`** (`mutable_fs.c`) is the
implementation: node table and block bitmap in memory; data sectors, metadata
image and journal on disk. Commit and rollback are a step per node, a crash can
come between any two steps, also between the sectors of one image (`Torn`). A
mount that fails in `replay_journal` or `create_dir` leaves the mode "astray".
**`MutableFsStore`** has the refinement mapping: `Store == INSTANCE FileStore
WITH` the trees read through nodes, blocks and sectors. `names` records whether
paths still tell entries apart: a rename takes the snapshot half of its entry
along, so one onto a path that only a snapshot holds gives two entries one path,
and from then on `FileStore` is "lost" and promises nothing about the tree.

**`MCRemoteAccess`** composes what a remote user reaches. **`FileApi`** is
`mutable_fs.c` above its commit point: the same calls as single steps on the
tree and the table of open files. **`RemoteShell`** (`remote_login.c`) has every
command that touches files; a command is one step in which the calls happen in
the order of the code and any write may be refused. **`SftpServer`**
(`sftp_server.c`) adds the handles, **`Sshd`** (`sshd.c`, `ssh_connection.c`,
`ssh_channel.c`) the server loop: a step is one turn of one connection, and the
clock is kept as what the timeouts compare. `session` is the channel whose SFTP
session has the loop; `failed` counts the failures of every address, also of
those the table of failures has no room for.

**`NetworkStack`** (TCP half of `network_stack.c`, `socket_buffer.c`, socket
calls of `syscall.c:722-932`). The stack is one record `net` (flows, listeners,
rings, counters), the sockets are `socks`. `network_poll_tick` takes one frame
through descriptor, ring, protocol and drain. The peers may send any segment of
their streams at any time, again, or never. `got` and `sent` record what the
application and the peers received, `told` how much of its answer the application
was told is sent.

**`NetTables`** composes the tables around it over one clock (**`Timer`**):
**`Routing`** and **`Arp`** (an address is the set of its one bits; `told` is
the MAC each address announced last), **`UdpFlows`** with the buffer pool,
**`Ndp`** and **`RateLimit`** (with the width of its products).

**`UpdateManager`** (`update.c`, `persistence.c:131-320`, `security.c:347-428`)
and **`ServiceManager`** (`service.c`) use the filesystem through `FileStore`'s
entries: each call is the set of its outcomes, a failing device included.
The last part of `ServiceManager` composes them: one tree, one signature counter, and an undo
of an update (`update_rollback`, `update_recover_boot`) that also restores the
supervisor's record.

**`MCCellServices`** composes what AI cells use. **`AiCell`** (`ai_cell.c`,
`core_lease.c`, `smp.c:175-223`, `arena.c`, `model_arena.c`, binding of
`cpu_ai_runtime.c` and `network_stack.c`): the tables of all managers are one
record `res`; an operation of a manager maps it to a new record, and
`ai_cell_prepare` chains them in the code's order with the code's unwinding. A
failing `kassert` sets `panic`. **`Decoding`** (`cpu_ai_runtime.c`,
`bpe_tokenizer.c`, `inference_batcher.c`) and **`Speculation`**
(`speculative_decoding.c`, `inference_preempt.c`): tokens, KV caches, batches,
draft and target cells, checkpoints. **`GitWorkspace`**, **`Sandbox`**,
**`SourceIndex`** are the files of those names (a source is the sequence of what
the scanner finds in it); **`Persistence`**
(`persistence.c`) is the self-test of every boot around its one sector, with the
power going at any point.

The theorems are in **`KernelProofs`** (lock, scheduler, block driver),
**`MemoryProofs`** (pages, heap, network driver), **`ServiceProofs`** (SSH
server, updates and services), **`NetTablesProofs`** (routes, ARP, UDP),
**`NetLimitsProofs`** (neighbours, rate limits), **`MutableFsInvariant`** (the
filesystem's invariant and its lemmas), **`MutableFsProofs`** (what follows from
it) and **`MutableFsRefinement`**.
**`MC...`** modules fix constants for TLC and compose parts that share nothing.

## What the runs check

Eight runs pass and four show a violation. Sizes are distinct states.

| Run | States | Properties | Bounds, and why they are enough |
|---|---|---|---|
| `spinlock` | 17 k | `MutualExclusion`, `EntersInOrder`, `TrylockFailsOnlyWhenHeld`, `QueuedEnters` | 3 CPUs, tickets below 5: one CPU holds, two queue, and trylock comes in between, from the boot on; a value read can be stale by two hand-overs. |
| `kernel` | 763 k | `OneOwner`, `CountIsExact`, `AllocFailsOnlyWhenEmpty`, `BlocksDisjoint`, `SlotsExclusive`, `DevicesFaithful` | Pages: 2 CPUs, 6 frames in words of 2 bits, one frame reserved, one in a hole, one beyond the bitmap, so words can be empty, the hint can point past the end and the scan wraps; the tracker holds one page, so it fills and a second free can slip past it. Heap: 3 pages of 4 headers, sizes and alignments 1, 2, 4, so the search skips blocks. Tasks: 2 CPUs, tables of two, queues of one that fill up, slices of one tick, 2 processes of different priority: races for the last slot, and a steal that races a call (`scheduler_turns` has queues and slices of two). Log: a ring of 4 bytes. Disk: indices that wrap at 4. NIC: 3 receive buffers. |
| `mutable_fs` | 278 k | `VolumeConsistent`, `ImageReadable`, `OkIsOnDisk`, `ImplementsFileStore` | 3 nodes, 3 blocks, and five uses: a directory and a file in it with a crash at every step, so that live file, snapshot and a write in progress fill the volume (`Stopping`); files of two sectors, and a directory with a file, with a transfer that fails at any place, every error path with space short by one (`Failing`, `Nesting`); renames to a path that is also written and deleted, and of a directory into itself (`Moving`); a rename whose metadata may not reach the disk (`Renaming`). Nodes and blocks are symmetric. |
| `network_stack` | 437 k | `StreamInOrder`, `TablesExact`, `FinAfterData` | an IPv4 peer with three bytes and a number space of 16 that wraps inside them, an IPv6 peer that competes; 2 slots, 3 buffers of 2 bytes, 1 half-open, 1 backlog entry, 1 out-of-order entry: every table can be full. |
| `net_tables` | 486 k | `ResolvesToNextHop`, `BufferIsOwn`, `NeighboursFresh`, `AdmittedWithinRate` | addresses of two bits, 2 route and 2 cache slots for 3 hosts, so that caches evict; 2 flows, 3 buffers of 2 datagrams; 2 limits whose products reach the word of 16; three readings of the clock, each timeout shorter. |
| `remote_access` | 128 k | `DescriptorsOwned`, `FilesFaithful`, `ServesProvedUsers`, `AdmissionExact`, `HandshakeEnds` | four menus of commands on 7 paths and 4 nodes, files limited to 1, 4, 13 or 2 words, 2 descriptors and 2 handles, up to the second write of a command refused; and 2 connections from 2 addresses with one entry for failures, so that it is full for the second address, a limit of two, one channel, which may run an SFTP session. |
| `control_plane` | 1.07 M | `RecordsMatch`, `UpdatesOrdered`, `SnapshotKnowsTransaction`, `RestartsAccounted`, `WatchdogLeavesNoneLate` | see below |
| `cell_services` | 206 k | `AllOrNothing`, `AccountsExact`, `TokensSpellText`, `InferenceStateKept`, `SpeculationIsTarget`, `WorkspaceFaithful`, `BuildsKeepBounds`, `OneBootPerTear`, `IndexIsScans` | Cells 0, 1, 4 (0 and 4 share arena ids, 4 has no runtime slot), another lease owner, 3 CPUs, 2 queues, 2 workspaces, 8 pages, six manifests and three models, one with a tokenizer that does not load: each of the six resources can be the one refused. Inference: 6 models, texts of up to five bytes for byte pairs, some with a byte that has no token, caches of 2 to 5 tokens that fill up in the middle. Workspaces: a stack of 3 that wraps; every pair of texts of up to three lines. Sandboxes: four programs that meet each limit. Persistence: four sectors a first boot may find. Index: three sources, 5 symbols at most. |

`control_plane` chooses `bound` from five slices (`MCBounds`): the life of one
service (three starts, three crashes and a dump ring of two, so that budget and
ring wrap; for either service, the child's with a device fault), both services
together (one watchdog pass finds both late), updates alone (three signatures,
two chunks, one fault), and updates while the child starts, stops and crashes
(one of each, one fault). `MaxSnapshots` is 7, with the five slots the boot
takes, so that the third transaction finds the registry full; in the code it is
8 and the fourth.

What they show, beyond the names: the passing runs take the code as it is, with
the behaviour the findings are about. `ImageReadable` says exactly when a crash
can lose contents: never through `write_file`, and through commit or rollback
only in the half (`exposed`) whose blocks they reuse before the new image is
written. `AllOrNothing` says that the unwinding in `ai_cell_prepare` is right
whichever resource is refused. `StreamInOrder` holds for every order, loss and
repetition as long as a FIN carries no data (`FinCarriesData = FALSE`); one that
overtakes data loses the bytes in front of it, but nothing is delivered behind
the gap. `TransfersHappen` (part of `DevicesFaithful`) holds from an
initialization to the first wait that ends without the device.
`SpeculationIsTarget` says that speculation never changes what the target model
would have said. `TokensSpellText` compares the loop of `ai_bpe_tokenize`, which
searches for the best pair after every merge, with applying the rules one after
the other, over every text of up to five bytes, with the vocabulary loaded last;
the tokens spell the text if each of its bytes has an entry.

**Fairness.** Two runs check a liveness property. `spinlock`: `LiveSpec` is
weakly fair in a spinning CPU's poll and in the holder's unlock: a spinning CPU
executes its loop, and critical sections are finite code without blocking calls;
no fairness is assumed of new lock calls. `remote_access`: strongly
fair in the timeout of each connection, which SFTP sessions interrupt, and weakly
in its ageing, because between sessions `sshd_run` comes round to every slot, and
the clock never stops; nothing is assumed of clients, and `HandshakeEnds` is
promised to a client only if no session keeps the loop for good.
`SpinsOn` in `Spinlock` is the one stuttering action: CPUs that spin behind a
ticket nobody serves, or rest at the ticket bound, are no deadlock of the model.

**Deadlock** is checked in every run but two, where the system really stops:
`cell_services` (a rolled-back sandbox, a full index and a cell that was stopped
take no further call) and `nic_tx_reuse` (bounded frames).

## Findings

Each is a run in which TLC finds the property violated by what the code does.

1. `mutable_fs_remount` (`mutable_fs.c:322`): the checksum is computed over a
   zero field and verified over the stored one, because the offset that is
   zeroed (72) is not the checksum's (80). No mount accepts what an earlier boot
   wrote; each formats the volume and never reads the journal. In the model this
   makes the loading branch unreachable, `validate_disk` still has it.
2. `network_fin_data` (`network_stack.c:1982`): a FIN on a segment with data
   moves the expected number past bytes that were never delivered, against
   "Deliver in-order once gap fills" (`SPEC-PLAN.md:56`).
3. `scheduler_turns` (`scheduler.c:551`): a process the scheduler has switched to
   is RUNNING, and the next tick replaces any current task that is not RUNNABLE
   without queueing it: it is in no queue and never runs again by itself.
4. `nic_tx_reuse` (`virtio_net.c:273`): the wait before a transmit buffer is used
   again is about a counter that only moves when the driver waited, not about
   the buffer; a device that falls behind sends the contents of a later frame.

## Met on the way

Behaviour of the models that is not stated as a violation, mostly because no
document of the repository says otherwise. Where one does, and a property makes an
exception for what the code does, the line is quoted.

*Lock, memory, scheduler*
* With a timed-out boot wait (`BootTimeout = TRUE`) one CPU can take the plain
  path and another the ticket path of the same lock.
* An unlock with one CPU online does not serve the ticket trylock drew
  (`spinlock.h:50`), and every later trylock fails on a lock nobody holds, against
  "Returns 1 on success, 0 if already held" (`spinlock.h:56`); a CPU that locks
  waits for good. `klog.c:119` does this from its first line on, so that later
  lines are dropped. `TrylockFailsOnlyWhenHeld` and `QueuedEnters` except such
  tickets.
* A tracker entry outlives the next allocation of its page, so a second lawful
  free is rejected as a double free and the page is lost (`pmm.c:96-118`); "Reject
  double-free" (`pmm.c:104`) holds for the first 64 pages freed only
  (`PMM_MAX_FREED_TRACK`): a stale free of a later one can free a page in use, and
  `OneOwner` excepts it; the magic words are written after the page is free, into
  whoever has it by then.
* A block that `kheap_alloc` skips for its alignment drops out of the free list
  when a later one is unlinked (`kheap.c:81`); a page that cannot be mapped
  leaves the ones before it mapped (`kheap.c:46`).
* Between the two halves of a steal the process can be blocked, unregistered or
  queued again, so a pid can be in two queues or in one without being runnable;
  registration may place a task on another CPU, while `scheduler_set_runnable`
  looks only at its own (`scheduler.c:435`); `alloc_task_slot` goes on with the
  next bit after it lost a race, so it can refuse with a slot free.

*Log and devices*
* `klog_flush` opens the file without appending, so `kern.log` holds only the
  last chunk, and a failed flush loses its bytes (`klog_ring.c:121`).
* `virtio_transport_wait_used` compares 16-bit indices with `>=`; after a
  transfer that timed out a late device writes into the next one's memory.
  Receive buffers of refused frames are not made available again.

*Files and remote access*
* After a failed operation `create_dir` answers OK for a directory that is only
  in memory, without writing, which is why `OkIsOnDisk` is about operations that
  change the tables. A rename takes the snapshot half of its entry along, so a
  rollback brings the file back under its new name; `FileStore` says so too. A
  rename onto a path that only a snapshot holds gives two entries one path
  (`mutable_fs.c:1030` looks for live entries only), and a rollback can bring both
  back; `VolumeConsistent` asks for distinct paths until that has happened, and
  for closed trees until the snapshot may lack a directory: after a rename of an
  entry it holds or of a directory below itself, or a commit that stopped
  (`Watch`).
* A persistent mount that fails in `replay_journal` or `create_dir` answers an
  error with `g_mounted` set and the disk closed (`mutable_fs.c:1713-1731`);
  `kmain.c` goes on, and later calls go to the boot disk. The model promises
  nothing from there to the next boot (mode "astray").
* `mutable_fs_open` truncates before it finds the descriptor table full
  (`mutable_fs.c:1557`), and `fsck` counts snapshot blocks as errors (`:1751`).
* `cp f f` empties f and answers OK; `touch` truncates; `sed` adds a newline each
  time; `tail` counts the final newline as a line; the shared working directory
  may name a directory that is gone.
* An address that first fails when the table of failures is full is never entered
  (`sshd.c:489`) and never banned, against "10 failures = 1hr ban"
  (`PROJECT-TRACKER.md:200`); `AdmissionExact` excepts it. The loop stands still
  while an SFTP session waits for its client (`sftp_server.c:645-653`): nobody is
  accepted, served or timed out.
* The SFTP server swaps the halves of an offset (`sftp_server.c:268`), gives out
  a handle when no file could be opened, and keeps handles when a session ends.
  Channels stay open when their connection closes and are found by the client's
  number across connections; a re-key does not reset the time a connection is
  judged by.

*Network*
* A TCP slot never becomes FREE again: after 16 connections
  (`NETWORK_TCP_CONNECTIONS`) every SYN is refused until reboot. Frames for a
  flow in FIN_WAIT or LAST_ACK are dropped (`network_stack.c:1976`), so TIME_WAIT
  is unreachable; a connection whose backlog is full, or that NET_ACCEPT takes
  from the backlog without finding a socket (`syscall.c:809`), stays ESTABLISHED
  and is never accepted.
* A poll without a frame returns before `tcp_drain_pending`
  (`network_stack.c:3104`), so what an application has written waits for the next
  frame of anybody, and nothing in the kernel calls `network_poll_tick` yet. No
  fairness of it is justified, so there is no liveness property of the stack.
* NET_SEND answers OK with all bytes written when `network_stack_tcp_send` fails
  (`syscall.c:901-904`, "claim all sent for backward compat"): a flow without a
  buffer, or one the peer has reset, loses the answer silently. `FinAfterData` is
  about the bytes the stack took.
* A TCP flow resolves its peer's MAC once and keeps it (`network_stack.c:1505-1523`);
  `ResolvesToNextHop` is about the answer of `tcp_resolve_mac`, which UDP asks for
  every datagram.
* The boot self-test leaves a UDP flow and two TCP flows of the machine's own
  address behind, and `network_init_persistent` then empties the buffer pool under
  them (`network_stack.c:2868-2939`, `:3085`). `UdpFlows` starts with its flow,
  which shares its buffer with a later one and which `BufferIsOwn` excepts;
  `NetworkStack` starts without the two.
* Expired UDP flows keep their buffer (`network_stack.c:2383`); the IPv6 peers
  of one port share a flow; `routing_remove` may take the default route.
* An advertisement marks a copy of the state of duplicate address detection
  while `ndp_dad_tick` reads the caller's, so a duplicate is never reported
  (`ndp.c:525`); no probe of a neighbour is ever sent or counted, so PROBE is
  left only by an announcement or by eviction.

*Cells, updates and services*
* A model whose BPE tokenizer does not load leaves its runtime cell BOUND without
  a reference (`cpu_ai_runtime.c:541-571`); `RefsExact` allows it for the image of
  a FAILED cell only. A cell whose arenas are refused half-way keeps the pages of
  the ones it made out of the reserved total (`ai_cell.c:251-255`, `:285-311`);
  from then on the total is a lower bound. STOPPED and
  FAILED cells never become EMPTY again: five cells per boot. The tables of the
  byte-pair tokenizer are global, so the last model bound serves every cell; a
  byte without an entry becomes token 0 (`bpe_tokenizer.c:181-183`). A batch executed twice records its tokens twice.
* A sync to the current revision answers OK and leaves a FAILED workspace FAILED;
  the diff of the agent protocol compares a payload with itself; symbols of older
  revisions stay in the index.
* The snapshot registry reaches the disk only in the boot's self-test, so later
  snapshots do not; a torn sector makes one boot panic (`persistence.c:271-276`
  against `:408`), which has replaced the sector by then.
* Every chunk of an update is written at the beginning of the staging file while
  the hash runs on over all of them (`update.c:331`), so from the second chunk on
  the verified payload is not the staged one. The boot's self-test begins an update
  with a signature it has used before (`update.c:558`, `:575`), which
  `security.c:363` refuses as a replay. `update_begin` resets neither byte
  counts nor hash context (`update.c:323`); a record that fails behind a
  successful rollback leaves a transaction no call accepts (`update.c:259`);
  `g_update` is lost at a restart, so `update_recover_boot` never has anything to
  recover; the supervisor's backoff is computed and then set to 0
  (`service.c:563`).

## What is proved

TLAPS checks every step, and the theorems hold for every value of the constants
under the named assumptions (`ASSUME` in the module that declares the constants;
they say what kind of number or set a constant is, and TLC evaluates them). A
theorem whose statement has a property of a run shows for every size what the
run shows on a small instance.

| Theorem | Statement | Assumptions beyond kinds |
|---|---|---|
| `SpinlockTyped` | `Spec => []TypeOK` | none |
| `SpinlockMutex`, `SpinlockFifo` | `MutualExclusion`, `EntersInOrder` | `BootTimeout = FALSE`: no secondary comes online after the boot wait |
| `SpinlockTrylock` | `TrylockFailsOnlyWhenHeld` | the same |
| `SchedulerSlots` | `SlotsExclusive` | none |
| `PageAllocatorTyped`, `FreeCountExact`, `AllocFindsFreePage` | typing, `CountIsExact`, `AllocFailsOnlyWhenEmpty`, stale frees included | none |
| `PageHasOneOwner` | `OneOwner`: of pages that have not slipped past the tracker | none: any stale frees |
| `SlipsOnlyPastFullTracker` | a page slips only with stale frees and a full tracker | none |
| `HeapBlocksDisjoint` | `BlocksDisjoint` | none |
| `BlockTransfersHappen`, `ReceiveBuffersHeld` | two of the three parts of `DevicesFaithful` | none |
| `SshServesProvedUsers`, `SshAdmissionExact` | `ServesProvedUsers`, `AdmissionExact` | a limit of at least two failures |
| `ControlPlaneRecords`, `-Updates`, `-Snapshot`, `-Restarts`, `-Watchdog` | the five properties of `control_plane` | none: any faults, services, limits, registry size |
| `InvariantHolds`, `VolumeStaysConsistent`, `ImageStaysReadable`, `AnsweredOkIsOnDisk` | the filesystem's invariant, `VolumeConsistent`, `ImageReadable`, `OkIsOnDisk` | `PathsAssumption`: the paths are a tree |
| `FileSystemImplementsStore` | `ImplementsFileStore` | the same |
| `LookupIsNextHop`, `ResolutionIsNextHop` | the loop of `routing_lookup`; `ResolvesToNextHop` | finitely many address bits |
| `FlowBuffersOwn`, `NeighboursStayFresh`, `BucketsWithinRate` | `BufferIsOwn`, `NeighboursFresh`, `AdmittedWithinRate` | none |

None of the properties is inductive as it stands. What each argument adds:

*Spinlock.* Mutual exclusion says nothing about the CPUs on their way in. `IInv`
adds `BootInv` (while only the boot CPU counts as online no other CPU is in the
lock's code, so the plain and the ticket path are never mixed) and `TicketInv`
(tickets in use lie between `serve` and `next_ticket` and are distinct; who is
inside has the one served; what trylock has read is not ahead of `serve`). In the
ticket path two CPUs inside would have the same ticket, and the one served is
the smallest, which is also the order of entry. For trylock `HeldInv` adds that
a ticket which is drawn and not served is some CPU's or in `unserved`.

*Scheduler.* A slot is claimed, filled and made active in separate steps.
`ClaimInv` says that a slot being filled is claimed, by one call, and holds no
task yet, and that only claimed slots hold tasks; `PidInv` that a process has one
task or one call making it. Ticks and steals change neither (`SameTasks`).

*Pages.* A page on its way back, between the caller's call and `FreeReturn`, is
nobody's: `ComingInv` says that it is not free, held by nobody and returned by
one CPU, unless it slipped past the tracker. `RoomInv`: while the tracker has room
a page given up once is in it or about to be searched for, under the lock that
only frees take, and none has slipped. `AllocFindsFreePage` is about the scan: the words it looks at, with
wrap-around, are all words.

*Heap.* `BlockInv` orders headers and blocks below the bump pointer; `LendInv`
says that a block on the free list is on it once and not in use. Blocks that the
search drops by mistake stay disjoint from all others.

*Drivers.* `InStep` gives the place of the request in the ring at each point of
`transfer_sector`, as long as no wait has ended without the device; the index
arithmetic is modulo any width. `RxPlaces` and `RxCount` put every receive buffer
in one place: posted, held by the device, used, or lost to a refused frame.

*SSH server.* `ConnOK` is per slot (keys in use from authentication on, a proved
user from then on), `PoolInv` has the count as a cardinality, `LimitOK` says that
the last failure allowed starts a ban, and `TallyOK` that the table counts every
failure of an address it knows, and that one it does not know has none or first
failed when the table was full (entries are never given back).

*Updates and services.* `UpdateInv`: a transaction's rollback point is the last
entry of the registry and its number is its place (so `persistence_rollback`,
which takes the newest of its kind, finds it); every generation accepted is at
most `last_generation`; the record of a transaction is in the tree and, once
staged, in the snapshot. `ServiceInv`: restarts granted are at most the attempts
counted and the limit, and slot k of the dump ring holds the newest crash with
that remainder. The calls of the filesystem are outcomes of `FileStore`'s
entries, and a lemma per call says which paths each outcome can change (`But`).
One pass of the watchdog reports any number of crashes at once, so the ring is
treated for any sequence appended (`RingGrows`).

*Filesystem.* `Inv` has four parts. `TypeInv`: every block in the bitmap belongs
to one half of one entry and holds that half's contents. `PhaseInv`: the entries
a commit or rollback has passed have equal halves. `TreeInv`: paths are distinct
and both trees closed, as far as `names` says. `ImageInv`: a half of the image
that is not exposed is readable, and lists the same blocks as memory, which is
why new data never lands in a block of the image. `TablesReplace` is the lemma
behind every operation: an entry that gives its blocks back and takes free ones
keeps the tables. For the refinement each operation is shown to be a step of
`FileStore` or a stutter, the failing ones and the stops included; commit and
rollback node by node.

*Routes, ARP, UDP.* `routing_lookup` is a loop; `Scan` is the recursive function
over its turns, and its result is found by a least counterexample (`LeastNat`)
instead of the library's induction. `ArpOK` says that an active entry has the MAC
its address announced last and that addresses are distinct; `FlowsOK`, `PoolOK`
that active flows have different buffers, each in use, holding one peer's
datagrams.

*Neighbours and limits.* `EntryOK`: the MAC announced last, and a REACHABLE entry
is younger than the reachable time at the last tick. `Earned` is the bound on
what a bucket admitted, in terms of the refill made so far: the product that
wraps and the division only ever lose tokens.

Only model-checked, and why:

* Liveness under fairness: `QueuedEnters`, `HandshakeEnds`. Out of the prover's
  reach, like ENABLED.
* `RingIsTail`, the log's part of `DevicesFaithful`: the write is a fold over the
  line.
* `StreamInOrder`, `TablesExact`, `FinAfterData` of the network stack, and
  `DescriptorsOwned`, `FilesFaithful` of the shell and SFTP: the handlers chain
  many folds over tables, for which the prover needs the induction over data it
  does not have.
* The nine properties of `cell_services`: the tokenizer, the diff and the
  builds are RECURSIVE operators compared with a reference, which the prover
  cannot load; the cells' accounts are sums over tables.

## Limits and what is not modelled

* Data is abstracted: a file's content hash is its contents, a SHA-256 digest
  or an FNV checksum the bytes it was computed from (collisions are left out), a
  page its frame index, a path a model value or the sequence of its names, a
  text a sequence of words or lines. Wording, formatting, logging and counters
  that nothing reads are left out.
* Memory is sequentially consistent; the acquire and release orders of the
  atomics in `spinlock.h` and of the drivers' barriers are taken to be
  sufficient.
* Parts that one run explores side by side do not interact in it. Where they do
  in the code, the interaction is in a module: commands of SSH channels in
  `MCRemoteAccess`, UDP sends over routes and ARP in `UdpFlows`, updates and
  services in `ServiceManager`, cells and their managers in `AiCell`.
* `MutableFs` takes any free block or node where the code takes the first: more
  behaviours, never fewer.
* `Scheduler` takes a lock region as one step, so a timer interrupt inside one
  (`scheduler.c:466`), which would wait for a lock of its own CPU, is not in it.
* `NetworkStack` leaves out header parsing and checksums, and the congestion,
  retransmission and keepalive branches, which never run: the fields they test
  (`in_flight`, `last_tx_ns`, `keepalive_last_tx_ns`) are never set.
* `Sshd` leaves out ciphers, packet layout and channel windows; `SftpServer` the
  requests that only answer (readdir, stat).
* `UpdateManager` has no restart: `g_update` lives in memory only.
* User processes, the ELF loader, address spaces and the dispatch of their system
  calls are not modelled: `elf_loader_map_stack` maps the stack at
  `USER_STACK_TOP`, outside the table entry reserved for user space, and is
  refused, so no process is ever loaded and there are no reachable states to
  check.
* Without callers, and so without states the program can be in: the DNS resolver,
  the paged KV cache (whose append always fails), model parallelism, IPv4
  fragmentation. The batcher, preemption, speculative decoding, the patch
  operations of `git_workspace.c`, all of `sandbox.c` and `source_index.c`, and the
  watchdog of `service.c` (`service_watchdog_check`, `service_heartbeat`) have no
  caller but their self-tests either; they are modelled as the interface they
  offer, with any order of calls.
* Nothing to check with TLC: the boot loader and `kmain.c`'s fixed sequence,
  register programming (GIC, timer, PCI, IOMMU), numeric kernels and cryptography
  (pure computation), the x86_64 bring-up, output (panic, telemetry), the agent
  protocol's framing, build and test scripts. The self-tests inside the modelled
  files are read as evidence, not modelled, except `persistence_self_test`, which
  is the only user of its sector.

## Plan

Proofs: leases and arenas of `AiCell` with any cells and cores, and the tables of
`NetworkStack`, once their folds are recursive functions over the slots; an
abstract mutex that `Spinlock` implements, for the users of locks; an abstract
page allocator that `PageAllocator` implements, with `KHeap` over it.

Models: processes and their address spaces once a process can be loaded; channel
windows of the SSH daemon; interrupts inside a lock region of the scheduler.
