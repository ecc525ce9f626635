--------------------------- MODULE UpdateManager ---------------------------
(***************************************************************************)
(* Update transactions (runtime/update.c) with what they stand on: the     *)
(* snapshot registry (runtime/persistence.c), the generation of signed     *)
(* updates (runtime/security.c) and the tree of the mutable filesystem.    *)
(*                                                                         *)
(* The filesystem is used through its promise, FileStore: a write happens  *)
(* or not, a commit copies the live tree to the snapshot and a rollback    *)
(* copies it back, and either may stop half-way.  All calls come from one  *)
(* thread of control, so a handler is one step.  Rejected calls only count *)
(* and are left out.  A SHA-256 digest is modelled by the bytes it was     *)
(* computed from: different payloads have different digests.               *)
(***************************************************************************)
EXTENDS Integers, Sequences

CONSTANTS Chunks,        \* the chunks a sender delivers: sequences of bytes
          Sizes,         \* the payload sizes of manifests
          Generations,   \* the generations callers give to transactions
          Signatures,    \* the generations of signatures
          MaxSnapshots,  \* MAX_SNAPSHOTS
          Bounds         \* the bounds to explore; see "bound"

ASSUME UpdateAssumption ==
  /\ Signatures \subseteq Nat /\ MaxSnapshots \in Nat
  /\ Chunks \subseteq Seq(Nat)

VARIABLES fs,            \* the filesystem: live and snap, and faults so far
          tx,            \* g_update
          delivery,      \* g_delivery, g_chunk_hash_ctx, g_chunk_staging_active
          snapshots,     \* g_snapshots, in the order of creation
          last_generation,  \* g_last_update_generation
          clean,         \* history: the last call that changed tx succeeded
          point,         \* history: the snapshot made for the transaction
          accepted,      \* history: the signature generations accepted
          bound          \* one of Bounds, chosen at the start: how many device
                         \* faults, signatures and bytes received between two
                         \* inits (and starts, crashes: see ServiceManager)

updateVars == <<fs, tx, delivery, snapshots, last_generation, clean, point, accepted, bound>>

UpdateDir     == "/update"
StagingPath   == "/update/staging.bin"
UpdateRecord  == "/state/updates/update.state"
ServiceRecord == "/state/services/source-index.state"
Paths         == {UpdateDir, StagingPath, UpdateRecord, ServiceRecord}
ParentOf      == [p \in Paths |-> IF p = StagingPath THEN UpdateDir ELSE "/"]

FS == INSTANCE FileStore WITH
        live <- fs.live, snap <- fs.snap, busy <- "no",
        Root <- "/", Parent <- ParentOf, Contents <- {},
        Below <- [p \in Paths |-> IF p = UpdateDir THEN {StagingPath} ELSE {}]

(***************************************************************************)
(* The filesystem calls: a call on state f is the set of its outcomes.     *)
(***************************************************************************)
Outcomes(f, good, bad) ==
  {[ok |-> TRUE, fs |-> good]} \cup
  {[ok |-> FALSE, fs |-> [g EXCEPT !.faults = @ + 1]] :
     g \in IF f.faults < bound.faults THEN bad ELSE {}}

(* A copy that stops half-way: some paths are copied, one file may be left *)
(* without its contents.                                                   *)
Partly(from, to) ==
  {[p \in Paths |-> IF p \in copied THEN from[p]
                    ELSE IF {p} = broken THEN FS!Broken ELSE to[p]] :
     copied \in SUBSET Paths,
     broken \in {{}} \cup {{p} : p \in Paths \ {UpdateDir}}}

write_file(f, p, content) ==
  IF ParentOf[p] = "/" \/ f.live[ParentOf[p]] = FS!Dir
  THEN Outcomes(f, [f EXCEPT !.live[p] = FS!File(content)], {f})
  ELSE {[ok |-> FALSE, fs |-> f]}

mutable_fs_mkdir(f, p) ==
  IF f.live[p] = FS!Absent
  THEN Outcomes(f, [f EXCEPT !.live[p] = FS!Dir], {f})
  ELSE {[ok |-> FALSE, fs |-> f]}

mutable_fs_commit(f) ==
  Outcomes(f, [f EXCEPT !.snap = f.live],
           {[f EXCEPT !.snap = t] : t \in Partly(f.live, f.snap)})

mutable_fs_rollback(f) ==
  Outcomes(f, [f EXCEPT !.live = f.snap],
           {[f EXCEPT !.live = t] : t \in Partly(f.snap, f.live)})

(* The next call is made only if this one returned OK.                     *)
OrFailed(outcome, next) == IF outcome.ok THEN next ELSE {outcome}

(***************************************************************************)
(* The snapshot registry.  Slots are taken in order and never given back,  *)
(* the generation counts the snapshots.  A rollback only looks one up.     *)
(***************************************************************************)
Snapshot(kind, owner) ==
  [kind |-> kind, owner |-> owner, generation |-> Len(snapshots) + 1]

persistence_snapshot_create(kind, owner) ==
  IF Len(snapshots) < MaxSnapshots THEN Append(snapshots, Snapshot(kind, owner)) ELSE snapshots

(* Mutant: the oldest snapshot is found, not the newest.                   *)
find_snapshot_Oldest(kind, owner) ==
  {i \in DOMAIN snapshots :
     /\ snapshots[i].kind = kind /\ snapshots[i].owner = owner
     /\ \A j \in DOMAIN snapshots :
          snapshots[j].kind = kind /\ snapshots[j].owner = owner
            => snapshots[j].generation >= snapshots[i].generation}

find_snapshot(kind, owner) ==
  {i \in DOMAIN snapshots :
     /\ snapshots[i].kind = kind /\ snapshots[i].owner = owner
     /\ \A j \in DOMAIN snapshots :
          snapshots[j].kind = kind /\ snapshots[j].owner = owner
            => snapshots[j].generation <= snapshots[i].generation}

(***************************************************************************)
(* A signature carries a generation; one that is not newer than the last   *)
(* accepted one is a replay.  Accepting it uses the generation up.         *)
(***************************************************************************)
UseGeneration(generation) ==
  /\ Len(accepted) < bound.signatures
  /\ last_generation' = generation /\ accepted' = Append(accepted, generation)

security_authorize_update_signature(generation) ==
  generation > last_generation /\ UseGeneration(generation)

(***************************************************************************)
(* Transactions.                                                           *)
(***************************************************************************)
Idle == [active |-> FALSE, generation |-> 0, state |-> "idle"]

persist_update_state(f, t) ==
  write_file(f, UpdateRecord, <<t.generation, t.state>>)

NoDelivery == [received |-> 0, expected |-> 0, verified |-> FALSE,
               staging |-> FALSE, hashed |-> <<>>]

update_runtime_init ==
  /\ tx' = Idle /\ delivery' = NoDelivery /\ clean' = TRUE
  /\ \E o \in mutable_fs_mkdir(fs, UpdateDir) : fs' = o.fs
  /\ UNCHANGED <<snapshots, last_generation, point, accepted, bound>>

(* A begin that finds no free slot, or cannot write its record, is undone, *)
(* but the generation stays used up and a slot that was taken stays taken. *)
update_begin(generation, signature) ==
  LET t == [active |-> TRUE, generation |-> generation, state |-> "pending"]
      full == Len(snapshots) >= MaxSnapshots
  IN
  /\ ~tx.active /\ generation # 0
  /\ security_authorize_update_signature(signature)
  /\ snapshots' = persistence_snapshot_create("update", 0)
  /\ \/ full /\ tx' = Idle /\ UNCHANGED <<fs, point>>
     \/ ~full /\ point' = Len(snapshots')
        /\ \E o \in persist_update_state(fs, t) :
             fs' = o.fs /\ tx' = IF o.ok THEN t ELSE Idle
  /\ clean' = TRUE /\ UNCHANGED <<delivery, bound>>

(* The state is advanced before it is recorded and stays advanced when the *)
(* record or the commit fails.                                             *)
Advance(state) == tx' = [tx EXCEPT !.state = state]

Record(f) == persist_update_state(f, tx')

RecordAndCommit ==
  \E o \in Record(fs) : \E c \in OrFailed(o, mutable_fs_commit(o.fs)) :
    fs' = c.fs /\ clean' = c.ok

CommitAndRecord ==
  \E c \in mutable_fs_commit(fs) : \E o \in OrFailed(c, Record(c.fs)) :
    fs' = o.fs /\ clean' = o.ok

update_stage ==
  /\ tx.active /\ tx.state = "pending"
  /\ Advance("staged") /\ RecordAndCommit
  /\ UNCHANGED <<delivery, snapshots, last_generation, point, accepted, bound>>

(* Mutant: the tree is committed before the record is written.             *)
update_commit_Early ==
  /\ tx.active /\ tx.state = "staged"
  /\ Advance("committed") /\ CommitAndRecord
  /\ UNCHANGED <<delivery, snapshots, last_generation, point, accepted, bound>>

update_commit ==
  /\ tx.active /\ tx.state = "staged"
  /\ Advance("committed") /\ RecordAndCommit
  /\ UNCHANGED <<delivery, snapshots, last_generation, point, accepted, bound>>

update_fail ==
  /\ tx.active /\ tx.state = "staged"
  /\ Advance("failed")
  /\ \E o \in Record(fs) : fs' = o.fs /\ clean' = o.ok
  /\ UNCHANGED <<delivery, snapshots, last_generation, point, accepted, bound>>

(* Mutant: the end is recorded first, in the tree the rollback discards.   *)
Undo_RecordFirst(state) ==
  /\ find_snapshot("update", 0) # {}
  /\ tx' = [tx EXCEPT !.state = state]
  /\ \E o \in Record(fs) : \E r \in OrFailed(o, mutable_fs_rollback(o.fs)) :
       fs' = r.fs /\ clean' = r.ok
  /\ UNCHANGED <<delivery, snapshots, last_generation, point, accepted, bound>>

(* update_recover_boot and update_rollback: back to the last snapshot of   *)
(* the tree, and only then is the end of the transaction recorded.         *)
Undo(state) ==
  /\ find_snapshot("update", 0) # {}
  /\ \E r \in mutable_fs_rollback(fs) :
       \/ ~r.ok /\ fs' = r.fs /\ clean' = FALSE /\ UNCHANGED tx
       \/ /\ r.ok
          /\ \E o \in persist_update_state(r.fs, [tx EXCEPT !.state = state]) :
               /\ fs' = o.fs /\ clean' = o.ok
               /\ tx' = [tx EXCEPT !.state = state, !.active = ~o.ok]
  /\ UNCHANGED <<delivery, snapshots, last_generation, point, accepted, bound>>

update_recover_boot == tx.active /\ tx.state = "failed" /\ Undo("recovered")
update_rollback     == tx.active /\ tx.state = "committed" /\ Undo("rolled-back")

(***************************************************************************)
(* Chunked delivery.                                                       *)
(***************************************************************************)

(* mutable_fs_open without XAIOS_MFS_OPEN_TRUNCATE puts the cursor at 0:   *)
(* the chunk overwrites the beginning of the file and keeps its rest.      *)
Overwritten(old, chunk) == chunk \o SubSeq(old, Len(chunk) + 1, Len(old))

(* mutable_fs_open, mutable_fs_write_fd and mutable_fs_close.  Creating    *)
(* the file and writing it are two writes; a file that cannot be read      *)
(* fails the write.                                                        *)
WriteStaging(f, chunk) ==
  UNION {OrFailed(o, LET old == o.fs.live[StagingPath] IN
                     IF old = FS!Broken THEN {[ok |-> FALSE, fs |-> o.fs]}
                     ELSE write_file(o.fs, StagingPath, Overwritten(old[2], chunk))) :
         o \in IF f.live[StagingPath] = FS!Absent THEN write_file(f, StagingPath, <<>>)
               ELSE {[ok |-> TRUE, fs |-> f]}}

(* The hash context is started by the first chunk, and before the file is  *)
(* opened.  Neither it nor the byte counts start anew with a transaction.  *)
update_stage_chunk(chunk) ==
  LET started == IF delivery.staging THEN delivery
                 ELSE [delivery EXCEPT !.staging = TRUE, !.hashed = <<>>]
  IN
  /\ tx.active /\ tx.state = "pending"
  /\ delivery.expected > 0 => delivery.received + Len(chunk) <= delivery.expected
  /\ delivery.received + Len(chunk) <= bound.received
  /\ \E o \in WriteStaging(fs, chunk) :
       /\ fs' = o.fs
       /\ delivery' = IF ~o.ok THEN started
                      ELSE [started EXCEPT !.hashed = @ \o chunk,
                                           !.received = @ + Len(chunk)]
  /\ UNCHANGED <<tx, snapshots, last_generation, clean, point, accepted, bound>>

(* There is no test of the state: a verification moves any active          *)
(* transaction to staged or failed.                                        *)
update_verify_hash(match) ==
  /\ tx.active /\ delivery.staging
  /\ delivery' = [delivery EXCEPT !.staging = FALSE, !.verified = match]
  /\ \/ match /\ Advance("staged") /\ RecordAndCommit
     \/ ~match /\ Advance("failed")
        /\ \E o \in Record(fs) : fs' = o.fs /\ clean' = o.ok
  /\ UNCHANGED <<snapshots, last_generation, point, accepted, bound>>

(* A manifest with all its fields; any other one changes nothing.          *)
update_parse_manifest(size) ==
  /\ bound.received > 0
  /\ delivery' = [delivery EXCEPT !.expected = size]
  /\ UNCHANGED <<fs, tx, snapshots, last_generation, clean, point, accepted, bound>>
-----------------------------------------------------------------------------
(* The tree mutable_fs_self_test commits, and the registry that            *)
(* persistence_self_test leaves: one snapshot of each kind.                *)
Committed ==
  [p \in Paths |-> IF p = UpdateRecord THEN FS!File(<<0, "idle">>)
                  ELSE IF p = ServiceRecord THEN FS!File("running") ELSE FS!Absent]

persistence_self_test ==
  << [kind |-> "boot-config", owner |-> 0, generation |-> 1],
     [kind |-> "service", owner |-> 1, generation |-> 2],
     [kind |-> "workspace", owner |-> 1, generation |-> 3],
     [kind |-> "sandbox", owner |-> 0, generation |-> 4],
     [kind |-> "update", owner |-> 0, generation |-> 5] >>

UpdateInit ==
  /\ fs = [live |-> [Committed EXCEPT ![UpdateDir] = FS!Dir], snap |-> Committed, faults |-> 0]
  /\ tx = Idle /\ delivery = NoDelivery
  /\ snapshots = persistence_self_test
  /\ last_generation = 0
  /\ clean = TRUE /\ point = 0 /\ accepted = <<>> /\ bound \in Bounds

UpdateNext ==
  \/ update_runtime_init
  \/ \E g \in Generations, s \in Signatures : update_begin(g, s)
  \/ update_stage \/ update_commit \/ update_fail
  \/ \E c \in Chunks : update_stage_chunk(c)
  \/ \E match \in BOOLEAN : update_verify_hash(match)
  \/ \E n \in Sizes : update_parse_manifest(n)

UndoNext == update_recover_boot \/ update_rollback
-----------------------------------------------------------------------------
(* The record in /state/updates/update.state says what g_update says, as   *)
(* long as the last call succeeded, whatever was staged, rolled back or    *)
(* written by others in between: persist_update_state runs behind every    *)
(* change of the state, and behind the rollback that restores an older     *)
(* record.                                                                 *)
RecordMatches ==
  tx.active /\ clean => fs.live[UpdateRecord] = FS!File(<<tx.generation, tx.state>>)

(* A rollback would restore a tree that knows of the transaction: while it *)
(* is staged or committed, the snapshot of the tree holds its record,      *)
(* because the record is written before mutable_fs_commit.                 *)
SnapshotKnowsTransaction ==
  tx.active /\ clean /\ tx.state \in {"staged", "committed"}
    => fs.snap[UpdateRecord] = FS!File(<<tx.generation, tx.state>>)

(* persistence_rollback finds the rollback point that this transaction     *)
(* created, not one of an earlier transaction or the one made at boot.     *)
OwnRollbackPoint == tx.active => find_snapshot("update", 0) = {point}

(* No generation is accepted twice and they only grow, though two callers  *)
(* ask for them: update_begin and the service command "update".  The       *)
(* self-test at boot expects the opposite: update.c:575 asserts that       *)
(* update_begin takes the signature it took at update.c:558, which         *)
(* security.c:363 refuses as a replay.                                     *)
GenerationsGrow ==
  \A i \in 1..(Len(accepted) - 1) : accepted[i] < accepted[i + 1]

(* Updates follow one another, each with its own way back.                 *)
UpdatesOrdered == OwnRollbackPoint /\ GenerationsGrow
=============================================================================
