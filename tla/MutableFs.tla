----------------------------- MODULE MutableFs -----------------------------
(***************************************************************************)
(* The mutable filesystem (kernel/fs/mutable_fs.c) on a block device that  *)
(* may fail a sector write and under a machine that may stop between any   *)
(* two of them.                                                            *)
(*                                                                         *)
(* In memory: the node table g_mfs.nodes, each entry with a live half and  *)
(* a snapshot half, and the block bitmap.  On disk: the data sectors, the  *)
(* metadata image (all node entries and the bitmap, written whole by every *)
(* operation) and the journal.                                             *)
(*                                                                         *)
(* A file's contents are the sequence of its sectors, and a content hash   *)
(* is the contents themselves: FNV-1a collisions are left out.  The code   *)
(* scans tables and bitmap from index 0; here any matching entry or free   *)
(* block may be taken.  A node's generation is only ever compared with     *)
(* committed_generation (in rollback_snapshot): recent is the outcome.     *)
(***************************************************************************)
EXTENDS Integers, FiniteSets, Sequences, Functions

CONSTANTS Paths, Root, Parent, Below,
          Nodes,        \* entries of the node table
          Blocks,       \* data sectors
          Sectors,      \* what a data sector can hold
          Blank,        \* what the data sectors hold on a new disk
          Uses          \* what callers may ask for, and what may go wrong

(* A use of the volume: the paths callers write, make and delete, what     *)
(* they write, the pairs of paths they rename, the pairs <<path, contents>>*)
(* written to the journal, the number of sector transfers that fail at     *)
(* most, and whether the machine may stop.                                 *)
UseType ==
  [targets : SUBSET Paths, contents : SUBSET Seq(Sectors),
   renames : SUBSET (Paths \X Paths), journalled : SUBSET (Paths \X Seq(Sectors)),
   io : Nat, crashes : BOOLEAN]

ASSUME PathsAssumption ==
  /\ Root \in Paths
  /\ Parent \in [Paths -> Paths] /\ Parent[Root] = Root
  /\ Below \in [Paths -> SUBSET Paths] /\ Below[Root] = {}
  /\ \A p \in Paths \ {Root}, q \in Paths :
       q \in Below[p] <=> q # Root /\ (Parent[q] = p \/ Parent[q] \in Below[p])

(* Everything callers write.                                               *)
Contents == UNION {u.contents : u \in Uses}

ASSUME DataAssumption == Blank \in Sectors /\ Uses \subseteq UseType

VARIABLES nodes, bitmap,        \* memory
          data, meta, journal,  \* disk
          mode,      \* "down", "astray", "idle", "commit" or "rollback"
          todo,      \* the nodes a commit or a rollback has still to visit
          status,    \* result of the last operation
          exposed,   \* halves of the disk image whose blocks may be reused
          ioLeft,    \* sector transfers that may still fail
          names,     \* history: what became of the names in the snapshot
          use        \* the use of the volume in this behaviour

vars == <<nodes, bitmap, data, meta, journal, mode, todo, status, exposed, ioLeft, names, use>>

FreeNode == [active |-> FALSE, path |-> Root, type |-> "DIR", hash |-> <<>>,
             blocks |-> <<>>, recent |-> FALSE,
             snap |-> FALSE, stype |-> "DIR", shash |-> <<>>,
             sblocks |-> <<>>, srecent |-> FALSE]

AllFree == [n \in Nodes |-> FreeNode]

(* The live half of an entry that is not active is read again only after   *)
(* it has been overwritten (stat_node and list_dir apart), so it is        *)
(* cleared here; the path stays while the snapshot half is in use.         *)
Inactive(nd) ==
  IF nd.snap THEN [nd EXCEPT !.active = FALSE, !.type = "DIR", !.hash = <<>>,
                             !.blocks = <<>>, !.recent = FALSE]
  ELSE FreeNode

NoJournal == <<>>
----------------------------------------------------------------------------
(* The metadata image.  The checksum is computed over the image with the   *)
(* checksum field still zero, and then stored in the field.                *)
Zero == <<>>

(* mfs_checksum hashes everything but bytes 72-79.  Those bytes hold       *)
(* committed_generation; the checksum field is at byte 80 and is hashed.   *)
mfs_checksum(image) == <<image.body, image.checksum>>

Image(ns, bm) ==
  LET body == [nodes |-> ns, bitmap |-> bm]
  IN  [body |-> body,
       checksum |-> mfs_checksum([body |-> body, checksum |-> Zero])]

(* A disk that never held a volume, or an image only part of which was     *)
(* written.                                                                *)
Torn == [body |-> [nodes |-> AllFree, bitmap |-> {}], checksum |-> Zero]

validate_disk(image) == image.checksum = mfs_checksum(image)
----------------------------------------------------------------------------
find_node(p, withSnapshot) ==
  {n \in Nodes : /\ nodes[n].path = p
                 /\ nodes[n].active \/ (withSnapshot /\ nodes[n].snap)}

find_free_node == {n \in Nodes : ~nodes[n].active /\ ~nodes[n].snap}

parent_exists_for(p) ==
  Parent[p] = Root \/ \E n \in find_node(Parent[p], FALSE) : nodes[n].type = "DIR"

has_active_children(p) ==
  \E n \in Nodes : nodes[n].active /\ nodes[n].path \in Below[p]

(* The ways to take count blocks from those free in bm.                    *)
allocate_blocks(bm, count) ==
  {b \in [1..count -> Blocks \ bm] : IsInjective(b)}

(* The data sectors after the first k sectors of c went to blocks.         *)
write_blocks(blocks, c, k) ==
  [b \in Blocks |->
     IF \E i \in 1..k : blocks[i] = b
     THEN c[CHOOSE i \in 1..k : blocks[i] = b] ELSE data[b]]

read_blocks(blocks) == [i \in 1..Len(blocks) |-> data[blocks[i]]]
----------------------------------------------------------------------------
IoFault == ioLeft > 0 /\ ioLeft' = ioLeft - 1

Reject(s) ==
  /\ status' = s
  /\ UNCHANGED <<nodes, bitmap, meta, journal, mode, todo, exposed, ioLeft>>

(* The machine stops: memory is gone.  A mount gone astray ends like this. *)
Stop ==
  /\ use.crashes \/ mode = "astray"
  /\ mode' = "down" /\ nodes' = AllFree /\ bitmap' = {} /\ todo' = {}
  /\ status' = "OK" /\ UNCHANGED <<exposed, ioLeft>>

(* An operation returns s with ns and bm in memory.                        *)
Return(s, ns, bm) ==
  /\ status' = s /\ nodes' = ns /\ bitmap' = bm /\ mode' = "idle" /\ todo' = {}

(* write_metadata, the last step of every operation: it writes the whole   *)
(* image, or fails or stops before the first sector or between two.        *)
write_metadata(ns, bm) ==
  /\ UNCHANGED journal
  /\ \/ /\ Return("OK", ns, bm) /\ meta' = Image(ns, bm)
        /\ exposed' = {} /\ UNCHANGED ioLeft
     \/ /\ IoFault /\ Return("IO", ns, bm) /\ meta' \in {meta, Torn}
        /\ exposed' = exposed \cup {"live"}
     \/ Stop /\ meta' \in {meta, Torn}

(* Mutant: the error path does not give the new blocks back.               *)
BlockFault_Leaks(blocks, c, ns, bm) ==
  \E k \in 0..(Len(c) - 1) :
    /\ data' = write_blocks(blocks, c, k) /\ UNCHANGED <<meta, journal>>
    /\ \/ IoFault /\ Return("IO", ns, bm \cup Range(blocks)) /\ UNCHANGED exposed
       \/ Stop

(* A data sector write that fails or never happens, after k sectors of c   *)
(* were written; the operation returns with ns and bm in memory.           *)
BlockFault(blocks, c, ns, bm) ==
  \E k \in 0..(Len(c) - 1) :
    /\ data' = write_blocks(blocks, c, k) /\ UNCHANGED <<meta, journal>>
    /\ \/ IoFault /\ Return("IO", ns, bm) /\ UNCHANGED exposed
       \/ Stop
----------------------------------------------------------------------------
create_dir(p) ==
  /\ mode = "idle" /\ UNCHANGED data
  /\ LET found == find_node(p, TRUE) IN
     IF ~parent_exists_for(p) THEN Reject("INVALID")
     ELSE \/ \E n \in found :
               /\ nodes[n].active
               /\ Reject(IF nodes[n].type = "DIR" THEN "OK" ELSE "INVALID")
          \/ found = {} /\ find_free_node = {} /\ Reject("NO_MEMORY")
          \/ \E n \in IF found = {} THEN find_free_node ELSE found :
               /\ ~nodes[n].active
               /\ write_metadata(
                    [nodes EXCEPT ![n].active = TRUE, ![n].type = "DIR",
                                  ![n].hash = <<>>, ![n].blocks = <<>>,
                                  ![n].recent = TRUE, ![n].path = p],
                    bitmap)

(* The new blocks are allocated and written first; only then is the node   *)
(* looked up, its old blocks given back and the metadata written.          *)
WriteNode(p, c, blocks) ==
  LET found == find_node(p, TRUE) IN
  \/ \E n \in found : nodes[n].active /\ nodes[n].type # "FILE" /\ Reject("INVALID")
  \/ found = {} /\ find_free_node = {} /\ Reject("NO_MEMORY")
  \/ \E n \in IF found = {} THEN find_free_node ELSE found :
       /\ nodes[n].active => nodes[n].type = "FILE"
       /\ write_metadata(
            [nodes EXCEPT ![n].active = TRUE, ![n].type = "FILE",
                          ![n].hash = c, ![n].blocks = blocks,
                          ![n].recent = TRUE, ![n].path = p],
            (bitmap \ Range(nodes[n].blocks)) \cup Range(blocks))

(* Mutant: the old blocks are free for the new contents.                   *)
write_file_InPlace(p, c) ==
  LET old == UNION {Range(nodes[n].blocks) : n \in find_node(p, FALSE)} IN
  /\ mode = "idle" /\ parent_exists_for(p)
  /\ \E blocks \in allocate_blocks(bitmap \ old, Len(c)) :
       \/ BlockFault(blocks, c, nodes, bitmap)
       \/ data' = write_blocks(blocks, c, Len(c)) /\ WriteNode(p, c, blocks)

write_file(p, c) ==
  /\ mode = "idle"
  /\ IF ~parent_exists_for(p) THEN Reject("INVALID") /\ UNCHANGED data
     ELSE IF allocate_blocks(bitmap, Len(c)) = {}
     THEN Reject("NO_MEMORY") /\ UNCHANGED data
     ELSE \E blocks \in allocate_blocks(bitmap, Len(c)) :
            \/ BlockFault(blocks, c, nodes, bitmap)
            \/ data' = write_blocks(blocks, c, Len(c)) /\ WriteNode(p, c, blocks)

delete_node(p) ==
  /\ mode = "idle" /\ UNCHANGED data
  /\ \/ find_node(p, FALSE) = {} /\ Reject("NOT_FOUND")
     \/ \E n \in find_node(p, FALSE) :
          IF nodes[n].type = "DIR" /\ has_active_children(p)
          THEN Reject("BUSY")
          ELSE write_metadata(
                 [nodes EXCEPT ![n] = Inactive(@)],
                 bitmap \ Range(nodes[n].blocks))

rename_node(p, q) ==
  /\ mode = "idle" /\ UNCHANGED data
  /\ IF ~parent_exists_for(q) THEN Reject("INVALID")
     ELSE \/ find_node(p, FALSE) = {} /\ Reject("NOT_FOUND")
          \/ \E n \in find_node(p, FALSE) :
               IF \/ find_node(q, FALSE) # {}
                  \/ nodes[n].type = "DIR" /\ has_active_children(p)
               THEN Reject("BUSY")
               ELSE write_metadata([nodes EXCEPT ![n].path = q,
                                                 ![n].recent = TRUE], bitmap)
----------------------------------------------------------------------------
(* commit_snapshot visits the nodes one by one: it drops the old snapshot  *)
(* half, and copies a live file to newly allocated blocks.                 *)
CommitBegin ==
  /\ mode = "idle" /\ mode' = "commit" /\ todo' = Nodes
  /\ exposed' = exposed \cup {"snap"}
  /\ UNCHANGED <<nodes, bitmap, data, meta, journal, status, ioLeft>>

Snapshot(nd, blocks) == [nd EXCEPT !.snap = TRUE, !.stype = nd.type,
                                   !.shash = nd.hash, !.sblocks = blocks,
                                   !.srecent = nd.recent]

CommitNode(n) ==
  LET nd      == nodes[n]
      freed   == bitmap \ Range(nd.sblocks)
      With(b) == [nodes EXCEPT ![n] = Snapshot(nd, b)]
      count   == Len(nd.blocks)
      Go(ns, bm) == /\ nodes' = ns /\ bitmap' = bm /\ todo' = todo \ {n}
                    /\ UNCHANGED <<meta, journal, mode, status, exposed, ioLeft>>
  IN
  /\ mode = "commit" /\ n \in todo
  /\ IF ~nd.active
     THEN Go([nodes EXCEPT ![n] = FreeNode], freed) /\ UNCHANGED data
     ELSE IF nd.type = "DIR" THEN Go(With(<<>>), freed) /\ UNCHANGED data
     ELSE \/ /\ IoFault /\ count > 0
             /\ Return("IO", With(<<>>), freed)
             /\ UNCHANGED <<data, meta, journal, exposed>>
          \/ /\ allocate_blocks(freed, count) = {}
             /\ Return("NO_MEMORY", With(<<>>), freed)
             /\ UNCHANGED <<data, meta, journal, exposed, ioLeft>>
          \/ \E blocks \in allocate_blocks(freed, count) :
               \/ BlockFault(blocks, read_blocks(nd.blocks), With(<<>>), freed)
               \/ /\ data' = write_blocks(blocks, read_blocks(nd.blocks), count)
                  /\ Go(With(blocks), freed \cup Range(blocks))

CommitEnd ==
  /\ mode = "commit" /\ todo = {} /\ UNCHANGED data
  /\ write_metadata([n \in Nodes |-> [nodes[n] EXCEPT !.recent = FALSE,
                                                      !.srecent = FALSE]],
                    bitmap)
----------------------------------------------------------------------------
(* rollback_snapshot drops the nodes made since the commit and restores    *)
(* the directories, all in memory, and then the files one by one.          *)
Dropped(nd) == nd.active /\ ~nd.snap /\ nd.recent

(* Mutant: the restored node keeps the hash of the newer contents.         *)
Restore_NewHash(nd, blocks) == [nd EXCEPT !.active = TRUE, !.type = nd.stype,
                                          !.recent = nd.srecent,
                                          !.blocks = blocks]

Restore(nd, blocks) == [nd EXCEPT !.active = TRUE, !.type = nd.stype,
                                  !.hash = nd.shash, !.recent = nd.srecent,
                                  !.blocks = blocks]

RollbackBegin ==
  /\ mode = "idle" /\ mode' = "rollback"
  /\ todo' = {n \in Nodes : nodes[n].snap /\ nodes[n].stype = "FILE"}
  /\ nodes' = [n \in Nodes |->
       IF Dropped(nodes[n]) THEN FreeNode
       ELSE IF nodes[n].snap /\ nodes[n].stype = "DIR" THEN Restore(nodes[n], <<>>)
       ELSE nodes[n]]
  /\ bitmap' = bitmap \ UNION {Range(nodes[n].blocks) : n \in
       {m \in Nodes : \/ Dropped(nodes[m])
                      \/ nodes[m].snap /\ nodes[m].stype = "DIR"}}
  /\ exposed' = exposed \cup {"live"}
  /\ UNCHANGED <<data, meta, journal, status, ioLeft>>

restore_snapshot_node(n) ==
  LET nd      == nodes[n]
      freed   == bitmap \ Range(nd.blocks)
      With(b) == [nodes EXCEPT ![n] = Restore(nd, b)]
      count   == Len(nd.sblocks)
  IN
  /\ mode = "rollback" /\ n \in todo
  /\ \/ /\ IoFault /\ count > 0
        /\ Return("IO", With(<<>>), freed)
        /\ UNCHANGED <<data, meta, journal, exposed>>
     \/ /\ allocate_blocks(freed, count) = {}
        /\ Return("IO", With(<<>>), freed)
        /\ UNCHANGED <<data, meta, journal, exposed, ioLeft>>
     \/ \E blocks \in allocate_blocks(freed, count) :
          \/ BlockFault(blocks, read_blocks(nd.sblocks), With(<<>>), freed)
          \/ /\ data' = write_blocks(blocks, read_blocks(nd.sblocks), count)
             /\ nodes' = With(blocks) /\ bitmap' = freed \cup Range(blocks)
             /\ todo' = todo \ {n}
             /\ UNCHANGED <<meta, journal, mode, status, exposed, ioLeft>>

(* Mutant: the rollback is not saved.                                      *)
RollbackEnd_NotSaved ==
  /\ mode = "rollback" /\ todo = {} /\ Return("OK", nodes, bitmap)
  /\ UNCHANGED <<data, meta, journal, exposed, ioLeft>>

RollbackEnd ==
  /\ mode = "rollback" /\ todo = {} /\ UNCHANGED data
  /\ write_metadata(nodes, bitmap)
----------------------------------------------------------------------------
(* Only mutable_fs_self_test writes the journal.                           *)
write_pending_journal_file(p, c) ==
  /\ mode = "idle" /\ journal' = <<p, c>> /\ status' = "OK"
  /\ UNCHANGED <<nodes, bitmap, data, meta, mode, todo, exposed, ioLeft>>

WithRoot(ns) ==
  IF \E n \in Nodes : ns[n].path = Root /\ (ns[n].active \/ ns[n].snap)
  THEN {ns}
  ELSE {[ns EXCEPT ![n].active = TRUE, ![n].recent = TRUE] :
          n \in {m \in Nodes : ~ns[m].active /\ ~ns[m].snap}}

(* The volume after replay_journal has written the pending file to entry n *)
(* and to blocks.                                                          *)
Replayed(body, n, blocks) ==
  LET ns == body.nodes  p == journal[1]  c == journal[2]
  IN  [nodes  |-> [ns EXCEPT ![n].active = TRUE, ![n].type = "FILE", ![n].hash = c,
                             ![n].blocks = blocks, ![n].recent = TRUE, ![n].path = p],
       bitmap |-> (body.bitmap \ Range(ns[n].blocks)) \cup Range(blocks)]

(* The entries and blocks replay_journal may write the pending file to.    *)
Replays(body) ==
  {n \in Nodes : LET nd == body.nodes[n] IN
     (nd.path = journal[1] /\ (nd.active \/ nd.snap)) \/ nd = FreeNode}
  \X allocate_blocks(body.bitmap, Len(journal[2]))

(* The pending file is written and the journal cleared.                    *)
LoadVolume(body) ==
  /\ IF journal = NoJournal
     THEN nodes' \in WithRoot(body.nodes) /\ bitmap' = body.bitmap /\ UNCHANGED data
     ELSE \E r \in Replays(body) :
            LET volume == Replayed(body, r[1], r[2])
            IN  /\ nodes' = volume.nodes /\ bitmap' = volume.bitmap
                /\ data' = write_blocks(r[2], journal[2], Len(journal[2]))
  /\ meta' = Image(nodes', bitmap')

NoRoom(body) ==
  IF journal = NoJournal THEN WithRoot(body.nodes) = {} ELSE Replays(body) = {}

(* What a load leaves on disk when it fails: the journal is not read, the  *)
(* root or the pending file not written, or the journal not cleared.       *)
LoadFails(body) ==
  /\ UNCHANGED journal
  /\ IoFault \/ (NoRoom(body) /\ UNCHANGED ioLeft)
  /\ \/ UNCHANGED data /\ meta' \in {meta, Torn}
     \/ /\ journal # NoJournal
        /\ \E r \in Replays(body), k \in 0 .. Len(journal[2]) :
             LET volume == Replayed(body, r[1], r[2])
             IN  /\ data' = write_blocks(r[2], journal[2], k)
                 /\ meta' \in {meta} \cup IF k < Len(journal[2]) THEN {}
                                          ELSE {Torn, Image(volume.nodes, volume.bitmap)}

(* A volume that does not validate is formatted; a format that fails or    *)
(* stops may have cleared the journal and written some or all of the       *)
(* metadata.  A mount that fails later, in replay_journal or in making the *)
(* root, leaves the file system mounted and its I/O on the boot disk       *)
(* ("astray"): from then on this volume is not written, and its tables,    *)
(* which operations go on to use, are cleared here.                        *)
mutable_fs_mount_persistent ==
  /\ mode = "down" /\ todo' = {}
  /\ \/ /\ mode' = "idle" /\ status' = "OK" /\ exposed' = {}
        /\ journal' = NoJournal /\ UNCHANGED ioLeft
        /\ IF validate_disk(meta) THEN LoadVolume(meta.body)
           ELSE /\ nodes' \in WithRoot(AllFree) /\ bitmap' = {}
                /\ meta' = Image(nodes', bitmap') /\ UNCHANGED data
     \/ /\ ~validate_disk(meta)
        /\ \/ IoFault /\ status' = "IO"
           \/ use.crashes /\ UNCHANGED <<status, ioLeft>>
        /\ journal' \in {journal, NoJournal}
        /\ meta' \in {meta, Torn} \cup
                     (IF journal' = NoJournal THEN {Image(AllFree, {})} ELSE {})
        /\ UNCHANGED <<nodes, bitmap, data, mode, exposed>>
     \/ /\ status' = "IO" /\ mode' = "astray" /\ UNCHANGED <<nodes, bitmap, exposed>>
        /\ IF validate_disk(meta) THEN LoadFails(meta.body)
           ELSE /\ IoFault /\ journal' = NoJournal /\ UNCHANGED data
                /\ meta' \in {Image(AllFree, {}), Torn}

Crash == mode # "down" /\ Stop /\ UNCHANGED <<data, meta, journal>>
----------------------------------------------------------------------------
(* The live and the snapshot half of an entry share its path, and          *)
(* rename_node looks for the target among live entries only.  So a rename  *)
(* onto a path that only the snapshot holds puts two entries on one path   *)
(* ("clash"); and the snapshot may come to hold entries without their      *)
(* directory ("loose") when an entry it holds is renamed, when a directory *)
(* is renamed to a path below itself, and when a commit stops half-way.    *)
Renamed(n) ==
  nodes[n].active /\ nodes'[n].active /\ nodes'[n].path # nodes[n].path

Watch ==
  names' =
    IF mode' = "down" THEN "whole"
    ELSE IF \E n, m \in Nodes : /\ Renamed(n) /\ n # m /\ nodes[m].snap
                                /\ nodes[m].path = nodes'[n].path
    THEN "clash"
    ELSE IF /\ names = "whole"
            /\ \/ mode = "commit" /\ mode' = "idle" /\ todo # {}
               \/ \E n \in Nodes :
                    /\ Renamed(n)
                    /\ nodes[n].snap \/ Parent[nodes'[n].path] = nodes[n].path
    THEN "loose"
    ELSE names

Init ==
  /\ nodes = AllFree /\ bitmap = {} /\ data = [b \in Blocks |-> Blank]
  /\ meta = Torn /\ journal = NoJournal
  /\ mode = "down" /\ todo = {} /\ status = "OK" /\ exposed = {}
  /\ names = "whole"
  /\ use \in Uses /\ ioLeft = use.io

Next ==
  /\ UNCHANGED use
  /\ \/ mutable_fs_mount_persistent
     \/ \E p \in use.targets : create_dir(p) \/ delete_node(p)
     \/ \E p \in use.targets, c \in use.contents : write_file(p, c)
     \/ \E r \in use.renames : rename_node(r[1], r[2])
     \/ CommitBegin \/ (\E n \in Nodes : CommitNode(n)) \/ CommitEnd
     \/ RollbackBegin \/ (\E n \in Nodes : restore_snapshot_node(n)) \/ RollbackEnd
     \/ \E j \in use.journalled : write_pending_journal_file(j[1], j[2])
     \/ Crash
  /\ Watch

Spec == Init /\ [][Next]_vars
----------------------------------------------------------------------------
Half(half, nd) == IF half = "live" THEN nd.blocks ELSE nd.sblocks

----------------------------------------------------------------------------
(* The bitmap marks exactly the blocks of the live files and of the        *)
(* snapshot, and no block belongs to two of them: across the allocation    *)
(* and release calls of write_file, delete_node, commit_snapshot and       *)
(* rollback_snapshot, their error paths included, no block is shared,      *)
(* leaked or given back while in use.                                      *)
BitmapExact ==
  /\ bitmap = UNION {Range(nodes[n].blocks) \cup Range(nodes[n].sblocks) : n \in Nodes}
  /\ \A n, m \in Nodes, g, h \in {"live", "snap"} :
       LET f == Half(g, nodes[n])  e == Half(h, nodes[m]) IN
       /\ IsInjective(f)
       /\ <<n, g>> # <<m, h>> => Range(f) \cap Range(e) = {}

(* Whenever the machine stops, the complete metadata image on disk, if     *)
(* there is one, lists only files whose sectors still hold their contents, *)
(* in the half that is not exposed: write_file puts new contents in free   *)
(* blocks and gives the old ones back only with the next image.            *)
(* commit_snapshot exposes the old snapshot and rollback_snapshot the live *)
(* files, whose blocks they reuse before the new image is written.  (A     *)
(* file that a failed commit or rollback left without blocks is listed     *)
(* with none.)                                                             *)
ImageReadable ==
  meta # Torn =>
    \A n \in Nodes :
      LET nd == meta.body.nodes[n] IN
      /\ "live" \notin exposed /\ nd.blocks # <<>> =>
           read_blocks(nd.blocks) = nd.hash
      /\ "snap" \notin exposed /\ nd.sblocks # <<>> =>
           read_blocks(nd.sblocks) = nd.shash

(* An operation that changed the tables, or that committed or rolled back, *)
(* and answers OK is on disk: the image there is the one of the tables in  *)
(* memory.  (After an operation that failed half-way create_dir answers OK *)
(* for a directory that is in memory only, without writing.)               *)
OkIsOnDisk ==
  [][/\ mode' = "idle" /\ status' = "OK"
     /\ mode # "idle" \/ <<nodes, bitmap>>' # <<nodes, bitmap>>
     => meta' = Image(nodes', bitmap')]_vars

(* Before and after every operation no path names two entries and every    *)
(* live entry lies in a live directory, a rollback that fails half-way     *)
(* included; the first until a rename lands on a path that the snapshot    *)
(* holds, the second until the snapshot may lack a directory (Watch).      *)
TreeClosed ==
  mode = "idle" =>
    \A n \in Nodes : nodes[n].active =>
      /\ names # "clash" => find_node(nodes[n].path, TRUE) = {n}
      /\ names = "whole" => parent_exists_for(nodes[n].path)

(* The two together: after every operation, failed or not, the tables      *)
(* describe one volume.                                                    *)
VolumeConsistent == BitmapExact /\ TreeClosed

(* A volume whose metadata was written completely is mounted with the      *)
(* live files that metadata lists.                                         *)
MountKeepsFiles ==
  [][mode = "down" /\ mode' = "idle" /\ meta # Torn =>
       \A n \in Nodes :
         meta.body.nodes[n].active =>
           \E m \in Nodes : /\ nodes'[m].active
                            /\ nodes'[m].path = meta.body.nodes[n].path
                            /\ nodes'[m].hash = meta.body.nodes[n].hash]_vars
=============================================================================
