----------------------------- MODULE FileStore -----------------------------
(***************************************************************************)
(* What the mutable filesystem promises its callers, without nodes,        *)
(* blocks or sectors: a tree of files and directories (live), one snapshot *)
(* of it (snap), and the operations of mutable_fs.h on the two.            *)
(*                                                                         *)
(* A commit copies the tree into the snapshot path by path and a rollback  *)
(* copies it back; both may stop half-way, and then leave every path in    *)
(* its old state, in its new one, or unreadable.  A mount starts from an   *)
(* empty tree.                                                             *)
(***************************************************************************)
EXTENDS FiniteSets

CONSTANTS Paths,      \* the paths callers use
          Root,       \* "/"
          Parent,     \* Parent[p]: the directory of p; Parent[Root] = Root
          Below,      \* Below[p]: the paths that start with p and a slash
          Contents    \* what can be written to a file

VARIABLES live, snap,
          busy      \* "down", "no", "commit", "rollback" or "lost"

storeVars == <<live, snap, busy>>

Absent   == <<>>
Dir      == <<"dir">>
Broken   == <<"broken">>
File(c)  == <<"file", c>>
ParentExists(p) == Parent[p] = Root \/ live[Parent[p]] = Dir
Removable(p)    == live[p] = Dir => \A q \in Below[p] : live[q] = Absent
Empty           == [p \in Paths |-> Absent]

StoreInit == live = Empty /\ snap = Empty /\ busy = "down"

StoreMount ==
  /\ busy = "down" /\ busy' = "no"
  /\ live' = [Empty EXCEPT ![Root] = Dir] /\ snap' = Empty

StoreStop == busy' = "down" /\ live' = Empty /\ snap' = Empty

StoreWrite(p, c) ==
  /\ busy = "no" /\ ParentExists(p) /\ live[p] # Dir
  /\ live' = [live EXCEPT ![p] = File(c)] /\ UNCHANGED <<snap, busy>>

StoreMkdir(p) ==
  /\ busy = "no" /\ ParentExists(p) /\ live[p] = Absent
  /\ live' = [live EXCEPT ![p] = Dir] /\ UNCHANGED <<snap, busy>>

StoreDelete(p) ==
  /\ busy = "no" /\ live[p] # Absent /\ Removable(p)
  /\ live' = [live EXCEPT ![p] = Absent] /\ UNCHANGED <<snap, busy>>

CanRename(p, q) ==
  /\ busy = "no" /\ live[p] # Absent /\ live[q] = Absent
  /\ ParentExists(q) /\ Removable(p)

(* A rename takes the entry of the snapshot with it: a rollback brings     *)
(* the file back under its new name.                                       *)
StoreRename(p, q) ==
  /\ CanRename(p, q) /\ snap[q] = Absent
  /\ live' = [live EXCEPT ![p] = Absent, ![q] = live[p]]
  /\ snap' = [snap EXCEPT ![p] = Absent, ![q] = snap[p]] /\ UNCHANGED busy

(* A rename onto a path that the snapshot holds loses the store: two       *)
(* entries share the path, and nothing is promised until the next mount.   *)
StoreLost ==
  /\ busy' = "lost"
  /\ \/ busy = "lost"
     \/ \E p, q \in Paths : CanRename(p, q) /\ snap[q] # Absent

StoreBegin(what) == busy = "no" /\ busy' = what /\ UNCHANGED snap

StoreCommitOne(p) ==
  /\ busy = "commit"
  /\ snap' = [snap EXCEPT ![p] = live[p]] /\ UNCHANGED <<live, busy>>

StoreCommitFails(p) ==
  /\ busy = "commit" /\ busy' = "no"
  /\ snap' \in {snap} \cup {[snap EXCEPT ![p] = e] : e \in {live[p], Broken}}
  /\ UNCHANGED live

StoreCommitEnd ==
  /\ busy = "commit" /\ busy' = "no"
  /\ snap = live /\ UNCHANGED <<live, snap>>

(* Any set of paths may be put back in one step.                           *)
Restored(S) == [p \in Paths |-> IF p \in S THEN snap[p] ELSE live[p]]

StoreRollbackBegin ==
  /\ StoreBegin("rollback")
  /\ \E S \in SUBSET Paths : live' = Restored(S)

StoreRollbackOne(p) ==
  /\ busy = "rollback" /\ live' = Restored({p}) /\ UNCHANGED <<snap, busy>>

StoreRollbackFails(p) ==
  /\ busy = "rollback" /\ busy' = "no"
  /\ live' \in {live} \cup {[live EXCEPT ![p] = e] : e \in {snap[p], Broken}}
  /\ UNCHANGED snap

StoreRollbackEnd ==
  /\ busy = "rollback" /\ busy' = "no"
  /\ live = snap /\ UNCHANGED <<live, snap>>

StoreNext ==
  \/ StoreMount \/ StoreStop \/ StoreLost
  \/ \E p \in Paths :
       \/ \E c \in Contents : StoreWrite(p, c)
       \/ StoreMkdir(p) \/ StoreDelete(p)
       \/ \E q \in Paths : StoreRename(p, q)
       \/ StoreCommitOne(p) \/ StoreCommitFails(p)
       \/ StoreRollbackOne(p) \/ StoreRollbackFails(p)
  \/ StoreBegin("commit") /\ UNCHANGED live
  \/ StoreCommitEnd
  \/ StoreRollbackBegin \/ StoreRollbackEnd

StoreSpec == StoreInit /\ [][StoreNext]_storeVars
=============================================================================
