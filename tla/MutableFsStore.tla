--------------------------- MODULE MutableFsStore ---------------------------
(***************************************************************************)
(* The mutable file system as an implementation of FileStore: what a path  *)
(* shows, and when the abstract store is busy or lost.                     *)
(***************************************************************************)
EXTENDS MutableFs

(* What a path shows to a caller: the abstraction function to FileStore.   *)
Entry(type, hash, blocks) ==
  IF type = "DIR" THEN <<"dir">>
  ELSE IF read_blocks(blocks) = hash THEN <<"file", hash>> ELSE <<"broken">>

LiveTree ==
  [p \in Paths |->
     IF \E n \in Nodes : nodes[n].active /\ nodes[n].path = p
     THEN LET nd == nodes[CHOOSE n \in Nodes : nodes[n].active /\ nodes[n].path = p]
          IN  Entry(nd.type, nd.hash, nd.blocks)
     ELSE <<>>]

SnapTree ==
  [p \in Paths |->
     IF \E n \in Nodes : nodes[n].snap /\ nodes[n].path = p
     THEN LET nd == nodes[CHOOSE n \in Nodes : nodes[n].snap /\ nodes[n].path = p]
          IN  Entry(nd.stype, nd.shash, nd.sblocks)
     ELSE <<>>]

Store == INSTANCE FileStore WITH live <- LiveTree, snap <- SnapTree,
                                 busy <- IF names = "clash" THEN "lost"
                                         ELSE IF mode = "idle" THEN "no"
                                         ELSE IF mode = "astray" THEN "down" ELSE mode

(* The node table, the bitmap and the sectors behave like FileStore: every *)
(* read returns what was last written, a commit copies the tree to the     *)
(* snapshot and a rollback copies the snapshot back, and an operation that *)
(* fails half-way leaves each path old, new or unreadable; until a rename  *)
(* lands on a path that the snapshot holds.                                *)
ImplementsFileStore == Store!StoreSpec
=============================================================================
