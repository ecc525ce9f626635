------------------------ MODULE MutableFsRefinement -------------------------
(***************************************************************************)
(* The mutable filesystem implements FileStore, for any tree of paths, any *)
(* number of nodes and blocks, any contents and any number of failing      *)
(* transfers: every step of MutableFs is a step of FileStore or changes    *)
(* nothing that a caller sees.                                             *)
(***************************************************************************)
EXTENDS MutableFsProofs

USE SMTT(60), ZenonT(30)

LEMMA SavedNodes ==
  ASSUME NEW ns, NEW bm, write_metadata(ns, bm), mode' # "down"
  PROVE  nodes' = ns /\ mode' = "idle"
BY DEF write_metadata, Return, Stop

LEMMA Alone ==
  ASSUME OwnPaths(nodes), NEW p, NEW n \in Entries(p)
  PROVE  /\ n \in Nodes /\ \A m \in Nodes : m # n /\ Used(nodes[m]) => nodes[m].path # p
         /\ Used(nodes[n]) => nodes[n].path = p
BY DEF OwnPaths, Entries, find_node, find_free_node, Used

LEMMA ParentShown ==
  ASSUME ShowsLive(LiveTree, nodes), NEW p, parent_exists_for(p)
  PROVE  Store!ParentExists(p)
<1>1. CASE Parent[p] = Root
  BY <1>1 DEF Store!ParentExists
<1>2. ASSUME NEW n \in find_node(Parent[p], FALSE), nodes[n].type = "DIR"
      PROVE  Store!ParentExists(p)
  <2>1. n \in Nodes /\ nodes[n].active /\ nodes[n].path = Parent[p]
    BY DEF find_node
  <2>2. LiveTree[nodes[n].path] = LiveVal(nodes[n])
    BY <2>1, LiveIs
  <2>3. LiveVal(nodes[n]) = <<"dir">>
    BY <1>2 DEF LiveVal, Val
  <2> QED
    BY <2>1, <2>2, <2>3 DEF Store!ParentExists, Store!Dir
<1> QED
  BY <1>1, <1>2, Zenon DEF parent_exists_for

(* create_dir and write_file: the entry placed is what its path shows.     *)
PlacedAt(n, p, type, hash, blocks) ==
  nodes' = [nodes EXCEPT ![n] = Placed(nodes[n], p, type, hash, blocks)]

LEMMA PlacedShows ==
  ASSUME Inv, Inv', names # "clash", names' # "clash", NEW p \in Paths, NEW n \in Entries(p),
         NEW type, NEW hash, NEW blocks, PlacedAt(n, p, type, hash, blocks)
  PROVE  /\ LiveTree' = [LiveTree EXCEPT ![p] = Val(type, hash, blocks)]
         /\ SnapTree' = SnapTree
         /\ ~ nodes[n].active => LiveTree[p] = <<>>
         /\ nodes[n].active => LiveTree[p] = LiveVal(nodes[n])
<1>1. PICK r : r = Placed(nodes[n], p, type, hash, blocks)
  OBVIOUS
<1>2. OwnPaths(nodes) /\ Tables(nodes, bitmap, data) /\ DOMAIN nodes = Nodes
  BY DEF Inv, TreeInv, TypeInv, Tables
<1>3. /\ n \in Nodes /\ \A m \in Nodes : m # n /\ Used(nodes[m]) => nodes[m].path # p
      /\ Used(nodes[n]) => nodes[n].path = p
  BY <1>2, Alone
<1>4. /\ r.active = TRUE /\ r.type = type /\ r.hash = hash /\ r.blocks = blocks
      /\ r.path = p /\ r.snap = nodes[n].snap /\ r.stype = nodes[n].stype
      /\ r.shash = nodes[n].shash /\ r.sblocks = nodes[n].sblocks
  <2>1. NodeOK(nodes[n])
    BY <1>2, <1>3 DEF Tables
  <2> QED
    BY <1>1, <2>1 DEF NodeOK, Placed, Fields
<1>5. nodes'[n] = r /\ \A m \in Nodes : m # n => nodes'[m] = nodes[m]
  BY <1>1, <1>2, <1>3 DEF PlacedAt
<1>6. /\ ShowsLive(LiveTree, nodes) /\ ShowsLive(LiveTree', nodes')
      /\ ShowsSnap(SnapTree, nodes) /\ ShowsSnap(SnapTree', nodes')
  BY Trees
<1>7. LiveBut(nodes, nodes', {p})
  BY <1>3, <1>4, <1>5 DEF LiveBut, AgreeLive, Used
<1>8. SnapBut(nodes, nodes', {})
  <2>1. SnapVal(r) = SnapVal(nodes[n])
    BY <1>4 DEF SnapVal
  <2> QED
    BY <1>3, <1>4, <1>5, <2>1 DEF SnapBut, AgreeSnap, Used
<1>9. LiveTree'[p] = Val(type, hash, blocks)
  <2>1. nodes'[n].active
    BY <1>4, <1>5
  <2>2. LiveTree'[nodes'[n].path] = LiveVal(nodes'[n])
    BY <1>3, <1>6, <2>1 DEF ShowsLive
  <2> QED
    BY <1>4, <1>5, <2>2 DEF LiveVal
<1>10. LiveTree' = [LiveTree EXCEPT ![p] = Val(type, hash, blocks)]
  BY <1>6, <1>7, <1>9, LiveTrees
<1>11. SnapTree' = SnapTree
  BY <1>6, <1>8, SnapTrees
<1>12. ASSUME ~ nodes[n].active PROVE LiveTree[p] = <<>>
  <2>1. \A m \in Nodes : nodes[m].active => nodes[m].path # p
    BY <1>3, <1>12 DEF Used
  <2> QED
    BY <1>6, <2>1, LiveIsNot
<1>13. ASSUME nodes[n].active PROVE LiveTree[p] = LiveVal(nodes[n])
  <2>1. LiveTree[nodes[n].path] = LiveVal(nodes[n])
    BY <1>3, <1>6, <1>13, LiveIs
  <2> QED
    BY <1>3, <1>13, <2>1 DEF Used
<1> QED
  BY <1>10, <1>11, <1>12, <1>13

LEMMA CreateDirRefines ==
  ASSUME Inv, Inv', names # "clash", names' # "clash", mode' # "down",
         NEW p \in Paths, create_dir(p)
  PROVE  StoreStep
<1>1. mode = "idle"
  BY Zenon DEF create_dir
<1>2. CASE \E s : Reject(s)
  BY <1>2, Unmoved DEF Reject
<1>3. ASSUME NEW n \in Entries(p), parent_exists_for(p), ~ nodes[n].active,
             write_metadata(
               [nodes EXCEPT ![n].active = TRUE, ![n].type = "DIR",
                             ![n].hash = <<>>, ![n].blocks = <<>>,
                             ![n].recent = TRUE, ![n].path = p], bitmap)
      PROVE  StoreStep
  <2>1. mode' = "idle" /\ PlacedAt(n, p, "DIR", <<>>, <<>>)
    <3>1. n \in Nodes /\ NodeOK(nodes[n]) /\ DOMAIN nodes = Nodes
      BY DEF Entries, find_node, find_free_node, Inv, TypeInv, Tables
    <3>2. [nodes EXCEPT ![n].active = TRUE, ![n].type = "DIR", ![n].hash = <<>>,
                        ![n].blocks = <<>>, ![n].recent = TRUE, ![n].path = p]
            = [nodes EXCEPT ![n] = Placed(nodes[n], p, "DIR", <<>>, <<>>)]
      BY <3>1, Zenon DEF Placed, NodeOK, Fields
    <3> QED
      BY <1>3, <3>2, SavedNodes DEF PlacedAt
  <2>2. LiveTree' = [LiveTree EXCEPT ![p] = <<"dir">>] /\ SnapTree' = SnapTree
        /\ LiveTree[p] = <<>>
    BY <1>3, <2>1, PlacedShows DEF Val
  <2>3. Store!ParentExists(p)
    BY <1>3, Trees, ParentShown
  <2> QED
    BY <1>1, <2>1, <2>2, <2>3, Zenon
       DEF StoreStep, Store!StoreNext, Store!StoreMkdir, Store!Absent, Store!Dir
<1> QED
  BY <1>2, <1>3, ZenonT(60) DEF create_dir, Entries

LEMMA WriteFileRefines ==
  ASSUME Inv, Inv', names # "clash", names' # "clash", mode' # "down",
         NEW p \in Paths, NEW c \in Seq(Sectors), c \in Contents, write_file(p, c)
  PROVE  StoreStep
<1>1. mode = "idle" /\ Len(c) \in Nat
  BY DEF write_file
<1>2. CASE \E s : Reject(s)
  BY <1>2, Unmoved DEF Reject
<1>3. ASSUME parent_exists_for(p), NEW blocks \in allocate_blocks(bitmap, Len(c)),
             \/ BlockFault(blocks, c, nodes, bitmap)
             \/ WriteNode(p, c, blocks)
      PROVE  StoreStep
  <2>1. CASE BlockFault(blocks, c, nodes, bitmap)
    BY <1>1, <2>1, Unmoved DEF BlockFault, Return, Stop
  <2>2. ASSUME NEW n \in Entries(p), nodes[n].active => nodes[n].type = "FILE",
               write_metadata(
                 [nodes EXCEPT ![n].active = TRUE, ![n].type = "FILE",
                               ![n].hash = c, ![n].blocks = blocks,
                               ![n].recent = TRUE, ![n].path = p],
                 (bitmap \ Range(nodes[n].blocks)) \cup Range(blocks))
        PROVE  StoreStep
    <3>1. mode' = "idle" /\ PlacedAt(n, p, "FILE", c, blocks)
      <4>1. n \in Nodes /\ NodeOK(nodes[n]) /\ DOMAIN nodes = Nodes
        BY DEF Entries, find_node, find_free_node, Inv, TypeInv, Tables
      <4>2. [nodes EXCEPT ![n].active = TRUE, ![n].type = "FILE", ![n].hash = c,
                          ![n].blocks = blocks, ![n].recent = TRUE, ![n].path = p]
              = [nodes EXCEPT ![n] = Placed(nodes[n], p, "FILE", c, blocks)]
        BY <4>1, Zenon DEF Placed, NodeOK, Fields
      <4> QED
        BY <2>2, <4>2, SavedNodes DEF PlacedAt
    <3>2. blocks = <<>> => c = <<>>
      BY <1>1, Allocated
    <3>3. Val("FILE", c, blocks) = <<"file", c>>
      BY <3>2 DEF Val
    <3>4. LiveTree' = [LiveTree EXCEPT ![p] = <<"file", c>>] /\ SnapTree' = SnapTree
      BY <3>1, <3>3, PlacedShows
    <3>5. LiveTree[p] # <<"dir">>
      <4>1. CASE ~ nodes[n].active
        BY <3>1, <4>1, PlacedShows
      <4>2. CASE nodes[n].active
        <5>1. LiveTree[p] = LiveVal(nodes[n])
          BY <3>1, <4>2, PlacedShows
        <5> QED
          BY <2>2, <4>2, <5>1, ValFacts DEF LiveVal
      <4> QED
        BY <4>1, <4>2
    <3>6. Store!ParentExists(p)
      BY <1>3, Trees, ParentShown
    <3> QED
      BY <1>1, <3>1, <3>4, <3>5, <3>6, Zenon
         DEF StoreStep, Store!StoreNext, Store!StoreWrite, Store!File, Store!Dir
  <2> QED
    BY <1>2, <1>3, <2>1, <2>2, Zenon DEF WriteNode, Entries
<1> QED
  BY <1>2, <1>3 DEF write_file

(* delete_node and rename_node: nothing lives below the entry.             *)
LEMMA RemovableShown ==
  ASSUME Inv, ShowsLive(LiveTree, nodes), NEW p \in Paths, NEW n \in find_node(p, FALSE),
         ~ (nodes[n].type = "DIR" /\ has_active_children(p))
  PROVE  /\ n \in Nodes /\ nodes[n].active /\ nodes[n].path = p
         /\ LiveTree[p] = LiveVal(nodes[n]) /\ LiveTree[p] # <<>> /\ Store!Removable(p)
<1>1. n \in Nodes /\ nodes[n].active /\ nodes[n].path = p
  BY DEF find_node
<1>2. LiveTree[p] = LiveVal(nodes[n])
  BY <1>1, LiveIs
<1>3. LiveTree[p] # <<>> /\ (LiveTree[p] = <<"dir">> => nodes[n].type = "DIR")
  BY <1>2, ValFacts DEF LiveVal
<1>4. ASSUME nodes[n].type = "DIR", NEW q \in Below[p] PROVE LiveTree[q] = <<>>
  <2>1. q \in Paths /\ \A m \in Nodes : nodes[m].active => nodes[m].path # q
    BY <1>4, PathsAssumption DEF has_active_children
  <2> QED
    BY <2>1, LiveIsNot
<1> QED
  BY <1>1, <1>2, <1>3, <1>4 DEF Store!Removable, Store!Dir, Store!Absent

LEMMA DeleteRefines ==
  ASSUME Inv, Inv', names # "clash", names' # "clash", mode' # "down",
         NEW p \in Paths, delete_node(p)
  PROVE  StoreStep
<1>1. mode = "idle"
  BY DEF delete_node
<1>2. CASE \E s : Reject(s)
  BY <1>2, Unmoved DEF Reject
<1>3. ASSUME NEW n \in find_node(p, FALSE), ~ (nodes[n].type = "DIR" /\ has_active_children(p)),
             write_metadata([nodes EXCEPT ![n] = Inactive(@)], bitmap \ Range(nodes[n].blocks))
      PROVE  StoreStep
  <2>1. /\ ShowsLive(LiveTree, nodes) /\ ShowsLive(LiveTree', nodes')
        /\ ShowsSnap(SnapTree, nodes) /\ ShowsSnap(SnapTree', nodes')
    BY Trees
  <2>2. /\ n \in Nodes /\ nodes[n].active /\ nodes[n].path = p
        /\ LiveTree[p] # <<>> /\ Store!Removable(p)
    BY <1>3, <2>1, RemovableShown, Zenon
  <2>3. NodeOK(nodes[n]) /\ DOMAIN nodes = Nodes /\ OwnPaths(nodes)
    BY <2>2 DEF Inv, TypeInv, Tables, TreeInv
  <2>4. PICK r : r = Inactive(nodes[n]) /\ Gone(nodes[n], r)
    BY <2>3, InactiveFields
  <2>5. mode' = "idle" /\ nodes' = [nodes EXCEPT ![n] = r]
    BY <1>3, <2>4, SavedNodes
  <2>6. nodes'[n] = r /\ \A m \in Nodes : m # n => nodes'[m] = nodes[m]
    BY <2>2, <2>3, <2>5
  <2>7. /\ r.active = FALSE /\ r.snap = nodes[n].snap
        /\ nodes[n].snap => r.path = nodes[n].path /\ SnapVal(r) = SnapVal(nodes[n])
    BY <2>4 DEF Gone, SnapVal
  <2>8. LiveBut(nodes, nodes', {p}) /\ SnapBut(nodes, nodes', {})
    BY <2>2, <2>6, <2>7 DEF LiveBut, SnapBut, AgreeLive, AgreeSnap
  <2>9. LiveTree'[p] = <<>>
    <3>1. \A m \in Nodes : nodes'[m].active => nodes'[m].path # p
      BY <2>2, <2>3, <2>6, <2>7 DEF OwnPaths, Used
    <3> QED
      BY <2>1, <3>1 DEF ShowsLive
  <2>10. LiveTree' = [LiveTree EXCEPT ![p] = <<>>] /\ SnapTree' = SnapTree
    BY <2>1, <2>8, <2>9, LiveTrees, SnapTrees
  <2> QED
    BY <1>1, <2>2, <2>5, <2>10, Zenon DEF StoreStep, Store!StoreNext, Store!StoreDelete, Store!Absent
<1> QED
  BY <1>2, <1>3, Zenon DEF delete_node

(* What rename_node finds before it moves an entry from p to q.            *)
LEMMA RenameFinds ==
  ASSUME Inv, names # "clash", NEW p \in Paths, NEW q \in Paths, parent_exists_for(q),
         NEW n \in find_node(p, FALSE), find_node(q, FALSE) = {},
         ~ (nodes[n].type = "DIR" /\ has_active_children(p)), ShowsLive(LiveTree, nodes)
  PROVE  /\ n \in Nodes /\ nodes[n].active /\ nodes[n].path = p /\ p # q
         /\ \A m \in Nodes : nodes[m].active => nodes[m].path # q
         /\ \A m \in Nodes : m # n /\ Used(nodes[m]) => nodes[m].path # p
         /\ LiveTree[p] = LiveVal(nodes[n]) /\ LiveTree[p] # <<>> /\ LiveTree[q] = <<>>
         /\ Store!ParentExists(q) /\ Store!Removable(p)
<1>1. /\ n \in Nodes /\ nodes[n].active /\ nodes[n].path = p
      /\ LiveTree[p] = LiveVal(nodes[n]) /\ LiveTree[p] # <<>> /\ Store!Removable(p)
  BY RemovableShown, Zenon
<1>2. \A m \in Nodes : nodes[m].active => nodes[m].path # q
  BY DEF find_node
<1>3. OwnPaths(nodes)
  BY DEF Inv, TreeInv
<1>4. \A m \in Nodes : m # n /\ Used(nodes[m]) => nodes[m].path # p
  BY <1>1, <1>3 DEF OwnPaths, Used
<1>5. LiveTree[q] = <<>>
  BY <1>2, LiveIsNot
<1>6. Store!ParentExists(q)
  BY ParentShown
<1> QED
  BY <1>1, <1>2, <1>4, <1>5, <1>6

LEMMA RenameRefines ==
  ASSUME Inv, Inv', names # "clash", mode' # "down", Watch,
         NEW p \in Paths, NEW q \in Paths, rename_node(p, q)
  PROVE  StoreStep
<1>1. mode = "idle"
  BY DEF rename_node
<1>2. CASE \E s : Reject(s)
  <2>1. nodes' = nodes /\ mode' = mode
    BY <1>2 DEF Reject
  <2>2. names' = names
    BY <1>1, <2>1, NamesKept DEF Renamed
  <2> QED
    BY <2>1, <2>2, Unmoved
<1>3. ASSUME parent_exists_for(q), NEW n \in find_node(p, FALSE), find_node(q, FALSE) = {},
             ~ (nodes[n].type = "DIR" /\ has_active_children(p)),
             write_metadata([nodes EXCEPT ![n].path = q, ![n].recent = TRUE], bitmap)
      PROVE  StoreStep
  <2>1. ShowsLive(LiveTree, nodes) /\ ShowsSnap(SnapTree, nodes)
    <3>1. Tables(nodes, bitmap, data) /\ OwnPaths(nodes)
      BY DEF Inv, TypeInv, TreeInv
    <3> QED
      BY <3>1, LiveShown, SnapShown, TreesOf
  <2>2. /\ n \in Nodes /\ nodes[n].active /\ nodes[n].path = p /\ p # q
        /\ \A m \in Nodes : nodes[m].active => nodes[m].path # q
        /\ \A m \in Nodes : m # n /\ Used(nodes[m]) => nodes[m].path # p
        /\ LiveTree[p] = LiveVal(nodes[n]) /\ LiveTree[p] # <<>> /\ LiveTree[q] = <<>>
        /\ Store!ParentExists(q) /\ Store!Removable(p)
    BY <1>3, <2>1, RenameFinds, Zenon
  <2>3. NodeOK(nodes[n]) /\ DOMAIN nodes = Nodes /\ \A m \in Nodes : nodes[m].path \in Paths
    BY <2>2, Zenon DEF Inv, TypeInv, Tables, NodeOK
  <2>4. PICK r : r = [nodes[n] EXCEPT !.path = q, !.recent = TRUE]
    OBVIOUS
  <2>5. /\ r.active = nodes[n].active /\ r.path = q /\ r.snap = nodes[n].snap
        /\ LiveVal(r) = LiveVal(nodes[n]) /\ SnapVal(r) = SnapVal(nodes[n])
    BY <2>3, <2>4 DEF NodeOK, Fields, LiveVal, SnapVal
  <2>6. mode' = "idle" /\ nodes' = [nodes EXCEPT ![n] = r]
    <3>1. [nodes EXCEPT ![n].path = q, ![n].recent = TRUE] = [nodes EXCEPT ![n] = r]
      BY <2>2, <2>3, <2>4, Zenon
    <3> QED
      BY <1>3, <3>1, SavedNodes
  <2>7. nodes'[n] = r /\ \A m \in Nodes : m # n => nodes'[m] = nodes[m]
    BY <2>2, <2>3, <2>6
  <2>8. Renamed(n) /\ \A m \in Nodes : m # n => ~ Renamed(m)
    BY <2>2, <2>5, <2>7, Zenon DEF Renamed
  <2>9. Store!CanRename(p, q)
    BY <1>1, <2>2 DEF Store!CanRename, Store!Absent
  <2>10. CASE \E m \in Nodes : m # n /\ nodes[m].snap /\ nodes[m].path = q
    <3>1. PICK m \in Nodes : m # n /\ nodes[m].snap /\ nodes[m].path = q
      BY <2>10
    <3>2. names' = "clash"
      BY <2>2, <2>5, <2>6, <2>7, <2>8, <3>1 DEF Watch
    <3>3. SnapTree[nodes[m].path] = SnapVal(nodes[m])
      BY <2>1, <3>1 DEF ShowsSnap
    <3>4. SnapTree[q] # <<>>
      BY <3>1, <3>3, ValFacts DEF SnapVal
    <3> QED
      BY <2>9, <3>2, <3>4 DEF StoreStep, Store!StoreNext, Store!StoreLost, Store!Absent
  <2>11. CASE \A m \in Nodes : m # n /\ nodes[m].snap => nodes[m].path # q
    <3>1. names' # "clash"
      BY <2>2, <2>5, <2>6, <2>7, <2>8, <2>11, Zenon DEF Watch
    <3>2. ShowsLive(LiveTree', nodes') /\ ShowsSnap(SnapTree', nodes')
      BY <3>1, Trees
    <3>3. LiveBut(nodes, nodes', {p, q}) /\ SnapBut(nodes, nodes', {p, q})
      BY <2>2, <2>5, <2>7 DEF LiveBut, SnapBut, AgreeLive, AgreeSnap
    <3>4. \A x \in Paths \ {p, q} : LiveTree'[x] = LiveTree[x] /\ SnapTree'[x] = SnapTree[x]
      BY <2>1, <3>2, <3>3, LiveTrees, SnapTrees
    <3>5. LiveTree'[p] = <<>> /\ SnapTree'[p] = <<>>
      <4>1. \A m \in Nodes : nodes'[m].active \/ nodes'[m].snap => nodes'[m].path # p
        BY <2>2, <2>5, <2>7 DEF Used
      <4> QED
        BY <3>2, <4>1 DEF ShowsLive, ShowsSnap
    <3>6. LiveTree'[q] = LiveTree[p]
      <4>1. nodes'[n].active
        BY <2>2, <2>5, <2>7, Zenon
      <4>2. LiveTree'[nodes'[n].path] = LiveVal(nodes'[n])
        BY <2>2, <3>2, <4>1 DEF ShowsLive
      <4> QED
        BY <2>2, <2>5, <2>7, <4>2
    <3>7. SnapTree[q] = <<>>
      <4>1. \A m \in Nodes : nodes[m].snap => nodes[m].path # q
        BY <2>2, <2>11
      <4> QED
        BY <2>1, <4>1 DEF ShowsSnap
    <3>8. SnapTree'[q] = SnapTree[p]
      <4>1. CASE nodes[n].snap
        <5>1. nodes'[n].snap
          BY <2>5, <2>7, <4>1, Zenon
        <5>2. SnapTree'[nodes'[n].path] = SnapVal(nodes'[n]) /\ SnapTree[nodes[n].path] = SnapVal(nodes[n])
          BY <2>1, <2>2, <3>2, <4>1, <5>1, ZenonT(60) DEF ShowsSnap
        <5> QED
          BY <2>2, <2>5, <2>7, <5>2
      <4>2. CASE ~ nodes[n].snap
        <5>1. /\ \A m \in Nodes : nodes'[m].snap => nodes'[m].path # q
              /\ \A m \in Nodes : nodes[m].snap => nodes[m].path # p
          BY <2>2, <2>5, <2>7, <2>11, <4>2, Zenon DEF Used
        <5>2. SnapTree'[q] = <<>> /\ SnapTree[p] = <<>>
          BY <2>1, <3>2, <5>1 DEF ShowsSnap
        <5> QED
          BY <5>2
      <4> QED
        BY <4>1, <4>2
    <3>9. /\ LiveTree = [x \in Paths |-> LiveTree[x]] /\ LiveTree' = [x \in Paths |-> LiveTree'[x]]
          /\ SnapTree = [x \in Paths |-> SnapTree[x]] /\ SnapTree' = [x \in Paths |-> SnapTree'[x]]
      BY <2>1, <3>2 DEF ShowsLive, ShowsSnap
    <3>10. LiveTree' = [LiveTree EXCEPT ![p] = <<>>, ![q] = LiveTree[p]]
      BY <2>2, <3>4, <3>5, <3>6, <3>9
    <3>11. SnapTree' = [SnapTree EXCEPT ![p] = <<>>, ![q] = SnapTree[p]]
      BY <2>2, <3>4, <3>5, <3>8, <3>9
    <3>12. Store!StoreRename(p, q)
      BY <1>1, <2>6, <2>9, <3>1, <3>7, <3>10, <3>11 DEF Store!StoreRename, Store!Absent
    <3> QED
      BY <3>12 DEF StoreStep, Store!StoreNext
  <2> QED
    BY <2>10, <2>11
<1> QED
  BY <1>2, <1>3, Zenon DEF rename_node

LEMMA MountRefines ==
  ASSUME Inv, Inv', names # "clash", names' # "clash", mode' \notin {"down", "astray"},
         mutable_fs_mount_persistent
  PROVE  StoreStep
<1>1. mode = "down" /\ ~ validate_disk(meta) /\ mode' = "idle" /\ nodes' \in WithRoot(AllFree)
  BY NeverValid DEF mutable_fs_mount_persistent, Inv
<1>2. \A m \in Nodes : AllFree[m] = FreeNode /\ ~ FreeNode.active /\ ~ FreeNode.snap
                       /\ FreeNode.path = Root /\ FreeNode.type = "DIR"
  BY DEF AllFree, FreeNode
<1>3. PICK n \in Nodes : nodes' = [AllFree EXCEPT ![n].active = TRUE, ![n].recent = TRUE]
  BY <1>1, <1>2 DEF WithRoot
<1>4. PICK r : r = [FreeNode EXCEPT !.active = TRUE, !.recent = TRUE]
  OBVIOUS
<1>5. nodes'[n] = r /\ \A m \in Nodes : m # n => nodes'[m] = FreeNode
  BY <1>2, <1>3, <1>4 DEF AllFree
<1>6. r.active = TRUE /\ r.path = Root /\ r.snap = FALSE /\ r.type = "DIR"
  BY <1>4 DEF FreeNode
<1>7. ShowsLive(LiveTree', nodes') /\ ShowsSnap(SnapTree', nodes')
  BY Trees
<1>8. LiveTree'[Root] = <<"dir">>
  <2>1. nodes'[n].active
    BY <1>5, <1>6
  <2>2. LiveTree'[nodes'[n].path] = LiveVal(nodes'[n])
    BY <1>7, <2>1 DEF ShowsLive
  <2> QED
    BY <1>5, <1>6, <2>2 DEF LiveVal, Val
<1>9. \A x \in Paths \ {Root} : LiveTree'[x] = <<>>
  <2>1. \A x \in Paths \ {Root} : \A m \in Nodes : nodes'[m].active => nodes'[m].path # x
    BY <1>2, <1>5, <1>6
  <2> QED
    BY <1>7, <2>1 DEF ShowsLive
<1>10. \A x \in Paths : SnapTree'[x] = <<>>
  <2>1. \A m \in Nodes : ~ nodes'[m].snap
    BY <1>2, <1>5, <1>6
  <2> QED
    BY <1>7, <2>1 DEF ShowsSnap
<1>11. /\ LiveTree' = [x \in Paths |-> LiveTree'[x]] /\ SnapTree' = [x \in Paths |-> SnapTree'[x]]
  BY <1>7 DEF ShowsLive, ShowsSnap
<1>12. LiveTree' = [Store!Empty EXCEPT ![Root] = <<"dir">>]
  BY <1>8, <1>9, <1>11, PathsAssumption, Zenon DEF Store!Empty, Store!Absent
<1>13. SnapTree' = Store!Empty
  BY <1>10, <1>11 DEF Store!Empty, Store!Absent
<1> QED
  BY <1>1, <1>12, <1>13 DEF StoreStep, Store!StoreNext, Store!StoreMount, Store!Dir

(* commit_snapshot: the visited entry's path shows in the snapshot what it *)
(* shows live, or nothing readable.                                        *)
LEMMA TreesUnmoved ==
  ASSUME Inv, Inv', names # "clash", names' # "clash", nodes' = nodes
  PROVE  LiveTree' = LiveTree /\ SnapTree' = SnapTree
<1>1. LiveBut(nodes, nodes', {}) /\ SnapBut(nodes, nodes', {})
  BY DEF LiveBut, SnapBut, AgreeLive, AgreeSnap
<1> QED
  BY <1>1, Trees, LiveTrees, SnapTrees

SetTo(n, r) == nodes' = [nodes EXCEPT ![n] = r]

LEMMA CommitShows ==
  ASSUME Inv, Inv', names # "clash", names' # "clash", NEW n \in Nodes, NEW r,
         LiveKept(nodes[n], r), SetTo(n, r)
  PROVE  /\ nodes[n].path \in Paths /\ LiveTree' = LiveTree
         /\ ~ Used(nodes[n]) => SnapTree' = SnapTree
         /\ Used(nodes[n]) =>
              /\ SnapTree' = [SnapTree EXCEPT ![nodes[n].path] =
                                IF r.snap THEN SnapVal(r) ELSE <<>>]
              /\ LiveTree[nodes[n].path] =
                   IF nodes[n].active THEN LiveVal(nodes[n]) ELSE <<>>
<1>1. /\ DOMAIN nodes = Nodes /\ OwnPaths(nodes) /\ NodeOK(nodes[n])
  BY Zenon DEF Inv, TypeInv, Tables, TreeInv
<1>2. nodes'[n] = r /\ \A m \in Nodes : m # n => nodes'[m] = nodes[m]
  BY <1>1 DEF SetTo
<1>3. /\ r.active = nodes[n].active
      /\ nodes[n].active => r.path = nodes[n].path /\ LiveVal(r) = LiveVal(nodes[n])
      /\ r.snap => r.path = nodes[n].path /\ nodes[n].active
  BY DEF LiveKept, LiveVal
<1>4. /\ ShowsLive(LiveTree, nodes) /\ ShowsLive(LiveTree', nodes')
      /\ ShowsSnap(SnapTree, nodes) /\ ShowsSnap(SnapTree', nodes')
  BY Trees
<1>5. LiveBut(nodes, nodes', {})
  BY <1>2, <1>3 DEF LiveBut, AgreeLive
<1>6. LiveTree' = LiveTree
  BY <1>4, <1>5, LiveTrees
<1>7. ASSUME ~ Used(nodes[n]) PROVE SnapTree' = SnapTree
  <2>1. SnapBut(nodes, nodes', {})
    BY <1>2, <1>3, <1>7 DEF SnapBut, AgreeSnap, Used
  <2> QED
    BY <1>4, <2>1, SnapTrees
<1>8. ASSUME Used(nodes[n])
      PROVE  /\ SnapTree' = [SnapTree EXCEPT ![nodes[n].path] =
                               IF r.snap THEN SnapVal(r) ELSE <<>>]
             /\ LiveTree[nodes[n].path] = IF nodes[n].active THEN LiveVal(nodes[n]) ELSE <<>>
  <2>1. nodes[n].path \in Paths
        /\ \A m \in Nodes : m # n /\ Used(nodes[m]) => nodes[m].path # nodes[n].path
    BY <1>1, <1>8, Zenon DEF OwnPaths, NodeOK
  <2>2. SnapBut(nodes, nodes', {nodes[n].path})
    BY <1>2, <1>3 DEF SnapBut, AgreeSnap
  <2>3. SnapTree'[nodes[n].path] = IF r.snap THEN SnapVal(r) ELSE <<>>
    <3>1. CASE r.snap
      <4>1. SnapTree'[nodes'[n].path] = SnapVal(nodes'[n])
        BY <1>2, <1>4, <3>1 DEF ShowsSnap
      <4> QED
        BY <1>2, <1>3, <3>1, <4>1
    <3>2. CASE ~ r.snap
      <4>1. \A m \in Nodes : nodes'[m].snap => nodes'[m].path # nodes[n].path
        BY <1>2, <2>1, <3>2 DEF Used
      <4> QED
        BY <1>4, <2>1, <3>2, <4>1 DEF ShowsSnap
    <3> QED
      BY <3>1, <3>2
  <2>4. LiveTree[nodes[n].path] = IF nodes[n].active THEN LiveVal(nodes[n]) ELSE <<>>
    <3>1. CASE nodes[n].active
      BY <1>4, <3>1 DEF ShowsLive
    <3>2. CASE ~ nodes[n].active
      <4>1. \A m \in Nodes : nodes[m].active => nodes[m].path # nodes[n].path
        BY <2>1, <3>2 DEF Used
      <4> QED
        BY <1>4, <2>1, <3>2, <4>1 DEF ShowsLive
    <3> QED
      BY <3>1, <3>2
  <2> QED
    BY <1>4, <2>1, <2>2, <2>3, <2>4, SnapTrees
<1> QED
  BY <1>1, <1>6, <1>7, <1>8, Zenon DEF NodeOK

LEMMA CommitBeginRefines ==
  ASSUME Inv, Inv', names # "clash", names' # "clash", CommitBegin
  PROVE  StoreStep
<1>1. mode = "idle" /\ mode' = "commit" /\ nodes' = nodes
  BY DEF CommitBegin
<1>2. LiveTree' = LiveTree /\ SnapTree' = SnapTree
  BY <1>1, TreesUnmoved
<1> QED
  BY <1>1, <1>2 DEF StoreStep, Store!StoreNext, Store!StoreBegin

LEMMA SnapshotVal ==
  ASSUME NEW nd, NodeOK(nd), NEW b
  PROVE  /\ Snapshot(nd, b).snap = TRUE
         /\ SnapVal(Snapshot(nd, b)) = Val(nd.type, nd.hash, b)
BY DEF Snapshot, NodeOK, Fields, SnapVal

LEMMA CommitNodeRefines ==
  ASSUME Inv, Inv', names # "clash", names' # "clash", mode' # "down",
         NEW n \in Nodes, CommitNode(n)
  PROVE  StoreStep
<1> DEFINE nd == nodes[n]
           freed == bitmap \ Range(nd.sblocks)
<1>1. /\ mode = "commit" /\ NodeOK(nd) /\ Tables(nodes, bitmap, data)
  BY Zenon DEF CommitNode, Inv, TypeInv, Tables
<1>2. /\ <<>> \in Seq(Blocks) /\ IsInjective(<<>>) /\ Range(<<>>) = {} /\ Len(nd.blocks) \in Nat
  BY <1>1 DEF IsInjective, Range, NodeOK
<1>3. CASE ~ nd.active
  <2>1. SetTo(n, FreeNode) /\ mode' = "commit"
    BY <1>1, <1>3, Zenon DEF CommitNode, SetTo
  <2>2. LiveKept(nd, FreeNode) /\ FreeNode.snap = FALSE
    BY <1>1, <1>3, FreeNodeOK, Zenon DEF LiveKept, FreeNode, NodeOK
  <2>3. CASE Used(nd)
    <3>1. nd.path \in Paths /\ LiveTree' = LiveTree /\ SnapTree' = [SnapTree EXCEPT ![nd.path] = <<>>]
          /\ LiveTree[nd.path] = <<>>
      BY <1>3, <2>1, <2>2, <2>3, CommitShows, Zenon
    <3> QED
      BY <1>1, <2>1, <3>1, Zenon DEF StoreStep, Store!StoreNext, Store!StoreCommitOne
  <2>4. CASE ~ Used(nd)
    <3>1. LiveTree' = LiveTree /\ SnapTree' = SnapTree
      BY <2>1, <2>2, <2>4, CommitShows, Zenon
    <3> QED
      BY <1>1, <2>1, <3>1 DEF StoreStep, Store!storeVars
  <2> QED
    BY <2>3, <2>4
<1>4. ASSUME nd.active, NEW b \in Seq(Blocks), IsInjective(b),
             Range(nd.blocks) \cap Range(b) = {}, SetTo(n, Snapshot(nd, b))
      PROVE  /\ nd.path \in Paths /\ LiveTree' = LiveTree /\ LiveTree[nd.path] = LiveVal(nd)
             /\ SnapTree' = [SnapTree EXCEPT ![nd.path] = Val(nd.type, nd.hash, b)]
  <2>1. PICK r : r = Snapshot(nd, b)
    OBVIOUS
  <2>2. LiveKept(nd, r) /\ r.snap = TRUE /\ SnapVal(r) = Val(nd.type, nd.hash, b)
    BY <1>1, <1>4, <2>1, SnapshotKept, SnapshotVal, Zenon
  <2>3. SetTo(n, r) /\ Used(nd)
    BY <1>4, <2>1 DEF Used
  <2> QED
    BY <1>4, <2>2, <2>3, CommitShows, Zenon
<1>5. ASSUME nd.active, SetTo(n, Snapshot(nd, <<>>))
      PROVE  /\ nd.path \in Paths /\ LiveTree' = LiveTree /\ LiveTree[nd.path] = LiveVal(nd)
             /\ SnapTree' = [SnapTree EXCEPT ![nd.path] = Val(nd.type, nd.hash, <<>>)]
  <2>1. Range(nd.blocks) \cap Range(<<>>) = {}
    BY <1>2, Zenon
  <2> QED
    BY <1>2, <1>4, <1>5, <2>1, ZenonT(60)
<1>6. CASE nd.active /\ nd.type = "DIR"
  <2>1. SetTo(n, Snapshot(nd, <<>>)) /\ mode' = "commit"
    BY <1>1, <1>6, Zenon DEF CommitNode, SetTo
  <2>2. LiveVal(nd) = Val(nd.type, nd.hash, <<>>)
    BY <1>6 DEF LiveVal, Val
  <2> QED
    BY <1>1, <1>5, <1>6, <2>1, <2>2, Zenon DEF StoreStep, Store!StoreNext, Store!StoreCommitOne
<1>7. CASE nd.active /\ nd.type = "FILE"
  <2>1. ASSUME mode' = "idle", SetTo(n, Snapshot(nd, <<>>)) PROVE StoreStep
    <3>1. Val(nd.type, nd.hash, <<>>) \in {LiveVal(nd), <<"broken">>}
      BY <1>7 DEF LiveVal, Val
    <3> QED
      BY <1>1, <1>5, <1>7, <2>1, <3>1
         DEF StoreStep, Store!StoreNext, Store!StoreCommitFails, Store!Broken
  <2>2. ASSUME NEW blocks \in allocate_blocks(freed, Len(nd.blocks)), mode' = "commit",
               SetTo(n, Snapshot(nd, blocks))
        PROVE  StoreStep
    <3>1. /\ blocks \in Seq(Blocks) /\ Len(blocks) = Len(nd.blocks) /\ IsInjective(blocks)
          /\ Range(blocks) \cap freed = {}
      BY <1>2, Allocated
    <3>2. Range(nd.blocks) \cap Range(blocks) = {}
      BY <1>1, <3>1, CommitFrees, Zenon
    <3>3. (nd.blocks = <<>>) = (blocks = <<>>)
      BY <1>1, <3>1 DEF NodeOK
    <3>4. LiveVal(nd) = Val(nd.type, nd.hash, blocks)
      BY <3>3, Zenon DEF LiveVal, Val
    <3> QED
      BY <1>1, <1>4, <1>7, <2>2, <3>1, <3>2, <3>4, Zenon
         DEF StoreStep, Store!StoreNext, Store!StoreCommitOne
  <2>3. ASSUME NEW blocks, BlockFault(blocks, read_blocks(nd.blocks),
                                      [nodes EXCEPT ![n] = Snapshot(nd, <<>>)], freed)
        PROVE  StoreStep
    BY <2>1, <2>3 DEF BlockFault, Return, Stop, SetTo
  <2>4. ASSUME NEW s, Return(s, [nodes EXCEPT ![n] = Snapshot(nd, <<>>)], freed)
        PROVE  StoreStep
    BY <2>1, <2>4 DEF Return, SetTo
  <2> QED
    BY <1>1, <1>7, <2>2, <2>3, <2>4, ZenonT(60) DEF CommitNode, SetTo
<1> QED
  BY <1>1, <1>3, <1>6, <1>7, Zenon DEF NodeOK

LEMMA SameVal ==
  ASSUME NEW nd, NodeOK(nd), Same(nd), nd.active
  PROVE  LiveVal(nd) = SnapVal(nd)
<1>1. /\ nd.type = nd.stype /\ nd.type \in {"DIR", "FILE"}
      /\ nd.type = "FILE" => nd.hash = nd.shash /\ (nd.blocks = <<>>) = (nd.sblocks = <<>>)
  BY DEF Same, NodeOK
<1> QED
  BY <1>1 DEF LiveVal, SnapVal, Val

(* With every entry visited the two trees are one.                         *)
LEMMA AllSame ==
  ASSUME NEW T, NEW U, NEW ns, ShowsLive(T, ns), ShowsSnap(U, ns),
         \A n \in Nodes : NodeOK(ns[n]) /\ Same(ns[n])
  PROVE  T = U
<1>1. ASSUME NEW x \in Paths PROVE T[x] = U[x]
  <2>1. CASE \E n \in Nodes : ns[n].active /\ ns[n].path = x
    <3>1. PICK n \in Nodes : ns[n].active /\ ns[n].path = x
      BY <2>1
    <3>2. ns[n].snap /\ LiveVal(ns[n]) = SnapVal(ns[n])
      BY <3>1, SameVal, Zenon DEF Same
    <3>3. T[ns[n].path] = LiveVal(ns[n]) /\ U[ns[n].path] = SnapVal(ns[n])
      BY <3>1, <3>2, ZenonT(60) DEF ShowsLive, ShowsSnap
    <3> QED
      BY <3>1, <3>2, <3>3
  <2>2. CASE \A n \in Nodes : ns[n].active => ns[n].path # x
    <3>1. \A n \in Nodes : ns[n].snap => ns[n].path # x
      BY <2>2 DEF Same
    <3> QED
      BY <2>2, <3>1 DEF ShowsLive, ShowsSnap
  <2> QED
    BY <2>1, <2>2
<1>2. T = [x \in Paths |-> T[x]] /\ U = [x \in Paths |-> U[x]]
  BY DEF ShowsLive, ShowsSnap
<1> QED
  BY <1>1, <1>2

LEMMA CommitEndRefines ==
  ASSUME Inv, Inv', names # "clash", names' # "clash", mode' # "down", CommitEnd
  PROVE  StoreStep
<1>1. /\ mode = "commit" /\ \A n \in Nodes : NodeOK(nodes[n]) /\ Same(nodes[n])
  BY ZenonT(60) DEF CommitEnd, Inv, TypeInv, Tables, PhaseInv
<1>2. PICK ns : ns = [n \in Nodes |-> [nodes[n] EXCEPT !.recent = FALSE, !.srecent = FALSE]]
  BY ZenonT(60)
<1>3. nodes' = ns /\ mode' = "idle"
  BY <1>2, SavedNodes, ZenonT(60) DEF CommitEnd
<1>4. \A n \in Nodes : Aged(nodes[n], nodes'[n])
  BY <1>1, <1>2, <1>3, AgedFields, ZenonT(60)
<1>5. LiveBut(nodes, nodes', {}) /\ SnapBut(nodes, nodes', {})
  BY <1>4, Zenon DEF LiveBut, SnapBut, AgreeLive, AgreeSnap, Aged, LiveVal, SnapVal
<1>6. LiveTree' = LiveTree
  BY <1>5, Trees, LiveTrees
<1>7. SnapTree' = SnapTree
  BY <1>5, Trees, SnapTrees
<1>8. LiveTree = SnapTree
  BY <1>1, Trees, AllSame
<1> QED
  BY <1>1, <1>3, <1>6, <1>7, <1>8 DEF StoreStep, Store!StoreNext, Store!StoreCommitEnd

LEMMA RollbackEndRefines ==
  ASSUME Inv, Inv', names # "clash", names' # "clash", mode' # "down", RollbackEnd
  PROVE  StoreStep
<1>1. /\ mode = "rollback" /\ \A n \in Nodes : NodeOK(nodes[n]) /\ Same(nodes[n])
  BY Zenon DEF RollbackEnd, Inv, TypeInv, Tables, PhaseInv
<1>2. nodes' = nodes /\ mode' = "idle"
  BY SavedNodes DEF RollbackEnd
<1>3. LiveTree' = LiveTree /\ SnapTree' = SnapTree
  BY <1>2, TreesUnmoved
<1>4. LiveTree = SnapTree
  BY <1>1, Trees, AllSame
<1> QED
  BY <1>1, <1>2, <1>3, <1>4 DEF StoreStep, Store!StoreNext, Store!StoreRollbackEnd

(* rollback_snapshot leaves the snapshot half of every entry alone.        *)
LEMMA SnapTreeKept ==
  ASSUME Inv, Inv', names # "clash", names' # "clash",
         \A m \in Nodes : SnapKept(nodes[m], nodes'[m])
  PROVE  SnapTree' = SnapTree
<1>1. \A m \in Nodes : /\ nodes'[m].snap = nodes[m].snap
                       /\ nodes[m].snap => /\ nodes'[m].path = nodes[m].path
                                           /\ SnapVal(nodes'[m]) = SnapVal(nodes[m])
  BY Zenon DEF SnapKept, SnapVal
<1>2. SnapBut(nodes, nodes', {})
  BY <1>1, Zenon DEF SnapBut, AgreeSnap
<1> QED
  BY <1>2, Trees, SnapTrees

LEMMA RestoreVal ==
  ASSUME NEW nd, NodeOK(nd), NEW b
  PROVE  /\ Restore(nd, b).active = TRUE /\ Restore(nd, b).path = nd.path
         /\ LiveVal(Restore(nd, b)) = Val(nd.stype, nd.shash, b)
BY DEF Restore, NodeOK, Fields, LiveVal

LEMMA RollbackBeginRefines ==
  ASSUME Inv, Inv', names # "clash", names' # "clash", RollbackBegin
  PROVE  StoreStep
<1> DEFINE Back(n) == nodes[n].snap /\ nodes[n].stype = "DIR"
           S == {nodes[n].path : n \in {m \in Nodes : Dropped(nodes[m]) \/ Back(m)}}
<1>1. /\ mode = "idle" /\ mode' = "rollback" /\ OwnPaths(nodes)
      /\ \A n \in Nodes : NodeOK(nodes[n])
  BY Zenon DEF RollbackBegin, Inv, TypeInv, Tables, TreeInv
<1>2. \A n \in Nodes : /\ Dropped(nodes[n]) => nodes'[n] = FreeNode
                       /\ Back(n) => nodes'[n] = Restore(nodes[n], <<>>)
                       /\ ~ Dropped(nodes[n]) /\ ~ Back(n) => nodes'[n] = nodes[n]
  BY Zenon DEF RollbackBegin, Dropped
<1>3. <<>> \in Seq(Blocks) /\ IsInjective(<<>>) /\ Range(<<>>) = {}
  BY DEF IsInjective, Range
<1>4. \A n \in Nodes : SnapKept(nodes[n], nodes'[n])
  <2>1. ASSUME NEW n \in Nodes, Dropped(nodes[n]) PROVE SnapKept(nodes[n], FreeNode)
    <3>1. nodes[n].snap = FALSE /\ nodes[n].sblocks = <<>> /\ FreeNode.active = FALSE
          /\ FreeNode.snap = FALSE /\ FreeNode.sblocks = <<>>
      BY <1>1, <2>1, Zenon DEF Dropped, NodeOK, FreeNode
    <3> QED
      BY <3>1, FreeNodeOK, Zenon DEF SnapKept
  <2>2. ASSUME NEW n \in Nodes, Back(n) PROVE SnapKept(nodes[n], Restore(nodes[n], <<>>))
    BY <1>1, <1>3, <2>2, RestoreKept, Zenon
  <2> QED
    BY <1>1, <1>2, <2>1, <2>2, KeptItself, Zenon
<1>5. SnapTree' = SnapTree
  BY <1>4, SnapTreeKept, Zenon
<1>6. /\ ShowsLive(LiveTree, nodes) /\ ShowsLive(LiveTree', nodes')
      /\ ShowsSnap(SnapTree, nodes)
  BY Trees
<1>7. ASSUME NEW n \in Nodes, Dropped(nodes[n]) \/ Back(n)
      PROVE  LiveTree'[nodes[n].path] = SnapTree[nodes[n].path]
  <2>1. /\ Used(nodes[n]) /\ nodes[n].path \in Paths
        /\ \A m \in Nodes : m # n /\ Used(nodes[m]) => nodes[m].path # nodes[n].path
    BY <1>1, <1>7, Zenon DEF OwnPaths, Used, Dropped, NodeOK
  <2>2. CASE Back(n)
    <3>1. nodes'[n].active /\ nodes'[n].path = nodes[n].path /\ LiveVal(nodes'[n]) = <<"dir">>
      <4>1. PICK r : r = Restore(nodes[n], <<>>)
        OBVIOUS
      <4>2. r.active = TRUE /\ r.path = nodes[n].path
            /\ LiveVal(r) = Val(nodes[n].stype, nodes[n].shash, <<>>)
        BY <1>1, <4>1, RestoreVal, Zenon
      <4>3. nodes'[n] = r
        BY <1>2, <2>2, <4>1
      <4> QED
        BY <2>2, <4>2, <4>3 DEF Val
    <3>2. LiveTree'[nodes'[n].path] = LiveVal(nodes'[n])
      BY <1>6, <3>1, Zenon DEF ShowsLive
    <3>3. SnapTree[nodes[n].path] = SnapVal(nodes[n])
      BY <1>6, <2>2 DEF ShowsSnap
    <3> QED
      BY <2>2, <3>1, <3>2, <3>3, Zenon DEF SnapVal, Val
  <2>3. CASE Dropped(nodes[n])
    <3>1. \A m \in Nodes : nodes'[m].active => nodes'[m].path # nodes[n].path
      <4>1. nodes'[n].active = FALSE
        BY <1>2, <2>3 DEF FreeNode
      <4>2. \A m \in Nodes : nodes'[m].active => Used(nodes[m]) /\ nodes'[m].path = nodes[m].path
        BY <1>4, Zenon DEF SnapKept, Used
      <4> QED
        BY <2>1, <4>1, <4>2
    <3>2. \A m \in Nodes : nodes[m].snap => nodes[m].path # nodes[n].path
      BY <2>1, <2>3 DEF Used, Dropped
    <3> QED
      BY <1>6, <2>1, <3>1, <3>2, Zenon DEF ShowsLive, ShowsSnap
  <2> QED
    BY <1>7, <2>2, <2>3, Zenon
<1>8. LiveBut(nodes, nodes', S)
  <2> SUFFICES ASSUME NEW x \in Paths \ S PROVE AgreeLive(nodes, nodes', x)
    BY DEF LiveBut
  <2> SUFFICES ASSUME NEW m \in Nodes
      PROVE  /\ nodes[m].active /\ nodes[m].path = x <=> nodes'[m].active /\ nodes'[m].path = x
             /\ nodes[m].active /\ nodes[m].path = x => LiveVal(nodes'[m]) = LiveVal(nodes[m])
    BY DEF AgreeLive
  <2>1. CASE Dropped(nodes[m]) \/ Back(m)
    <3>1. nodes[m].path # x
      BY <2>1
    <3>2. nodes'[m].active => nodes'[m].path = nodes[m].path
      BY <1>4, Zenon DEF SnapKept
    <3> QED
      BY <3>1, <3>2
  <2>2. CASE ~ (Dropped(nodes[m]) \/ Back(m))
    BY <1>2, <2>2, Zenon
  <2> QED
    BY <2>1, <2>2, Zenon
<1>9. S \in SUBSET Paths
  BY <1>1, Zenon DEF NodeOK
<1>10. \A x \in Paths : LiveTree'[x] = IF x \in S THEN SnapTree[x] ELSE LiveTree[x]
  <2>1. \A x \in Paths \ S : LiveTree'[x] = LiveTree[x]
    BY <1>6, <1>8, LiveTrees
  <2>2. \A x \in S : LiveTree'[x] = SnapTree[x]
    BY <1>7
  <2> QED
    BY <2>1, <2>2, Zenon
<1>11. LiveTree' = Store!Restored(S)
  <2>1. LiveTree' = [x \in Paths |-> LiveTree'[x]]
    BY <1>6 DEF ShowsLive
  <2> HIDE DEF S
  <2> QED
    BY <1>10, <2>1 DEF Store!Restored
<1> HIDE DEF S
<1> QED
  BY <1>1, <1>5, <1>9, <1>11 DEF StoreStep, Store!StoreNext, Store!StoreRollbackBegin, Store!StoreBegin

LEMMA RestoreShows ==
  ASSUME Inv, Inv', names # "clash", names' # "clash", NEW n \in Nodes, nodes[n].snap, NEW r,
         SnapKept(nodes[n], r), r.active, SetTo(n, r)
  PROVE  /\ nodes[n].path \in Paths /\ SnapTree' = SnapTree
         /\ LiveTree' = [LiveTree EXCEPT ![nodes[n].path] = LiveVal(r)]
         /\ SnapTree[nodes[n].path] = SnapVal(nodes[n])
         /\ LiveTree = [x \in Paths |-> LiveTree[x]]
<1>1. /\ DOMAIN nodes = Nodes /\ OwnPaths(nodes) /\ \A m \in Nodes : NodeOK(nodes[m])
  BY Zenon DEF Inv, TypeInv, Tables, TreeInv
<1>2. nodes'[n] = r /\ \A m \in Nodes : m # n => nodes'[m] = nodes[m]
  BY <1>1 DEF SetTo
<1>3. \A m \in Nodes : SnapKept(nodes[m], nodes'[m])
  BY <1>1, <1>2, KeptItself, Zenon
<1>4. SnapTree' = SnapTree
  BY <1>3, SnapTreeKept
<1>5. /\ ShowsLive(LiveTree, nodes) /\ ShowsLive(LiveTree', nodes')
      /\ ShowsSnap(SnapTree, nodes)
  BY Trees
<1>6. r.path = nodes[n].path /\ nodes[n].path \in Paths
  BY <1>1, Zenon DEF SnapKept, NodeOK
<1>7. LiveBut(nodes, nodes', {nodes[n].path})
  BY <1>2, <1>6, Zenon DEF LiveBut, AgreeLive
<1>8. LiveTree' = [LiveTree EXCEPT ![nodes[n].path] = LiveTree'[nodes[n].path]]
  BY <1>5, <1>6, <1>7, LiveTrees
<1>9. LiveTree'[nodes'[n].path] = LiveVal(nodes'[n])
  BY <1>2, <1>5, Zenon DEF ShowsLive
<1>10. SnapTree[nodes[n].path] = SnapVal(nodes[n]) /\ LiveTree = [x \in Paths |-> LiveTree[x]]
  BY <1>5, Zenon DEF ShowsSnap, ShowsLive
<1>11. LiveTree'[nodes[n].path] = LiveVal(r)
  BY <1>2, <1>6, <1>9, Zenon
<1> QED
  BY <1>4, <1>6, <1>8, <1>10, <1>11, Zenon

LEMMA RestoreRefines ==
  ASSUME Inv, Inv', names # "clash", names' # "clash", mode' # "down",
         NEW n \in Nodes, restore_snapshot_node(n)
  PROVE  StoreStep
<1> DEFINE nd == nodes[n]
           freed == bitmap \ Range(nd.blocks)
<1>1. /\ mode = "rollback" /\ n \in todo /\ Tables(nodes, bitmap, data)
      /\ NodeOK(nd) /\ nd.snap /\ nd.stype = "FILE"
  BY Zenon DEF restore_snapshot_node, Inv, TypeInv, Tables, PhaseInv
<1>2. /\ <<>> \in Seq(Blocks) /\ IsInjective(<<>>) /\ Range(<<>>) = {} /\ Len(nd.sblocks) \in Nat
  BY <1>1 DEF IsInjective, Range, NodeOK
<1>3. ASSUME NEW b \in Seq(Blocks), IsInjective(b), Range(b) \cap Range(nd.sblocks) = {},
             SetTo(n, Restore(nd, b))
      PROVE  /\ nd.path \in Paths /\ SnapTree' = SnapTree /\ SnapTree[nd.path] = SnapVal(nd)
             /\ LiveTree' = [LiveTree EXCEPT ![nd.path] = Val("FILE", nd.shash, b)]
             /\ LiveTree = [x \in Paths |-> LiveTree[x]]
  <2>1. PICK r : r = Restore(nd, b)
    OBVIOUS
  <2>2. SnapKept(nd, r) /\ r.active /\ LiveVal(r) = Val("FILE", nd.shash, b)
    <3>1. SnapKept(nd, r)
      BY <1>1, <1>3, <2>1, RestoreKept, Zenon
    <3>2. r.active = TRUE /\ LiveVal(r) = Val(nd.stype, nd.shash, b)
      BY <1>1, <2>1, RestoreVal, Zenon
    <3> QED
      BY <1>1, <3>1, <3>2
  <2>3. SetTo(n, r)
    BY <1>3, <2>1
  <2> QED
    BY <1>1, <2>2, <2>3, RestoreShows
<1>4. ASSUME mode' = "idle", SetTo(n, Restore(nd, <<>>)) PROVE StoreStep
  <2>1. Range(<<>>) \cap Range(nd.sblocks) = {}
    BY <1>2
  <2>2. /\ nd.path \in Paths /\ SnapTree' = SnapTree /\ SnapTree[nd.path] = SnapVal(nd)
        /\ LiveTree' = [LiveTree EXCEPT ![nd.path] = Val("FILE", nd.shash, <<>>)]
    BY <1>2, <1>3, <1>4, <2>1, Zenon
  <2>3. Val("FILE", nd.shash, <<>>) \in {SnapVal(nd), <<"broken">>}
    BY <1>1 DEF SnapVal, Val
  <2> QED
    BY <1>1, <1>4, <2>2, <2>3, Zenon
       DEF StoreStep, Store!StoreNext, Store!StoreRollbackFails, Store!Broken
<1>5. ASSUME NEW blocks \in allocate_blocks(freed, Len(nd.sblocks)), mode' = mode,
             SetTo(n, Restore(nd, blocks))
      PROVE  StoreStep
  <2>1. /\ blocks \in Seq(Blocks) /\ Len(blocks) = Len(nd.sblocks) /\ IsInjective(blocks)
        /\ Range(blocks) \cap freed = {}
    BY <1>2, Allocated
  <2>2. Range(blocks) \cap Range(nd.sblocks) = {}
    BY <1>1, <2>1, RollbackFrees, Zenon
  <2>3. (nd.sblocks = <<>>) = (blocks = <<>>)
    BY <1>1, <2>1 DEF NodeOK
  <2>4. SnapVal(nd) = Val("FILE", nd.shash, blocks)
    BY <1>1, <2>3, Zenon DEF SnapVal, Val
  <2>5. /\ nd.path \in Paths /\ SnapTree' = SnapTree
        /\ LiveTree' = [LiveTree EXCEPT ![nd.path] = SnapTree[nd.path]]
        /\ LiveTree = [x \in Paths |-> LiveTree[x]]
    BY <1>3, <1>5, <2>1, <2>2, <2>4, Zenon
  <2>6. LiveTree' = Store!Restored({nd.path})
    BY <2>5, Zenon DEF Store!Restored
  <2> QED
    BY <1>1, <1>5, <2>5, <2>6, Zenon DEF StoreStep, Store!StoreNext, Store!StoreRollbackOne
<1>6. ASSUME NEW blocks, BlockFault(blocks, read_blocks(nd.sblocks),
                                    [nodes EXCEPT ![n] = Restore(nd, <<>>)], freed)
      PROVE  StoreStep
  BY <1>4, <1>6 DEF BlockFault, Return, Stop, SetTo
<1>7. ASSUME NEW s, Return(s, [nodes EXCEPT ![n] = Restore(nd, <<>>)], freed)
      PROVE  StoreStep
  BY <1>4, <1>7 DEF Return, SetTo
<1> QED
  BY <1>5, <1>6, <1>7, Zenon DEF restore_snapshot_node, SetTo

-----------------------------------------------------------------------------
(* Only rename_node gives a live entry another path.                       *)
LEMMA CreateDirKeepsPaths ==
  ASSUME NEW p, DOMAIN nodes = Nodes, create_dir(p), mode' # "down", NEW m \in Nodes
  PROVE  ~ Renamed(m)
<1>1. CASE \E s : Reject(s)
  BY <1>1 DEF Reject, Renamed
<1>2. ASSUME NEW n \in Nodes, ~ nodes[n].active, NEW r,
             nodes' = [nodes EXCEPT ![n] = r]
      PROVE  ~ Renamed(m)
  BY <1>2 DEF Renamed
<1>3. ASSUME NEW n \in Entries(p), ~ nodes[n].active,
             write_metadata(
               [nodes EXCEPT ![n].active = TRUE, ![n].type = "DIR",
                             ![n].hash = <<>>, ![n].blocks = <<>>,
                             ![n].recent = TRUE, ![n].path = p], bitmap)
      PROVE  ~ Renamed(m)
  <2>1. n \in Nodes
    BY DEF Entries, find_node, find_free_node
  <2>2. nodes' = [nodes EXCEPT ![n] =
                    [nodes[n] EXCEPT !.active = TRUE, !.type = "DIR", !.hash = <<>>,
                                     !.blocks = <<>>, !.recent = TRUE, !.path = p]]
    BY <1>3, <2>1, SavedNodes, Zenon
  <2> QED
    BY <1>2, <1>3, <2>1, <2>2, Zenon
<1> QED
  BY <1>1, <1>3, ZenonT(60) DEF create_dir, Entries

LEMMA WriteFileKeepsPaths ==
  ASSUME NEW p, NEW c, \A n \in Nodes : NodeOK(nodes[n]), DOMAIN nodes = Nodes,
         write_file(p, c), mode' # "down", NEW m \in Nodes
  PROVE  ~ Renamed(m)
<1>1. CASE \E s : Reject(s)
  BY <1>1 DEF Reject, Renamed
<1>2. ASSUME NEW blocks, BlockFault(blocks, c, nodes, bitmap) PROVE ~ Renamed(m)
  BY <1>2 DEF BlockFault, Return, Stop, Renamed
<1>3. ASSUME NEW blocks, NEW n \in Entries(p), NEW bm,
             write_metadata(
               [nodes EXCEPT ![n].active = TRUE, ![n].type = "FILE",
                             ![n].hash = c, ![n].blocks = blocks,
                             ![n].recent = TRUE, ![n].path = p], bm)
      PROVE  ~ Renamed(m)
  <2>1. n \in Nodes /\ (nodes[n].active => nodes[n].path = p)
    BY Zenon DEF Entries, find_node, find_free_node
  <2>2. nodes' = [nodes EXCEPT ![n] =
                    [nodes[n] EXCEPT !.active = TRUE, !.type = "FILE", !.hash = c,
                                     !.blocks = blocks, !.recent = TRUE, !.path = p]]
    BY <1>3, <2>1, SavedNodes, ZenonT(60)
  <2>3. PICK r : r = [nodes[n] EXCEPT !.active = TRUE, !.type = "FILE", !.hash = c,
                                      !.blocks = blocks, !.recent = TRUE, !.path = p]
    OBVIOUS
  <2>4. r.path = p
    BY <2>1, <2>3 DEF NodeOK, Fields
  <2>5. nodes' = [nodes EXCEPT ![n] = r]
    BY <2>2, <2>3
  <2> QED
    BY <2>1, <2>4, <2>5 DEF Renamed
<1>4. ASSUME NEW blocks, WriteNode(p, c, blocks) PROVE ~ Renamed(m)
  BY <1>1, <1>3, <1>4, ZenonT(60) DEF WriteNode, Entries
<1> QED
  BY <1>1, <1>2, <1>4, Zenon DEF write_file

LEMMA DeleteKeepsPaths ==
  ASSUME NEW p, \A n \in Nodes : NodeOK(nodes[n]), DOMAIN nodes = Nodes, delete_node(p),
         mode' # "down", NEW m \in Nodes
  PROVE  ~ Renamed(m)
<1>1. CASE \E s : Reject(s)
  BY <1>1, Zenon DEF Reject, Renamed
<1>2. ASSUME NEW n \in find_node(p, FALSE), NEW bm,
             write_metadata([nodes EXCEPT ![n] = Inactive(@)], bm)
      PROVE  ~ Renamed(m)
  <2>1. n \in Nodes
    BY DEF find_node
  <2>2. nodes' = [nodes EXCEPT ![n] = Inactive(nodes[n])]
    BY <1>2, <2>1, SavedNodes, Zenon
  <2>3. Inactive(nodes[n]).active = FALSE
    BY <2>1 DEF Inactive, FreeNode, NodeOK, Fields
  <2> QED
    BY <2>1, <2>2, <2>3 DEF Renamed
<1> QED
  BY <1>1, <1>2, Zenon DEF delete_node

LEMMA CommitKeepsPaths ==
  ASSUME NEW n \in Nodes, NodeOK(nodes[n]), DOMAIN nodes = Nodes, CommitNode(n),
         mode' # "down", NEW m \in Nodes
  PROVE  ~ Renamed(m)
<1>1. ASSUME NEW b, nodes' = [nodes EXCEPT ![n] = Snapshot(nodes[n], b)] PROVE ~ Renamed(m)
  <2>1. Snapshot(nodes[n], b).path = nodes[n].path
    BY DEF Snapshot, NodeOK, Fields
  <2> QED
    BY <1>1, <2>1 DEF Renamed
<1>2. CASE ~ nodes[n].active
  BY <1>2, Zenon DEF CommitNode, Renamed
<1>3. CASE nodes[n].active
  BY <1>1, <1>3, Zenon DEF CommitNode, Return, BlockFault, Stop
<1> QED
  BY <1>2, <1>3

LEMMA RestoreKeepsPaths ==
  ASSUME NEW n \in Nodes, NodeOK(nodes[n]), DOMAIN nodes = Nodes, restore_snapshot_node(n),
         mode' # "down", NEW m \in Nodes
  PROVE  ~ Renamed(m)
<1>1. ASSUME NEW b, nodes' = [nodes EXCEPT ![n] = Restore(nodes[n], b)] PROVE ~ Renamed(m)
  <2>1. Restore(nodes[n], b).path = nodes[n].path
    BY DEF Restore, NodeOK, Fields
  <2> QED
    BY <1>1, <2>1 DEF Renamed
<1> QED
  BY <1>1, Zenon DEF restore_snapshot_node, Return, BlockFault, Stop

LEMMA OthersKeepPaths ==
  ASSUME Inv, mode' # "down", NEW m \in Nodes,
         \/ mutable_fs_mount_persistent \/ CommitBegin \/ CommitEnd
         \/ RollbackBegin \/ RollbackEnd
  PROVE  ~ Renamed(m)
<1>1. \A n \in Nodes : NodeOK(nodes[n])
  BY Zenon DEF Inv, TypeInv, Tables
<1>2. CASE mutable_fs_mount_persistent
  <2>1. nodes[m].active = FALSE
    BY <1>2 DEF mutable_fs_mount_persistent, Inv, PhaseInv, AllFree, FreeNode
  <2> QED
    BY <2>1, Zenon DEF Renamed
<1>3. CASE CommitBegin
  BY <1>3 DEF CommitBegin, Renamed
<1>4. CASE RollbackEnd
  BY <1>4, SavedNodes DEF RollbackEnd, Renamed
<1>5. CASE CommitEnd
  <2>1. PICK ns : ns = [n \in Nodes |-> [nodes[n] EXCEPT !.recent = FALSE, !.srecent = FALSE]]
    BY ZenonT(60)
  <2>2. nodes' = ns
    BY <1>5, <2>1, SavedNodes, ZenonT(60) DEF CommitEnd
  <2>3. nodes'[m].path = nodes[m].path
    BY <1>1, <2>1, <2>2, ZenonT(60) DEF NodeOK, Fields
  <2> QED
    BY <2>3 DEF Renamed
<1>6. CASE RollbackBegin
  <2>1. Dropped(nodes[m]) => nodes'[m].active = FALSE
    BY <1>6, Zenon DEF RollbackBegin, FreeNode
  <2>2. Restore(nodes[m], <<>>).path = nodes[m].path
    BY <1>1 DEF Restore, NodeOK, Fields
  <2>3. ~ Dropped(nodes[m]) => nodes'[m].path = nodes[m].path
    BY <1>6, <2>2, Zenon DEF RollbackBegin
  <2> QED
    BY <2>1, <2>3 DEF Renamed
<1> QED
  BY <1>2, <1>3, <1>4, <1>5, <1>6

LEMMA PathsKept ==
  ASSUME Watch, names # "clash", mode' # "down", \A m \in Nodes : ~ Renamed(m)
  PROVE  names' # "clash"
BY DEF Watch

(* A step of the file system is a step of FileStore or changes nothing     *)
(* that a caller sees.                                                     *)
LEMMA StepRefines ==
  ASSUME Inv, Inv', Next
  PROVE  StoreStep
<1>1. Watch
  BY DEF Next
<1>2. CASE mode' \in {"down", "astray"}
  BY <1>2, StopRefines
<1>3. CASE mode' \notin {"down", "astray"} /\ names = "clash"
  <2>1. names' = "clash"
    BY <1>1, <1>3 DEF Watch
  <2> QED
    BY <1>3, <2>1 DEF StoreStep, Store!StoreNext, Store!StoreLost
<1>4. CASE mode' \notin {"down", "astray"} /\ names # "clash"
  <2>1. /\ use.targets \subseteq Paths /\ use.contents \subseteq Seq(Sectors)
        /\ use.renames \subseteq Paths \X Paths /\ use.contents \subseteq Contents
        /\ DOMAIN nodes = Nodes /\ \A n \in Nodes : NodeOK(nodes[n])
    <3>1. use \in Uses /\ DOMAIN nodes = Nodes /\ \A n \in Nodes : NodeOK(nodes[n])
      BY Zenon DEF Inv, TypeInv, Tables
    <3>2. use.contents \subseteq Contents
      BY <3>1 DEF Contents
    <3>3. use \in UseType
      BY <3>1, DataAssumption
    <3>4. /\ use.targets \subseteq Paths /\ use.contents \subseteq Seq(Sectors)
          /\ use.renames \subseteq Paths \X Paths
      BY <3>3 DEF UseType
    <3> QED
      BY <3>1, <3>2, <3>4
  <2>2. (\A m \in Nodes : ~ Renamed(m)) => names' # "clash"
    BY <1>1, <1>4, PathsKept
  <2>3. CASE mutable_fs_mount_persistent
    BY <1>4, <2>2, <2>3, OthersKeepPaths, MountRefines
  <2>4. CASE \E p \in use.targets : create_dir(p)
    BY <1>4, <2>1, <2>2, <2>4, CreateDirKeepsPaths, CreateDirRefines
  <2>5. CASE \E p \in use.targets : delete_node(p)
    BY <1>4, <2>1, <2>2, <2>5, DeleteKeepsPaths, DeleteRefines
  <2>6. CASE \E p \in use.targets, c \in use.contents : write_file(p, c)
    BY <1>4, <2>1, <2>2, <2>6, WriteFileKeepsPaths, WriteFileRefines
  <2>7. CASE \E r \in use.renames : rename_node(r[1], r[2])
    <3>1. PICK r \in use.renames : rename_node(r[1], r[2])
      BY <2>7
    <3>2. r[1] \in Paths /\ r[2] \in Paths
      BY <2>1
    <3> QED
      BY <1>1, <1>4, <3>1, <3>2, RenameRefines
  <2>8. CASE CommitBegin
    BY <1>4, <2>2, <2>8, OthersKeepPaths, CommitBeginRefines
  <2>9. CASE \E n \in Nodes : CommitNode(n)
    BY <1>4, <2>1, <2>2, <2>9, CommitKeepsPaths, CommitNodeRefines
  <2>10. CASE CommitEnd
    BY <1>4, <2>2, <2>10, OthersKeepPaths, CommitEndRefines
  <2>11. CASE RollbackBegin
    BY <1>4, <2>2, <2>11, OthersKeepPaths, RollbackBeginRefines
  <2>12. CASE \E n \in Nodes : restore_snapshot_node(n)
    BY <1>4, <2>1, <2>2, <2>12, RestoreKeepsPaths, RestoreRefines
  <2>13. CASE RollbackEnd
    BY <1>4, <2>2, <2>13, OthersKeepPaths, RollbackEndRefines
  <2>14. CASE \E j \in use.journalled : write_pending_journal_file(j[1], j[2])
    <3>1. nodes' = nodes /\ mode' = mode
      BY <2>14 DEF write_pending_journal_file
    <3>2. \A m \in Nodes : ~ Renamed(m)
      BY <3>1 DEF Renamed
    <3> QED
      BY <1>4, <2>2, <3>1, <3>2, Unmoved
  <2>15. CASE Crash
    BY <1>4, <2>15 DEF Crash, Stop
  <2> QED
    BY <2>3, <2>4, <2>5, <2>6, <2>7, <2>8, <2>9, <2>10, <2>11, <2>12, <2>13, <2>14, <2>15, Zenon DEF Next
<1> QED
  BY <1>2, <1>3, <1>4

(* The node table, the bitmap and the sectors of mutable_fs.c behave like  *)
(* FileStore: a read returns what was last written, a commit copies the    *)
(* tree to the snapshot and a rollback copies it back, and an operation    *)
(* that fails half-way leaves each path old, new or unreadable; until a    *)
(* rename lands on a path that the snapshot holds.                         *)
THEOREM FileSystemImplementsStore == Spec => ImplementsFileStore
<1>1. Init => Store!StoreInit
  <2> SUFFICES ASSUME Init PROVE Store!StoreInit
    OBVIOUS
  <2>1. nodes = AllFree /\ mode = "down" /\ names = "whole"
    BY DEF Init
  <2>2. \A n \in Nodes : AllFree[n].active = FALSE /\ AllFree[n].snap = FALSE
    BY Zenon DEF AllFree, FreeNode
  <2>3. LiveTree = Store!Empty /\ SnapTree = Store!Empty
    BY <2>1, <2>2, TreesOf, Zenon DEF LiveOf, SnapOf, Store!Empty, Store!Absent
  <2> QED
    BY <2>1, <2>3 DEF Store!StoreInit
<1>2. Inv /\ Inv' /\ [Next]_vars => [Store!StoreNext]_(Store!storeVars)
  <2>1. ASSUME Inv, Inv', Next PROVE Store!StoreNext \/ UNCHANGED Store!storeVars
    BY <2>1, StepRefines DEF StoreStep
  <2>2. ASSUME UNCHANGED vars PROVE UNCHANGED Store!storeVars
    BY <2>2 DEF vars, Store!storeVars, LiveTree, SnapTree, Entry, read_blocks
  <2> QED
    BY <2>1, <2>2
<1> QED
  BY <1>1, <1>2, InvariantHolds, PTL DEF Spec, ImplementsFileStore, Store!StoreSpec
=============================================================================
