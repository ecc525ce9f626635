-------------------------- MODULE MutableFsProofs ---------------------------
(***************************************************************************)
(* The mutable filesystem's theorems, for any tree of paths, any number of *)
(* nodes and blocks, any contents and any number of failing transfers: the *)
(* tables describe one volume, the image on disk stays readable, and what  *)
(* answers OK is on disk.  The last part is what the tables show to a      *)
(* caller, which MutableFsRefinement uses.                                 *)
(***************************************************************************)
EXTENDS MutableFsInvariant, MutableFsStore

USE SMTT(60), ZenonT(30)

-----------------------------------------------------------------------------
(* rollback_snapshot.  The snapshot half of an entry stays as it is.       *)
SnapKept(nd, r) ==
  /\ NodeOK(r) /\ r.snap = nd.snap /\ r.sblocks = nd.sblocks
  /\ nd.snap => r.stype = nd.stype /\ r.shash = nd.shash
  /\ r.active => nd.active \/ nd.snap
  /\ r.active \/ r.snap => r.path = nd.path

SnapSame(ns) ==
  /\ \A m \in Nodes : /\ ns[m].snap = nodes[m].snap /\ ns[m].sblocks = nodes[m].sblocks
                      /\ ns[m].active /\ nodes[m].active => ns[m].path = nodes[m].path
  /\ OwnPaths(nodes) => OwnPaths(ns)
  /\ SnapClosed(nodes) => SnapClosed(ns)

LEMMA RollbackKeeps ==
  ASSUME NEW ns, \A m \in Nodes : SnapKept(nodes[m], ns[m])
  PROVE  SnapSame(ns)
<1>1. \A m \in Nodes : /\ ns[m].snap = nodes[m].snap /\ ns[m].sblocks = nodes[m].sblocks
                       /\ ns[m].active => ns[m].path = nodes[m].path
                       /\ nodes[m].snap => /\ ns[m].path = nodes[m].path
                                           /\ ns[m].stype = nodes[m].stype
  BY DEF SnapKept
<1>2. \A m \in Nodes : Used(ns[m]) => Used(nodes[m]) /\ ns[m].path = nodes[m].path
  BY DEF SnapKept, Used
<1>3. OwnPaths(nodes) => OwnPaths(ns)
  BY <1>2 DEF OwnPaths
<1>4. \A q : SnapDir(nodes, q) => SnapDir(ns, q)
  BY <1>1 DEF SnapDir
<1>5. SnapClosed(nodes) => SnapClosed(ns)
  BY <1>1, <1>4 DEF SnapClosed
<1> QED
  BY <1>1, <1>3, <1>5 DEF SnapSame

LEMMA KeptItself == ASSUME NEW nd, NodeOK(nd) PROVE SnapKept(nd, nd)
BY DEF SnapKept

LEMMA RestoreKept ==
  ASSUME NEW nd, NodeOK(nd), nd.snap, NEW b \in Seq(Blocks), IsInjective(b),
         Range(b) \cap Range(nd.sblocks) = {}
  PROVE  /\ SnapKept(nd, Restore(nd, b)) /\ Restore(nd, b).blocks = b
         /\ Restore(nd, b).hash = nd.shash
         /\ (nd.stype = "FILE" => (b = <<>>) = (nd.sblocks = <<>>)) => Same(Restore(nd, b))
<1>1. PICK r : r = Restore(nd, b)
  OBVIOUS
<1>2. /\ DOMAIN r = Fields
      /\ r.active = TRUE /\ r.type = nd.stype /\ r.hash = nd.shash
      /\ r.blocks = b /\ r.recent = nd.srecent /\ r.path = nd.path
      /\ r.snap = nd.snap /\ r.stype = nd.stype /\ r.shash = nd.shash
      /\ r.sblocks = nd.sblocks /\ r.srecent = nd.srecent
  BY <1>1, Zenon DEF Restore, NodeOK, Fields
<1>3. NodeOK(r)
  BY <1>2, Zenon DEF NodeOK
<1>4. SnapKept(nd, r)
  BY <1>2, <1>3 DEF SnapKept
<1>5. nd.snap = TRUE
  BY DEF NodeOK
<1>6. (nd.stype = "FILE" => (b = <<>>) = (nd.sblocks = <<>>)) => Same(r)
  BY <1>2, <1>5, Zenon DEF Same
<1> QED
  BY <1>1, <1>2, <1>4, <1>6

LEMMA RollbackBeginStep ==
  ASSUME Inv, RollbackBegin, Watch, UNCHANGED use
  PROVE  Inv'
<1> DEFINE Back(n) == nodes[n].snap /\ nodes[n].stype = "DIR"
<1>1. /\ mode = "idle" /\ mode' = "rollback" /\ Tables(nodes, bitmap, data)
      /\ todo' = {n \in Nodes : nodes[n].snap /\ nodes[n].stype = "FILE"}
      /\ exposed' = exposed \cup {"live"} /\ data' = data /\ meta' = meta
      /\ \A n \in Nodes : NodeOK(nodes[n])
  BY DEF RollbackBegin, Inv, TypeInv, Tables
<1>2. DOMAIN nodes' = Nodes
  BY DEF RollbackBegin
<1>3. \A n \in Nodes : /\ Dropped(nodes[n]) => nodes'[n] = FreeNode
                       /\ Back(n) => nodes'[n] = Restore(nodes[n], <<>>)
                       /\ ~ Dropped(nodes[n]) /\ ~ Back(n) => nodes'[n] = nodes[n]
  BY DEF RollbackBegin, Dropped
<1>4. <<>> \in Seq(Blocks) /\ IsInjective(<<>>) /\ Range(<<>>) = {}
  BY DEF IsInjective, Range
<1>5. ASSUME NEW n \in Nodes, Dropped(nodes[n])
      PROVE  /\ SnapKept(nodes[n], FreeNode) /\ Same(FreeNode) /\ FreeNode.blocks = <<>>
             /\ FreeNode.active = FALSE
  <2>1. /\ FreeNode.active = FALSE /\ FreeNode.snap = FALSE /\ FreeNode.blocks = <<>>
        /\ FreeNode.sblocks = <<>>
    BY DEF FreeNode
  <2>2. nodes[n].snap = FALSE /\ nodes[n].sblocks = <<>>
    BY <1>1, <1>5 DEF Dropped, NodeOK
  <2> QED
    BY <2>1, <2>2, FreeNodeOK, Zenon DEF SnapKept, Same
<1>6. ASSUME NEW n \in Nodes, Back(n)
      PROVE  /\ SnapKept(nodes[n], Restore(nodes[n], <<>>))
             /\ Same(Restore(nodes[n], <<>>)) /\ Restore(nodes[n], <<>>).blocks = <<>>
  BY <1>1, <1>4, <1>6, RestoreKept, Zenon
<1>7. \A n \in Nodes : SnapKept(nodes[n], nodes'[n])
  BY <1>1, <1>3, <1>5, <1>6, KeptItself, Zenon
<1>8. SnapSame(nodes')
  BY <1>7, RollbackKeeps
<1>9. \A n \in Nodes : /\ Dropped(nodes[n]) \/ Back(n) => nodes'[n].blocks = <<>>
                       /\ ~ (Dropped(nodes[n]) \/ Back(n)) => nodes'[n] = nodes[n]
  BY <1>3, <1>5, <1>6, Zenon
<1>10. Tables(nodes', bitmap', data')
  <2>1. \A n \in Nodes : NodeOK(nodes'[n])
    BY <1>7 DEF SnapKept
  <2>2. \A n \in Nodes :
          /\ nodes'[n].blocks # <<>> =>
               nodes'[n].blocks = nodes[n].blocks /\ nodes'[n].hash = nodes[n].hash
          /\ nodes'[n].sblocks # <<>> =>
               nodes'[n].sblocks = nodes[n].sblocks /\ nodes'[n].shash = nodes[n].shash
    <3>1. \A n \in Nodes : nodes'[n].sblocks # <<>> =>
            nodes'[n].sblocks = nodes[n].sblocks /\ nodes'[n].shash = nodes[n].shash
      BY <1>1, <1>7 DEF SnapKept, NodeOK
    <3> QED
      BY <1>9, <3>1
  <2>3. bitmap' = bitmap \ UNION {Range(nodes[n].blocks) :
                                    n \in {m \in Nodes : Dropped(nodes[m]) \/ Back(m)}}
    BY DEF RollbackBegin
  <2>4. bitmap' \subseteq Blocks
    BY <1>1, <2>3 DEF Tables
  <2>5. ASSUME NEW b \in Blocks
        PROVE  b \in bitmap' <=> \E n \in Nodes : b \in Own(nodes'[n])
    <3>1. \A n \in Nodes : b \in Own(nodes'[n]) <=>
            b \in Own(nodes[n]) /\ ~ (b \in Range(nodes[n].blocks) /\ (Dropped(nodes[n]) \/ Back(n)))
      <4>1. \A n \in Nodes : nodes'[n].sblocks = nodes[n].sblocks
                             /\ Range(nodes[n].blocks) \cap Range(nodes[n].sblocks) = {}
        BY <1>1, <1>8, Zenon DEF SnapSame, NodeOK
      <4> QED
        BY <1>4, <1>9, <4>1 DEF Own
    <3>2. b \in bitmap' <=> /\ b \in bitmap
                            /\ \A n \in Nodes : ~ (/\ b \in Range(nodes[n].blocks)
                                                   /\ Dropped(nodes[n]) \/ Back(n))
      BY <2>3
    <3>3. \A n, m \in Nodes : b \in Own(nodes[n]) /\ b \in Range(nodes[m].blocks) => n = m
      BY <1>1 DEF Tables, Own
    <3>4. b \in bitmap <=> \E n \in Nodes : b \in Own(nodes[n])
      BY <1>1 DEF Tables
    <3> QED
      BY <3>1, <3>2, <3>3, <3>4
  <2> QED
    BY <1>1, <1>2, <2>1, <2>2, <2>4, <2>5, TablesShrunk
<1>11. names' = names
  BY <1>1, <1>8, NamesKept DEF SnapSame, Renamed
<1>12. TypeInv'
  BY <1>1, <1>10, <1>11 DEF Inv, TypeInv
<1>13. PhaseInv'
  <2>1. ASSUME NEW n \in Nodes
        PROVE  /\ nodes'[n].active => nodes'[n].snap
               /\ n \in todo' => nodes'[n].snap /\ nodes'[n].stype = "FILE"
               /\ n \notin todo' => Same(nodes'[n])
    <3>1. CASE Dropped(nodes[n])
      BY <1>1, <1>3, <1>5, <3>1, ZenonT(60) DEF Dropped
    <3>2. CASE Back(n)
      BY <1>1, <1>3, <1>6, <3>2 DEF SnapKept
    <3>3. CASE ~ Dropped(nodes[n]) /\ ~ Back(n)
      <4>1. nodes'[n] = nodes[n] /\ (nodes[n].active => nodes[n].snap)
        BY <1>1, <1>3, <3>3 DEF Dropped, NodeOK
      <4>2. nodes[n].snap => nodes[n].stype = "FILE"
        BY <1>1, <3>3 DEF NodeOK
      <4>3. ~ nodes[n].snap => Same(nodes[n])
        BY <1>1, <4>1 DEF Same, NodeOK
      <4> QED
        BY <1>1, <4>1, <4>2, <4>3
    <3> QED
      BY <3>1, <3>2, <3>3
  <2> QED
    BY <1>1, <2>1 DEF PhaseInv
<1>14. TreeInv'
  BY <1>1, <1>8, <1>11 DEF Inv, TreeInv, SnapSame
<1>15. KeepsData(data') /\ KeepsBlocks(nodes')
  BY <1>1, <1>8 DEF KeepsData, KeepsBlocks, SnapSame
<1>16. ImageInv'
  BY <1>1, <1>15, ImageKept DEF Inv
<1> QED
  BY <1>12, <1>13, <1>14, <1>16 DEF Inv

LEMMA RollbackFrees ==
  ASSUME Tables(nodes, bitmap, data), NEW n \in Nodes, NEW m \in Nodes
  PROVE  Range(nodes[m].sblocks) \subseteq bitmap \ Range(nodes[n].blocks)
<1>1. Range(nodes[m].sblocks) \subseteq bitmap
  BY InBitmap
<1>2. CASE m = n
  BY <1>1, <1>2, Zenon DEF Tables, NodeOK
<1>3. CASE m # n
  BY <1>1, <1>3 DEF Tables, Own
<1> QED
  BY <1>2, <1>3

(* While files are put back one by one, every live entry is one of the     *)
(* snapshot, whose directories came first.                                 *)
LEMMA RollbackLive ==
  ASSUME NEW ns, SnapClosed(ns), \A m \in Nodes : NodeOK(ns[m]),
         \A m \in Nodes : ns[m].active => ns[m].snap,
         \A m \in Nodes : ns[m].snap /\ ns[m].stype = "DIR" => Same(ns[m])
  PROVE  LiveClosed(ns)
<1>1. \A m \in Nodes : ns[m].snap /\ ns[m].stype = "DIR" => ns[m].active /\ ns[m].type = "DIR"
  BY DEF Same, NodeOK
<1>2. \A q : SnapDir(ns, q) => LiveDir(ns, q)
  BY <1>1 DEF SnapDir, LiveDir
<1> QED
  BY <1>2 DEF SnapClosed, LiveClosed

LEMMA RestoreIn ==
  ASSUME Inv, mode = "rollback", NEW n \in todo, NEW r, SnapKept(nodes[n], r),
         NEW ns, ns = [nodes EXCEPT ![n] = r]
  PROVE  /\ SnapSame(ns) /\ \A m \in Nodes : ns[m].active => ns[m].snap
         /\ \A m \in Nodes : ns[m].snap /\ ns[m].stype = "DIR" => Same(ns[m])
         /\ ns[n].snap /\ ns[n].stype = "FILE"
<1>1. /\ n \in Nodes /\ DOMAIN nodes = Nodes /\ \A m \in Nodes : NodeOK(nodes[m])
      /\ nodes[n].snap /\ nodes[n].stype = "FILE"
      /\ \A m \in Nodes : nodes[m].active => nodes[m].snap
      /\ \A m \in Nodes : nodes[m].snap /\ nodes[m].stype = "DIR" => Same(nodes[m])
  BY DEF Inv, TypeInv, Tables, PhaseInv
<1>2. ns[n] = r /\ \A m \in Nodes : m # n => ns[m] = nodes[m]
  BY <1>1
<1>3. \A m \in Nodes : SnapKept(nodes[m], ns[m])
  BY <1>1, <1>2, KeptItself
<1>4. SnapSame(ns)
  BY <1>3, RollbackKeeps, Zenon
<1>5. r.snap /\ r.stype = "FILE"
  BY <1>1 DEF SnapKept
<1> QED
  BY <1>1, <1>2, <1>4, <1>5

LEMMA RestoreTables ==
  ASSUME Tables(nodes, bitmap, data), NEW n \in Nodes, nodes[n].snap, NEW r,
         SnapKept(nodes[n], r),
         Range(r.blocks) \cap (bitmap \ Range(nodes[n].blocks)) = {},
         NEW e, DOMAIN e = Blocks, Holds(e, r.blocks, r.hash),
         \A b \in bitmap \ Range(nodes[n].blocks) : e[b] = data[b]
  PROVE  Tables([nodes EXCEPT ![n] = r],
                (bitmap \ Range(nodes[n].blocks)) \cup Range(r.blocks), e)
<1>1. NodeOK(r) /\ r.sblocks = nodes[n].sblocks /\ r.shash = nodes[n].shash
  BY DEF SnapKept
<1> QED
  BY <1>1, TablesLive

LEMMA RestoreGaveUp ==
  ASSUME Inv, mode = "rollback", NEW n \in todo, NEW r, SnapKept(nodes[n], r),
         NEW ns, ns = [nodes EXCEPT ![n] = r], nodes' = ns, mode' = "idle",
         exposed' = exposed, Watch
  PROVE  TreeOK(ns) /\ KeepsBlocks(ns)
<1>1. n \in Nodes /\ DOMAIN nodes = Nodes /\ "live" \in exposed /\ \A m \in Nodes : NodeOK(nodes[m])
  BY DEF Inv, TypeInv, Tables, PhaseInv
<1>2. /\ SnapSame(ns) /\ \A m \in Nodes : ns[m].active => ns[m].snap
      /\ \A m \in Nodes : ns[m].snap /\ ns[m].stype = "DIR" => Same(ns[m])
  BY RestoreIn, Zenon
<1>3. \A m \in Nodes : NodeOK(ns[m])
  BY <1>1 DEF SnapKept
<1>4. SnapClosed(nodes) => SnapClosed(ns) /\ LiveClosed(ns)
  BY <1>2, <1>3, RollbackLive, ZenonT(60) DEF SnapSame
<1>5. names' = names
  BY <1>2, NamesKept DEF SnapSame, Renamed
<1> QED
  BY <1>1, <1>2, <1>4, <1>5 DEF TreeOK, KeepsBlocks, SnapSame, Inv, TreeInv

LEMMA RestoreStep ==
  ASSUME Inv, NEW n \in Nodes, restore_snapshot_node(n), Watch, UNCHANGED use
  PROVE  Inv'
<1> DEFINE nd == nodes[n]
           freed == bitmap \ Range(nd.blocks)
<1>1. /\ mode = "rollback" /\ n \in todo /\ Tables(nodes, bitmap, data) /\ DOMAIN data = Blocks
      /\ NodeOK(nd) /\ "live" \in exposed /\ bitmap \subseteq Blocks
      /\ nd.snap /\ nd.stype = "FILE"
  BY DEF restore_snapshot_node, Inv, TypeInv, Tables, PhaseInv
<1>2. /\ <<>> \in Seq(Blocks) /\ IsInjective(<<>>) /\ Range(<<>>) = {} /\ Len(nd.sblocks) \in Nat
  BY <1>1 DEF IsInjective, Range, NodeOK
<1>3. PICK r : r = Restore(nd, <<>>)
  OBVIOUS
<1>4. SnapKept(nd, r) /\ r.blocks = <<>>
  BY <1>1, <1>2, <1>3, RestoreKept, Zenon
<1>5. PICK ns : ns = [nodes EXCEPT ![n] = r]
  BY Zenon
<1>6. ASSUME NEW d, DOMAIN d = Blocks, \A b \in freed : d[b] = data[b]
      PROVE  Tables(ns, freed, d)
  <2>1. Range(r.blocks) \cap freed = {} /\ Holds(d, r.blocks, r.hash)
    BY <1>2, <1>4 DEF Holds
  <2>2. Tables(ns, freed \cup Range(r.blocks), d)
    BY <1>1, <1>4, <1>5, <1>6, <2>1, RestoreTables, Zenon
  <2>3. freed \cup Range(r.blocks) = freed
    BY <1>2, <1>4
  <2> QED
    BY <2>2, <2>3
<1>7. ASSUME NEW s, Return(s, ns, freed), UNCHANGED <<data, meta, exposed>>
      PROVE  Inv'
  <2>1. TreeOK(ns) /\ KeepsBlocks(ns)
    BY <1>1, <1>4, <1>5, <1>7, RestoreGaveUp, Zenon DEF Return
  <2>2. Tables(ns, freed, data') /\ KeepsData(data')
    BY <1>1, <1>6, <1>7 DEF KeepsData
  <2> QED
    BY <1>1, <1>7, <2>1, <2>2, GaveUp
<1>8. ASSUME NEW blocks \in allocate_blocks(freed, Len(nd.sblocks)),
             BlockFault(blocks, read_blocks(nd.sblocks), ns, freed)
      PROVE  Inv'
  <2>1. /\ Range(blocks) \cap freed = {} /\ Len(read_blocks(nd.sblocks)) = Len(nd.sblocks)
    BY <1>1, <1>2, Allocated DEF read_blocks, NodeOK
  <2>2. \A d : /\ DOMAIN d = Blocks
               /\ \A b \in Blocks : b \notin Range(blocks) => d[b] = data[b]
               => Tables(ns, freed, d)
    BY <1>1, <1>6, <2>1, Zenon
  <2>3. mode' = "idle" => TreeOK(ns) /\ KeepsBlocks(ns)
    <3> HAVE mode' = "idle"
    <3>1. nodes' = ns /\ exposed' = exposed
      BY <1>8 DEF BlockFault, Return, Stop
    <3> QED
      BY <1>1, <1>4, <1>5, <3>1, RestoreGaveUp, Zenon
  <2>4. \A m \in Nodes : Range(nodes[m].sblocks) \cap Range(blocks) = {}
    BY <1>1, <2>1, RollbackFrees
  <2>5. exposed' = exposed
    BY <1>8 DEF BlockFault, Stop
  <2> QED
    BY <1>1, <1>2, <1>8, <2>1, <2>2, <2>3, <2>4, <2>5, Faulted, Zenon
<1>9. ASSUME NEW blocks \in allocate_blocks(freed, Len(nd.sblocks)),
             data' = write_blocks(blocks, read_blocks(nd.sblocks), Len(nd.sblocks)),
             nodes' = [nodes EXCEPT ![n] = Restore(nd, blocks)],
             bitmap' = freed \cup Range(blocks), todo' = todo \ {n},
             UNCHANGED <<meta, mode, exposed>>
      PROVE  Inv'
  <2>1. /\ blocks \in Seq(Blocks) /\ IsInjective(blocks) /\ Range(blocks) \cap freed = {}
    BY <1>2, Allocated
  <2>2. /\ DOMAIN data' = Blocks /\ Holds(data', blocks, nd.shash)
        /\ \A b \in Blocks : b \notin Range(blocks) => data'[b] = data[b]
        /\ (nd.sblocks = <<>>) = (blocks = <<>>)
    <3>1. /\ nd.sblocks \in Seq(Blocks) /\ nd.shash \in Seq(Sectors)
          /\ Holds(data, nd.sblocks, nd.shash)
      BY <1>1, Zenon DEF Tables, NodeOK
    <3> QED
      BY <1>1, <1>9, <3>1, Copied
  <2>3. Range(blocks) \cap Range(nd.sblocks) = {}
    BY <1>1, <2>1, RollbackFrees
  <2>4. PICK t : t = Restore(nd, blocks)
    OBVIOUS
  <2>5. SnapKept(nd, t) /\ t.blocks = blocks /\ t.hash = nd.shash /\ Same(t)
    BY <1>1, <2>1, <2>2, <2>3, <2>4, RestoreKept
  <2>6. \A b \in freed : data'[b] = data[b]
    BY <1>1, <2>1, <2>2
  <2>7. Tables(nodes', bitmap', data')
    BY <1>1, <1>9, <2>1, <2>2, <2>4, <2>5, <2>6, RestoreTables, ZenonT(60)
  <2>8. /\ SnapSame(nodes') /\ \A m \in Nodes : nodes'[m].active => nodes'[m].snap
        /\ nodes'[n] = t /\ \A m \in Nodes : m # n => nodes'[m] = nodes[m]
    <3>1. nodes' = [nodes EXCEPT ![n] = t] /\ DOMAIN nodes = Nodes
      BY <1>1, <1>9, <2>4, Zenon DEF Tables
    <3> QED
      BY <1>1, <2>5, <3>1, RestoreIn, ZenonT(60)
  <2>9. names' = names
    BY <1>1, <1>9, <2>8, NamesKept DEF SnapSame, Renamed
  <2>10. TypeInv'
    BY <1>9, <2>7, <2>9 DEF Inv, TypeInv
  <2>11. PhaseInv'
    <3>1. \A m \in Nodes \ todo' : Same(nodes'[m])
      BY <1>1, <1>9, <2>5, <2>8 DEF Inv, PhaseInv
    <3>2. \A m \in todo' : nodes'[m].snap /\ nodes'[m].stype = "FILE"
      BY <1>1, <1>9, <2>8 DEF Inv, PhaseInv, TypeInv
    <3> QED
      BY <1>1, <1>9, <2>8, <3>1, <3>2 DEF PhaseInv
  <2>12. TreeInv'
    BY <1>1, <1>9, <2>8, <2>9 DEF Inv, TreeInv, SnapSame
  <2>13. KeepsData(data') /\ KeepsBlocks(nodes')
    BY <1>1, <1>9, <2>6, <2>8, RollbackFrees, Zenon DEF KeepsData, KeepsBlocks, SnapSame
  <2>14. ImageInv'
    BY <1>1, <1>9, <2>13, ImageKept DEF Inv
  <2> QED
    BY <2>10, <2>11, <2>12, <2>14 DEF Inv
<1> QED
  BY <1>3, <1>5, <1>7, <1>8, <1>9, Zenon DEF restore_snapshot_node

LEMMA RollbackEndStep ==
  ASSUME Inv, RollbackEnd, Watch, UNCHANGED use
  PROVE  Inv'
<1>1. /\ mode = "rollback" /\ todo = {} /\ UNCHANGED data /\ write_metadata(nodes, bitmap)
      /\ Tables(nodes, bitmap, data)
  BY DEF RollbackEnd, Inv, TypeInv
<1>2. mode' = "idle" => TreeOK(nodes)
  <2> HAVE mode' = "idle"
  <2>1. nodes' = nodes
    BY <1>1 DEF write_metadata, Return, Stop
  <2>2. names' = names
    BY <1>1, <2>1, NamesKept DEF Renamed
  <2>3. /\ \A m \in Nodes : NodeOK(nodes[m]) /\ Same(nodes[m])
        /\ \A m \in Nodes : nodes[m].active => nodes[m].snap
    BY <1>1 DEF Inv, PhaseInv, Tables
  <2>4. SnapClosed(nodes) => LiveClosed(nodes)
    BY <2>3, RollbackLive
  <2> QED
    BY <1>1, <2>2, <2>4 DEF TreeOK, Inv, TreeInv
<1> QED
  BY <1>1, <1>2, Saved

-----------------------------------------------------------------------------
(* The invariant.                                                          *)
LEMMA InvInit == Init => Inv
<1> SUFFICES ASSUME Init PROVE Inv
  OBVIOUS
<1>1. DOMAIN data = Blocks
  BY DEF Init
<1>2. TypeInv
  BY <1>1, FreeTables, DataAssumption DEF Init, TypeInv
<1>3. PhaseInv
  BY DEF Init, PhaseInv
<1>4. TreeInv
  BY <1>1, FreeTables DEF Init, TreeInv
<1>5. ImageInv
  BY DEF Init, ImageInv
<1> QED
  BY <1>2, <1>3, <1>4, <1>5 DEF Inv

LEMMA InvNext == Inv /\ [Next]_vars => Inv'
<1> SUFFICES ASSUME Inv, [Next]_vars PROVE Inv'
  OBVIOUS
<1>1. CASE UNCHANGED vars
  <2>1. UNCHANGED <<nodes, bitmap, data, meta, mode, todo, exposed, names, use>>
    BY <1>1, Zenon DEF vars
  <2>2. TypeInv'
    BY <2>1, Zenon DEF Inv, TypeInv, Tables
  <2>3. PhaseInv'
    BY <2>1, Zenon DEF Inv, PhaseInv, Same
  <2>4. OwnPaths(nodes)' = OwnPaths(nodes)
    BY <2>1, Zenon DEF OwnPaths, Used
  <2>5. LiveClosed(nodes)' = LiveClosed(nodes)
    BY <2>1, Zenon DEF LiveClosed, LiveDir
  <2>6. SnapClosed(nodes)' = SnapClosed(nodes)
    BY <2>1, Zenon DEF SnapClosed, SnapDir
  <2>7. TreeInv'
    BY <2>1, <2>4, <2>5, <2>6, Zenon DEF Inv, TreeInv
  <2>8. ImageInv'
    BY <2>1, Zenon DEF Inv, ImageInv
  <2> QED
    BY <2>2, <2>3, <2>7, <2>8, Zenon DEF Inv
<1>2. CASE Next
  <2>1. /\ use.targets \subseteq Paths /\ use.contents \subseteq Seq(Sectors)
        /\ use.renames \subseteq Paths \X Paths
    BY DataAssumption DEF Inv, TypeInv, UseType
  <2>2. Watch /\ UNCHANGED use
    BY <1>2 DEF Next
  <2>3. CASE mutable_fs_mount_persistent
    BY <2>2, <2>3, MountStep
  <2>4. CASE \E p \in use.targets : create_dir(p) \/ delete_node(p)
    BY <2>1, <2>2, <2>4, CreateDirStep, DeleteStep
  <2>5. CASE \E p \in use.targets, c \in use.contents : write_file(p, c)
    BY <2>1, <2>2, <2>5, WriteFileStep
  <2>6. CASE \E r \in use.renames : rename_node(r[1], r[2])
    <3>1. PICK r \in use.renames : rename_node(r[1], r[2])
      BY <2>6
    <3>2. r[1] \in Paths /\ r[2] \in Paths
      BY <2>1
    <3> QED
      BY <2>2, <3>1, <3>2, RenameStep
  <2>7. CASE CommitBegin
    BY <2>2, <2>7, CommitBeginStep
  <2>8. CASE \E n \in Nodes : CommitNode(n)
    BY <2>2, <2>8, CommitNodeStep
  <2>9. CASE CommitEnd
    BY <2>2, <2>9, CommitEndStep
  <2>10. CASE RollbackBegin
    BY <2>2, <2>10, RollbackBeginStep
  <2>11. CASE \E n \in Nodes : restore_snapshot_node(n)
    BY <2>2, <2>11, RestoreStep
  <2>12. CASE RollbackEnd
    BY <2>2, <2>12, RollbackEndStep
  <2>13. CASE \E j \in use.journalled : write_pending_journal_file(j[1], j[2])
    BY <2>2, <2>13, Refused DEF write_pending_journal_file
  <2>14. CASE Crash
    <3>1. KeepsData(data') /\ DOMAIN data' = Blocks
      BY <2>14 DEF Crash, KeepsData, Inv, TypeInv, Tables
    <3> QED
      BY <2>2, <2>14, <3>1, Stopped DEF Crash
  <2> QED
    BY <1>2, <2>3, <2>4, <2>5, <2>6, <2>7, <2>8, <2>9, <2>10, <2>11, <2>12, <2>13, <2>14, Zenon DEF Next
<1> QED
  BY <1>1, <1>2

(* What every operation of mutable_fs.c keeps, whichever sector transfer   *)
(* fails and wherever the machine stops: well-formed entries and a bitmap  *)
(* that agree, the progress of a commit or a rollback, the tree, and the   *)
(* image on disk.                                                          *)
THEOREM InvariantHolds == Spec => []Inv
BY InvInit, InvNext, PTL DEF Spec

(* The bitmap and the node table stay one volume through every operation   *)
(* and every error path of mutable_fs.c: no block is shared, leaked or     *)
(* given back while in use, no path names two entries and every live entry *)
(* lies in a live directory.                                               *)
THEOREM VolumeStaysConsistent == Spec => []VolumeConsistent
<1>1. Inv => VolumeConsistent
  <2> SUFFICES ASSUME Inv PROVE VolumeConsistent
    OBVIOUS
  <2>1. Tables(nodes, bitmap, data)
    BY DEF Inv, TypeInv
  <2>2. BitmapExact
    <3>1. bitmap = UNION {Range(nodes[n].blocks) \cup Range(nodes[n].sblocks) : n \in Nodes}
      <4>1. \A n \in Nodes : Own(nodes[n]) \subseteq Blocks
        BY <2>1, InBitmap
      <4>2. bitmap = UNION {Own(nodes[n]) : n \in Nodes}
        BY <2>1, <4>1 DEF Tables
      <4> QED
        BY <4>2, Zenon DEF Own
    <3>2. ASSUME NEW n \in Nodes, NEW m \in Nodes, NEW g \in {"live", "snap"},
                 NEW h \in {"live", "snap"}
          PROVE  /\ IsInjective(Half(g, nodes[n]))
                 /\ <<n, g>> # <<m, h>> =>
                      Range(Half(g, nodes[n])) \cap Range(Half(h, nodes[m])) = {}
      <4>1. NodeOK(nodes[n]) /\ (n # m => Own(nodes[n]) \cap Own(nodes[m]) = {})
        BY <2>1 DEF Tables
      <4>2. IsInjective(Half(g, nodes[n]))
        BY <4>1 DEF Half, NodeOK
      <4>3. /\ Range(Half(g, nodes[n])) \subseteq Own(nodes[n])
            /\ Range(Half(h, nodes[m])) \subseteq Own(nodes[m])
        BY DEF Half, Own
      <4>4. CASE n # m
        BY <4>1, <4>2, <4>3, <4>4
      <4>5. CASE n = m /\ g # h
        BY <4>1, <4>2, <4>5, Zenon DEF Half, NodeOK
      <4> QED
        BY <4>2, <4>4, <4>5
    <3> QED
      BY <3>1, <3>2 DEF BitmapExact
  <2>3. TreeClosed
    <3> SUFFICES ASSUME mode = "idle", NEW n \in Nodes, nodes[n].active
                 PROVE  /\ names # "clash" => find_node(nodes[n].path, TRUE) = {n}
                        /\ names = "whole" => parent_exists_for(nodes[n].path)
      BY Zenon DEF TreeClosed
    <3>1. names # "clash" => find_node(nodes[n].path, TRUE) = {n}
      <4> HAVE names # "clash"
      <4>1. OwnPaths(nodes)
        BY Zenon DEF Inv, TreeInv
      <4> QED
        BY <4>1 DEF OwnPaths, Used, find_node
    <3>2. names = "whole" => parent_exists_for(nodes[n].path)
      <4> HAVE names = "whole"
      <4>1. LiveDir(nodes, Parent[nodes[n].path])
        BY DEF Inv, TreeInv, LiveClosed
      <4> QED
        BY <4>1 DEF LiveDir, parent_exists_for, find_node
    <3> QED
      BY <3>1, <3>2, Zenon
  <2> QED
    BY <2>2, <2>3 DEF VolumeConsistent
<1> QED
  BY <1>1, InvariantHolds, PTL

(* Whenever the machine stops, the files of a complete image on disk can   *)
(* be read, in the half that is not exposed: write_file never writes to a  *)
(* block that the image lists.                                             *)
THEOREM ImageStaysReadable == Spec => []ImageReadable
<1>1. Inv => ImageReadable
  <2> SUFFICES ASSUME Inv, meta # Torn, NEW n \in Nodes
               PROVE  LET nd == meta.body.nodes[n] IN
                      /\ "live" \notin exposed /\ nd.blocks # <<>> =>
                           read_blocks(nd.blocks) = nd.hash
                      /\ "snap" \notin exposed /\ nd.sblocks # <<>> =>
                           read_blocks(nd.sblocks) = nd.shash
    BY DEF ImageReadable
  <2> DEFINE nd == meta.body.nodes[n]
  <2>1. /\ nd.hash \in Seq(Sectors) /\ nd.shash \in Seq(Sectors)
        /\ nd.blocks \in Seq(Blocks) /\ nd.sblocks \in Seq(Blocks)
        /\ "live" \notin exposed => Holds(data, nd.blocks, nd.hash)
        /\ "snap" \notin exposed => Holds(data, nd.sblocks, nd.shash)
    BY DEF Inv, ImageInv
  <2> HIDE DEF nd
  <2>2. "live" \notin exposed /\ nd.blocks # <<>> => read_blocks(nd.blocks) = nd.hash
    BY <2>1, ReadHolds
  <2>3. "snap" \notin exposed /\ nd.sblocks # <<>> => read_blocks(nd.sblocks) = nd.shash
    BY <2>1, ReadHolds
  <2> QED
    BY <2>2, <2>3 DEF nd
<1> QED
  BY <1>1, InvariantHolds, PTL

(* An operation that changed the tables, committed or rolled back and      *)
(* answers OK has written the image of the tables it leaves in memory.     *)
THEOREM AnsweredOkIsOnDisk == Spec => OkIsOnDisk
<1> DEFINE Step == /\ mode' = "idle" /\ status' = "OK"
                   /\ mode # "idle" \/ <<nodes, bitmap>>' # <<nodes, bitmap>>
                   => meta' = Image(nodes', bitmap')
<1>1. ASSUME Inv, [Next]_vars PROVE [Step]_vars
  <2> SUFFICES ASSUME Next, mode' = "idle", status' = "OK",
                      mode # "idle" \/ <<nodes, bitmap>>' # <<nodes, bitmap>>
               PROVE  meta' = Image(nodes', bitmap')
    BY <1>1
  <2>1. ~ validate_disk(meta)
    BY <1>1, NeverValid DEF Inv
  <2>2. ASSUME NEW ns, NEW bm, write_metadata(ns, bm) PROVE meta' = Image(nodes', bitmap')
    BY <2>2 DEF write_metadata, Return, Stop
  <2>3. ASSUME NEW s, Reject(s), mode = "idle" PROVE FALSE
    BY <2>3 DEF Reject
  <2>4. ASSUME NEW blocks, NEW c, NEW ns, NEW bm, BlockFault(blocks, c, ns, bm) PROVE FALSE
    BY <2>4 DEF BlockFault, Return, Stop
  <2>5. CASE mutable_fs_mount_persistent
    <3>1. mode = "down"
      BY <2>5 DEF mutable_fs_mount_persistent
    <3> QED
      BY <2>1, <2>5, <3>1 DEF mutable_fs_mount_persistent
  <2>6. CASE \E p \in use.targets : create_dir(p)
    BY <2>2, <2>3, <2>6, ZenonT(60) DEF create_dir
  <2>7. CASE \E p \in use.targets : delete_node(p)
    BY <2>2, <2>3, <2>7, Zenon DEF delete_node
  <2>8. CASE \E p \in use.targets, c \in use.contents : write_file(p, c)
    <3>1. PICK p \in use.targets, c \in use.contents : write_file(p, c)
      BY <2>8
    <3>2. ASSUME NEW blocks, WriteNode(p, c, blocks), mode = "idle"
          PROVE  meta' = Image(nodes', bitmap')
      BY <2>2, <2>3, <3>2, ZenonT(60) DEF WriteNode
    <3> QED
      BY <2>3, <2>4, <3>1, <3>2 DEF write_file
  <2>9. CASE \E r \in use.renames : rename_node(r[1], r[2])
    BY <2>2, <2>3, <2>9, Zenon DEF rename_node
  <2>10. CASE CommitBegin \/ RollbackBegin
    BY <2>10 DEF CommitBegin, RollbackBegin
  <2>11. CASE \E n \in Nodes : CommitNode(n)
    <3>1. PICK n \in Nodes : CommitNode(n)
      BY <2>11
    <3> QED
      BY <2>4, <3>1, Zenon DEF CommitNode, Return
  <2>12. CASE \E n \in Nodes : restore_snapshot_node(n)
    <3>1. PICK n \in Nodes : restore_snapshot_node(n)
      BY <2>12
    <3> QED
      BY <2>4, <3>1, Zenon DEF restore_snapshot_node, Return
  <2>13. CASE CommitEnd \/ RollbackEnd
    BY <2>2, <2>13, Zenon DEF CommitEnd, RollbackEnd
  <2>14. CASE \E j \in use.journalled : write_pending_journal_file(j[1], j[2])
    BY <2>14, Zenon DEF write_pending_journal_file
  <2>15. CASE Crash
    BY <2>15 DEF Crash, Stop
  <2> QED
    BY <2>5, <2>6, <2>7, <2>8, <2>9, <2>10, <2>11, <2>12, <2>13, <2>14, <2>15, Zenon DEF Next
<1> QED
  BY <1>1, InvariantHolds, PTL DEF OkIsOnDisk, Spec

-----------------------------------------------------------------------------
(* The refinement.  What a path shows depends on the entry alone: a half   *)
(* that has lost its blocks is unreadable unless the file was empty.       *)
Val(type, hash, blocks) ==
  IF type = "DIR" THEN <<"dir">>
  ELSE IF blocks # <<>> \/ hash = <<>> THEN <<"file", hash>> ELSE <<"broken">>

LiveVal(nd) == Val(nd.type, nd.hash, nd.blocks)
SnapVal(nd) == Val(nd.stype, nd.shash, nd.sblocks)

ShowsLive(T, ns) ==
  /\ T = [x \in Paths |-> T[x]]
  /\ \A n \in Nodes : ns[n].active => T[ns[n].path] = LiveVal(ns[n])
  /\ \A x \in Paths : (\A n \in Nodes : ns[n].active => ns[n].path # x) => T[x] = <<>>

ShowsSnap(T, ns) ==
  /\ T = [x \in Paths |-> T[x]]
  /\ \A n \in Nodes : ns[n].snap => T[ns[n].path] = SnapVal(ns[n])
  /\ \A x \in Paths : (\A n \in Nodes : ns[n].snap => ns[n].path # x) => T[x] = <<>>

Shown(d, type, hash, blocks) ==
  IF type = "DIR" THEN <<"dir">>
  ELSE IF [i \in 1 .. Len(blocks) |-> d[blocks[i]]] = hash
       THEN <<"file", hash>> ELSE <<"broken">>

LEMMA ShownVal ==
  ASSUME NEW d, NEW type, NEW blocks \in Seq(Blocks), NEW hash \in Seq(Sectors),
         Holds(d, blocks, hash)
  PROVE  Shown(d, type, hash, blocks) = Val(type, hash, blocks)
<1>1. CASE blocks = <<>>
  <2>1. [i \in 1 .. Len(blocks) |-> d[blocks[i]]] = <<>>
    BY <1>1
  <2> QED
    BY <1>1, <2>1 DEF Shown, Val
<1>2. CASE blocks # <<>>
  <2>1. Len(blocks) = Len(hash) /\ \A i \in 1 .. Len(blocks) : d[blocks[i]] = hash[i]
    BY <1>2 DEF Holds
  <2>2. hash = [i \in 1 .. Len(hash) |-> hash[i]]
    OBVIOUS
  <2>3. [i \in 1 .. Len(blocks) |-> d[blocks[i]]] = hash
    BY <2>1, <2>2
  <2> QED
    BY <1>2, <2>3 DEF Shown, Val
<1> QED
  BY <1>1, <1>2

LiveOf(ns, d) ==
  [p \in Paths |->
     IF \E n \in Nodes : ns[n].active /\ ns[n].path = p
     THEN LET nd == ns[CHOOSE n \in Nodes : ns[n].active /\ ns[n].path = p]
          IN  Shown(d, nd.type, nd.hash, nd.blocks)
     ELSE <<>>]

SnapOf(ns, d) ==
  [p \in Paths |->
     IF \E n \in Nodes : ns[n].snap /\ ns[n].path = p
     THEN LET nd == ns[CHOOSE n \in Nodes : ns[n].snap /\ ns[n].path = p]
          IN  Shown(d, nd.stype, nd.shash, nd.sblocks)
     ELSE <<>>]

LEMMA TreesOf ==
  /\ LiveTree = LiveOf(nodes, data) /\ LiveTree' = LiveOf(nodes', data')
  /\ SnapTree = SnapOf(nodes, data) /\ SnapTree' = SnapOf(nodes', data')
BY Zenon DEF LiveTree, SnapTree, LiveOf, SnapOf, Shown, Entry, read_blocks

LEMMA LiveShown ==
  ASSUME NEW ns, NEW bm, NEW d, Tables(ns, bm, d), OwnPaths(ns)
  PROVE  ShowsLive(LiveOf(ns, d), ns)
<1> DEFINE T == LiveOf(ns, d)
<1>1. T = [x \in Paths |-> T[x]]
  BY DEF LiveOf
<1>2. ASSUME NEW n \in Nodes, ns[n].active PROVE T[ns[n].path] = LiveVal(ns[n])
  <2>1. /\ ns[n].path \in Paths /\ ns[n].blocks \in Seq(Blocks) /\ ns[n].hash \in Seq(Sectors)
        /\ Holds(d, ns[n].blocks, ns[n].hash)
    BY Zenon DEF Tables, NodeOK
  <2>2. \A m \in Nodes : ns[m].active /\ ns[m].path = ns[n].path => m = n
    BY <1>2 DEF OwnPaths, Used
  <2>3. (CHOOSE m \in Nodes : ns[m].active /\ ns[m].path = ns[n].path) = n
    BY <1>2, <2>2
  <2>4. T[ns[n].path] = Shown(d, ns[n].type, ns[n].hash, ns[n].blocks)
    BY <1>2, <2>1, <2>3, Zenon DEF LiveOf
  <2> QED
    BY <2>1, <2>4, ShownVal DEF LiveVal
<1>3. ASSUME NEW x \in Paths, \A n \in Nodes : ns[n].active => ns[n].path # x
      PROVE  T[x] = <<>>
  BY <1>3 DEF LiveOf
<1> QED
  BY <1>1, <1>2, <1>3 DEF ShowsLive

LEMMA SnapShown ==
  ASSUME NEW ns, NEW bm, NEW d, Tables(ns, bm, d), OwnPaths(ns)
  PROVE  ShowsSnap(SnapOf(ns, d), ns)
<1> DEFINE T == SnapOf(ns, d)
<1>1. T = [x \in Paths |-> T[x]]
  BY DEF SnapOf
<1>2. ASSUME NEW n \in Nodes, ns[n].snap PROVE T[ns[n].path] = SnapVal(ns[n])
  <2>1. /\ ns[n].path \in Paths /\ ns[n].sblocks \in Seq(Blocks) /\ ns[n].shash \in Seq(Sectors)
        /\ Holds(d, ns[n].sblocks, ns[n].shash)
    BY Zenon DEF Tables, NodeOK
  <2>2. \A m \in Nodes : ns[m].snap /\ ns[m].path = ns[n].path => m = n
    BY <1>2 DEF OwnPaths, Used
  <2>3. (CHOOSE m \in Nodes : ns[m].snap /\ ns[m].path = ns[n].path) = n
    BY <1>2, <2>2
  <2>4. T[ns[n].path] = Shown(d, ns[n].stype, ns[n].shash, ns[n].sblocks)
    BY <1>2, <2>1, <2>3, Zenon DEF SnapOf
  <2> QED
    BY <2>1, <2>4, ShownVal DEF SnapVal
<1>3. ASSUME NEW x \in Paths, \A n \in Nodes : ns[n].snap => ns[n].path # x
      PROVE  T[x] = <<>>
  BY <1>3 DEF SnapOf
<1> QED
  BY <1>1, <1>2, <1>3 DEF ShowsSnap

LEMMA Trees ==
  ASSUME Inv, Inv', names # "clash", names' # "clash"
  PROVE  /\ ShowsLive(LiveTree, nodes) /\ ShowsLive(LiveTree', nodes')
         /\ ShowsSnap(SnapTree, nodes) /\ ShowsSnap(SnapTree', nodes')
<1>1. Tables(nodes, bitmap, data) /\ OwnPaths(nodes)
  BY DEF Inv, TypeInv, TreeInv
<1>2. Tables(nodes', bitmap', data') /\ OwnPaths(nodes')
  BY DEF Inv, TypeInv, TreeInv
<1>3. ShowsLive(LiveOf(nodes, data), nodes) /\ ShowsLive(LiveOf(nodes', data'), nodes')
  BY <1>1, <1>2, LiveShown
<1>4. ShowsSnap(SnapOf(nodes, data), nodes) /\ ShowsSnap(SnapOf(nodes', data'), nodes')
  BY <1>1, <1>2, SnapShown
<1> QED
  BY <1>3, <1>4, TreesOf

LEMMA ValFacts ==
  ASSUME NEW type, NEW hash, NEW blocks
  PROVE  /\ Val(type, hash, blocks) # <<>>
         /\ Val(type, hash, blocks) = <<"dir">> <=> type = "DIR"
BY DEF Val

(* Two tables that show the same at a path.                                *)
AgreeLive(ns, ms, x) ==
  \A m \in Nodes :
    /\ ns[m].active /\ ns[m].path = x <=> ms[m].active /\ ms[m].path = x
    /\ ns[m].active /\ ns[m].path = x => LiveVal(ms[m]) = LiveVal(ns[m])

AgreeSnap(ns, ms, x) ==
  \A m \in Nodes :
    /\ ns[m].snap /\ ns[m].path = x <=> ms[m].snap /\ ms[m].path = x
    /\ ns[m].snap /\ ns[m].path = x => SnapVal(ms[m]) = SnapVal(ns[m])

LiveBut(ns, ms, S) == \A x \in Paths \ S : AgreeLive(ns, ms, x)

LEMMA LiveAt ==
  ASSUME NEW T, NEW U, NEW ns, NEW ms, ShowsLive(T, ns), ShowsLive(U, ms),
         NEW x \in Paths, AgreeLive(ns, ms, x)
  PROVE  U[x] = T[x]
<1>1. CASE \E n \in Nodes : ns[n].active /\ ns[n].path = x
  <2>1. PICK n \in Nodes : ns[n].active /\ ns[n].path = x
    BY <1>1
  <2>2. ms[n].active /\ ms[n].path = x /\ LiveVal(ms[n]) = LiveVal(ns[n])
    BY <2>1 DEF AgreeLive
  <2>3. T[ns[n].path] = LiveVal(ns[n]) /\ U[ms[n].path] = LiveVal(ms[n])
    BY <2>1, <2>2, Zenon DEF ShowsLive
  <2> QED
    BY <2>1, <2>2, <2>3
<1>2. CASE \A n \in Nodes : ns[n].active => ns[n].path # x
  BY <1>2 DEF ShowsLive, AgreeLive
<1> QED
  BY <1>1, <1>2

SnapBut(ns, ms, S) == \A x \in Paths \ S : AgreeSnap(ns, ms, x)

LEMMA SnapAt ==
  ASSUME NEW T, NEW U, NEW ns, NEW ms, ShowsSnap(T, ns), ShowsSnap(U, ms),
         NEW x \in Paths, AgreeSnap(ns, ms, x)
  PROVE  U[x] = T[x]
<1>1. CASE \E n \in Nodes : ns[n].snap /\ ns[n].path = x
  <2>1. PICK n \in Nodes : ns[n].snap /\ ns[n].path = x
    BY <1>1
  <2>2. ms[n].snap /\ ms[n].path = x /\ SnapVal(ms[n]) = SnapVal(ns[n])
    BY <2>1 DEF AgreeSnap
  <2>3. T[ns[n].path] = SnapVal(ns[n]) /\ U[ms[n].path] = SnapVal(ms[n])
    BY <2>1, <2>2, Zenon DEF ShowsSnap
  <2> QED
    BY <2>1, <2>2, <2>3
<1>2. CASE \A n \in Nodes : ns[n].snap => ns[n].path # x
  BY <1>2 DEF ShowsSnap, AgreeSnap
<1> QED
  BY <1>1, <1>2

LEMMA LiveTrees ==
  ASSUME NEW T, NEW U, NEW ns, NEW ms, ShowsLive(T, ns), ShowsLive(U, ms), NEW S,
         LiveBut(ns, ms, S)
  PROVE  /\ S = {} => U = T
         /\ \A p \in Paths : S = {p} => U = [T EXCEPT ![p] = U[p]]
         /\ \A x \in Paths \ S : U[x] = T[x]
<1>1. ASSUME NEW x \in Paths \ S PROVE U[x] = T[x]
  <2>1. x \in Paths /\ AgreeLive(ns, ms, x)
    BY DEF LiveBut
  <2> QED
    BY <2>1, LiveAt
<1>2. T = [x \in Paths |-> T[x]] /\ U = [x \in Paths |-> U[x]]
  BY DEF ShowsLive
<1> QED
  BY <1>1, <1>2

LEMMA SnapTrees ==
  ASSUME NEW T, NEW U, NEW ns, NEW ms, ShowsSnap(T, ns), ShowsSnap(U, ms), NEW S,
         SnapBut(ns, ms, S)
  PROVE  /\ S = {} => U = T
         /\ \A p \in Paths : S = {p} => U = [T EXCEPT ![p] = U[p]]
         /\ \A x \in Paths \ S : U[x] = T[x]
<1>1. ASSUME NEW x \in Paths \ S PROVE U[x] = T[x]
  <2>1. x \in Paths /\ AgreeSnap(ns, ms, x)
    BY DEF SnapBut
  <2> QED
    BY <2>1, SnapAt
<1>2. T = [x \in Paths |-> T[x]] /\ U = [x \in Paths |-> U[x]]
  BY DEF ShowsSnap
<1> QED
  BY <1>1, <1>2

(* An entry that the live tree or the snapshot shows, or does not.         *)
LEMMA LiveIs ==
  ASSUME NEW T, NEW ns, ShowsLive(T, ns), NEW n \in Nodes, ns[n].active
  PROVE  T[ns[n].path] = LiveVal(ns[n])
BY DEF ShowsLive

LEMMA LiveIsNot ==
  ASSUME NEW T, NEW ns, ShowsLive(T, ns), NEW x \in Paths,
         \A n \in Nodes : ns[n].active => ns[n].path # x
  PROVE  T[x] = <<>>
BY DEF ShowsLive

(* What a step of the file system is to FileStore.                         *)
StoreStep == Store!StoreNext \/ UNCHANGED Store!storeVars

LEMMA Unmoved ==
  ASSUME Inv, Inv', names # "clash", names' # "clash", nodes' = nodes, mode' = mode
  PROVE  StoreStep
<1>1. LiveBut(nodes, nodes', {}) /\ SnapBut(nodes, nodes', {})
  BY DEF LiveBut, SnapBut, AgreeLive, AgreeSnap
<1>2. LiveTree' = LiveTree
  BY <1>1, Trees, LiveTrees
<1>3. SnapTree' = SnapTree
  BY <1>1, Trees, SnapTrees
<1> QED
  BY <1>2, <1>3 DEF StoreStep, Store!storeVars

LEMMA StopRefines ==
  ASSUME Inv, Inv', mode' \in {"down", "astray"}
  PROVE  StoreStep
<1>1. nodes' = AllFree /\ names' = "whole"
  BY Zenon DEF Inv, PhaseInv
<1>2. \A n \in Nodes : AllFree[n].active = FALSE /\ AllFree[n].snap = FALSE
  BY Zenon DEF AllFree, FreeNode
<1>3. LiveTree' = Store!Empty /\ SnapTree' = Store!Empty
  BY <1>1, <1>2, TreesOf, Zenon DEF LiveOf, SnapOf, Store!Empty, Store!Absent
<1> QED
  BY <1>1, <1>3 DEF StoreStep, Store!StoreNext, Store!StoreStop
=============================================================================
