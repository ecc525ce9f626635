------------------------ MODULE MutableFsInvariant --------------------------
(***************************************************************************)
(* What every operation of mutable_fs.c keeps, for any tree of paths, any  *)
(* number of nodes and blocks, any contents and any number of failing      *)
(* transfers: the invariant, and that mounting, creating, writing, deleting, *)
(* renaming and commits preserve it.  Rollbacks are in MutableFsProofs, with *)
(* the theorems.                                                           *)
(***************************************************************************)
EXTENDS MutableFs, TLAPS

USE SMTT(60), ZenonT(30)

-----------------------------------------------------------------------------
(* The inductive invariant.                                                *)
Fields == {"active", "path", "type", "hash", "blocks", "recent",
           "snap", "stype", "shash", "sblocks", "srecent"}

Own(nd) == Range(nd.blocks) \cup Range(nd.sblocks)

(* One entry: its halves share no block, a half that is not in use has no  *)
(* blocks, and an entry the snapshot does not hold is younger than it.     *)
NodeOK(nd) ==
  /\ DOMAIN nd = Fields
  /\ nd.active \in BOOLEAN /\ nd.snap \in BOOLEAN
  /\ nd.recent \in BOOLEAN /\ nd.srecent \in BOOLEAN
  /\ nd.path \in Paths
  /\ nd.type \in {"DIR", "FILE"} /\ nd.stype \in {"DIR", "FILE"}
  /\ nd.hash \in Seq(Sectors) /\ nd.shash \in Seq(Sectors)
  /\ nd.blocks \in Seq(Blocks) /\ nd.sblocks \in Seq(Blocks)
  /\ IsInjective(nd.blocks) /\ IsInjective(nd.sblocks)
  /\ Range(nd.blocks) \cap Range(nd.sblocks) = {}
  /\ ~ nd.active => nd.blocks = <<>>
  /\ ~ nd.snap => nd.sblocks = <<>>
  /\ nd.active /\ ~ nd.snap => nd.recent

(* The sectors of a half, if it has any, hold its contents.                *)
Holds(d, blocks, hash) ==
  blocks # <<>> => /\ Len(blocks) = Len(hash)
                   /\ \A i \in 1 .. Len(blocks) : d[blocks[i]] = hash[i]

(* The node table ns and the bitmap bm over the sectors d: every block in  *)
(* use belongs to one half of one entry, and holds its contents.           *)
Tables(ns, bm, d) ==
  /\ DOMAIN ns = Nodes /\ bm \subseteq Blocks /\ DOMAIN d = Blocks
  /\ \A n \in Nodes : NodeOK(ns[n])
  /\ \A b \in Blocks : b \in bm <=> \E n \in Nodes : b \in Own(ns[n])
  /\ \A n, m \in Nodes : n # m => Own(ns[n]) \cap Own(ns[m]) = {}
  /\ \A n \in Nodes : /\ Holds(d, ns[n].blocks, ns[n].hash)
                      /\ Holds(d, ns[n].sblocks, ns[n].shash)

TypeInv ==
  /\ Tables(nodes, bitmap, data)
  /\ mode \in {"down", "astray", "idle", "commit", "rollback"} /\ todo \subseteq Nodes
  /\ names \in {"whole", "loose", "clash"}
  /\ use \in Uses

(* What commit_snapshot and rollback_snapshot have made equal so far, and  *)
(* the half of the image each of them overwrites.                          *)
Same(nd) ==
  /\ nd.active = nd.snap
  /\ nd.active => /\ nd.type = nd.stype
                  /\ nd.type = "FILE" => /\ nd.hash = nd.shash
                                         /\ (nd.blocks = <<>>) = (nd.sblocks = <<>>)

PhaseInv ==
  /\ mode \in {"down", "astray"} =>
       nodes = AllFree /\ bitmap = {} /\ names = "whole" /\ todo = {}
  /\ mode \in {"commit", "rollback"} => \A n \in Nodes \ todo : Same(nodes[n])
  /\ mode = "commit" => "snap" \in exposed
  /\ mode = "rollback" =>
       /\ "live" \in exposed
       /\ \A n \in Nodes : nodes[n].active => nodes[n].snap
       /\ \A n \in todo : nodes[n].snap /\ nodes[n].stype = "FILE"

Used(nd) == nd.active \/ nd.snap

(* Every entry in use has a path of its own; the live tree is closed, and  *)
(* so is the snapshot.                                                     *)
OwnPaths(ns) ==
  \A n, m \in Nodes : Used(ns[n]) /\ Used(ns[m]) /\ ns[n].path = ns[m].path => n = m

LiveDir(ns, p) ==
  p = Root \/ \E m \in Nodes : ns[m].active /\ ns[m].path = p /\ ns[m].type = "DIR"
LiveClosed(ns) == \A n \in Nodes : ns[n].active => LiveDir(ns, Parent[ns[n].path])

SnapDir(ns, p) ==
  p = Root \/ \E m \in Nodes : ns[m].snap /\ ns[m].path = p /\ ns[m].stype = "DIR"
SnapClosed(ns) == \A n \in Nodes : ns[n].snap => SnapDir(ns, Parent[ns[n].path])

TreeInv ==
  /\ names # "clash" => OwnPaths(nodes)
  /\ names = "whole" /\ mode # "rollback" => LiveClosed(nodes)
  /\ names = "whole" /\ mode # "commit" => SnapClosed(nodes)

(* A half of the image that is not exposed is readable, and is the one in  *)
(* memory while the machine runs.                                          *)
ImageInv ==
  /\ meta = Torn \/ \E ns, bm : meta = Image(ns, bm)
  /\ meta # Torn => \A n \in Nodes :
       LET nd == meta.body.nodes[n] IN
       /\ nd.hash \in Seq(Sectors) /\ nd.shash \in Seq(Sectors)
       /\ nd.blocks \in Seq(Blocks) /\ nd.sblocks \in Seq(Blocks)
       /\ "live" \notin exposed =>
            /\ Holds(data, nd.blocks, nd.hash)
            /\ mode # "down" => nd.blocks = nodes[n].blocks
       /\ "snap" \notin exposed =>
            /\ Holds(data, nd.sblocks, nd.shash)
            /\ mode # "down" => nd.sblocks = nodes[n].sblocks

Inv == TypeInv /\ PhaseInv /\ TreeInv /\ ImageInv

-----------------------------------------------------------------------------
(* The items of a sequence.                                                *)
LEMMA RangeOf ==
  ASSUME NEW S, NEW s \in Seq(S)
  PROVE  Range(s) \subseteq S /\ Len(s) \in Nat /\ \A i \in 1 .. Len(s) : s[i] \in Range(s)
BY DEF Range

LEMMA NoBlocks ==
  /\ <<>> \in Seq(Blocks) /\ <<>> \in Seq(Sectors) /\ DOMAIN <<>> = {}
  /\ Range(<<>>) = {} /\ IsInjective(<<>>)
<1>1. <<>> \in Seq(Blocks) /\ <<>> \in Seq(Sectors) /\ DOMAIN <<>> = {}
  OBVIOUS
<1> QED
  BY <1>1 DEF Range, IsInjective

(* The sectors of a half still hold its contents when others are written.  *)
LEMMA HoldsKept ==
  ASSUME NEW d, NEW e, NEW blocks \in Seq(Blocks), NEW hash, Holds(d, blocks, hash),
         \A b \in Range(blocks) : e[b] = d[b]
  PROVE  Holds(e, blocks, hash)
BY RangeOf DEF Holds

(* The tables.  An entry that is replaced gives its blocks back and takes  *)
(* the new ones; the other entries' sectors must not have been written.    *)
LEMMA TablesReplace ==
  ASSUME NEW ns, NEW bm, NEW d, Tables(ns, bm, d), NEW n \in Nodes, NEW nd, NodeOK(nd),
         NEW e, DOMAIN e = Blocks, \A b \in bm \ Own(ns[n]) : e[b] = d[b],
         Holds(e, nd.blocks, nd.hash), Holds(e, nd.sblocks, nd.shash),
         Own(nd) \cap (bm \ Own(ns[n])) = {}, Own(nd) \subseteq Blocks,
         NEW cm, cm = (bm \ Own(ns[n])) \cup Own(nd)
  PROVE  Tables([ns EXCEPT ![n] = nd], cm, e)
<1> DEFINE ms == [ns EXCEPT ![n] = nd]
<1>1. DOMAIN ms = Nodes /\ ms[n] = nd /\ \A m \in Nodes : m # n => ms[m] = ns[m]
  BY DEF Tables
<1> HIDE DEF ms
<1>2. \A m \in Nodes : NodeOK(ms[m])
  BY <1>1 DEF Tables
<1>3. \A m \in Nodes : m # n => Own(ns[m]) \cap Own(ns[n]) = {}
  BY DEF Tables
<1>4. \A m \in Nodes : Own(ns[m]) \subseteq Blocks
  BY DEF Tables, NodeOK, Own, Range
<1>41. \A m \in Nodes : Own(ns[m]) \subseteq bm
  BY <1>4 DEF Tables
<1>5. \A b \in Blocks : b \in cm <=> \E m \in Nodes : b \in Own(ms[m])
  <2> SUFFICES ASSUME NEW b \in Blocks
               PROVE  b \in cm <=> \E m \in Nodes : b \in Own(ms[m])
    OBVIOUS
  <2>1. ASSUME b \in cm PROVE \E m \in Nodes : b \in Own(ms[m])
    <3>1. CASE b \in Own(nd)
      BY <1>1, <3>1
    <3>2. CASE b \in bm \ Own(ns[n])
      <4>1. PICK m \in Nodes : b \in Own(ns[m])
        BY <3>2 DEF Tables
      <4>2. m # n
        BY <3>2, <4>1
      <4> QED
        BY <1>1, <4>1, <4>2
    <3> QED
      BY <2>1, <3>1, <3>2
  <2>2. ASSUME NEW m \in Nodes, b \in Own(ms[m]) PROVE b \in cm
    BY <1>1, <1>3, <1>41, <2>2
  <2> QED
    BY <2>1, <2>2
<1>6. \A m, k \in Nodes : m # k => Own(ms[m]) \cap Own(ms[k]) = {}
  <2>1. \A m \in Nodes : m # n => Own(ns[m]) \subseteq bm \ Own(ns[n])
    BY <1>3, <1>41
  <2>2. \A m \in Nodes : m # n => Own(nd) \cap Own(ns[m]) = {}
    BY <2>1
  <2> QED
    BY <1>1, <2>2 DEF Tables
<1>7. \A m \in Nodes : /\ Holds(e, ms[m].blocks, ms[m].hash)
                       /\ Holds(e, ms[m].sblocks, ms[m].shash)
  <2> SUFFICES ASSUME NEW m \in Nodes, m # n
               PROVE  /\ Holds(e, ns[m].blocks, ns[m].hash)
                      /\ Holds(e, ns[m].sblocks, ns[m].shash)
    BY <1>1
  <2>1. \A b \in Own(ns[m]) : e[b] = d[b]
    BY <1>3, <1>41
  <2>2. ns[m].blocks \in Seq(Blocks) /\ ns[m].sblocks \in Seq(Blocks)
    BY DEF Tables, NodeOK
  <2>3. /\ \A i \in 1 .. Len(ns[m].blocks) : ns[m].blocks[i] \in Own(ns[m])
        /\ \A i \in 1 .. Len(ns[m].sblocks) : ns[m].sblocks[i] \in Own(ns[m])
    BY <2>2 DEF Own, Range
  <2>4. Holds(d, ns[m].blocks, ns[m].hash) /\ Holds(d, ns[m].sblocks, ns[m].shash)
    BY DEF Tables
  <2> QED
    BY <2>1, <2>3, <2>4 DEF Holds
<1> QED
  BY <1>1, <1>2, <1>5, <1>6, <1>7 DEF Tables, ms

(* New blocks are a sequence of free ones without repetition.              *)
LEMMA Allocated ==
  ASSUME NEW bm, NEW count \in Nat, NEW blocks \in allocate_blocks(bm, count)
  PROVE  /\ blocks \in Seq(Blocks) /\ Len(blocks) = count /\ IsInjective(blocks)
         /\ Range(blocks) \subseteq Blocks /\ Range(blocks) \cap bm = {}
         /\ DOMAIN blocks = 1 .. count
BY DEF allocate_blocks, IsInjective, Range

(* Writing to them changes no other sector, and all the sectors together   *)
(* hold the contents.                                                      *)
LEMMA Written ==
  ASSUME DOMAIN data = Blocks, NEW bm, NEW c, NEW count \in Nat, Len(c) = count,
         NEW blocks \in allocate_blocks(bm, count), NEW k \in 0 .. count
  PROVE  /\ DOMAIN write_blocks(blocks, c, k) = Blocks
         /\ \A b \in Blocks : b \notin Range(blocks) => write_blocks(blocks, c, k)[b] = data[b]
         /\ Holds(write_blocks(blocks, c, count), blocks, c)
<1>1. /\ blocks \in Seq(Blocks) /\ Len(blocks) = count /\ IsInjective(blocks)
      /\ DOMAIN blocks = 1 .. count /\ \A i \in 1 .. count : blocks[i] \in Blocks
  BY Allocated DEF Range
<1>2. DOMAIN write_blocks(blocks, c, k) = Blocks
  BY DEF write_blocks
<1>3. \A i \in 1 .. k : blocks[i] \in Range(blocks)
  BY <1>1 DEF Range
<1>4. \A b \in Blocks : b \notin Range(blocks) => write_blocks(blocks, c, k)[b] = data[b]
  BY <1>3 DEF write_blocks
<1>5. ASSUME NEW i \in 1 .. count
      PROVE  write_blocks(blocks, c, count)[blocks[i]] = c[i]
  <2>1. \A j \in 1 .. count : blocks[j] = blocks[i] => j = i
    BY <1>1 DEF IsInjective
  <2>2. (CHOOSE j \in 1 .. count : blocks[j] = blocks[i]) = i
    BY <2>1
  <2>3. blocks[i] \in Blocks
    BY <1>1
  <2> QED
    BY <2>2, <2>3, Zenon DEF write_blocks
<1> QED
  BY <1>1, <1>2, <1>4, <1>5 DEF Holds

-----------------------------------------------------------------------------
(* An empty table.                                                         *)
LEMMA FreeNodeOK == NodeOK(FreeNode) /\ Own(FreeNode) = {}
<1>1. /\ DOMAIN FreeNode = Fields /\ FreeNode.path = Root
      /\ FreeNode.active = FALSE /\ FreeNode.snap = FALSE
      /\ FreeNode.recent = FALSE /\ FreeNode.srecent = FALSE
      /\ FreeNode.type = "DIR" /\ FreeNode.stype = "DIR"
      /\ FreeNode.hash = <<>> /\ FreeNode.shash = <<>>
      /\ FreeNode.blocks = <<>> /\ FreeNode.sblocks = <<>>
  BY DEF FreeNode, Fields
<1> QED
  BY <1>1, NoBlocks, PathsAssumption, Zenon DEF NodeOK, Own

LEMMA FreeTables ==
  ASSUME NEW d, DOMAIN d = Blocks
  PROVE  /\ Tables(AllFree, {}, d)
         /\ OwnPaths(AllFree) /\ LiveClosed(AllFree) /\ SnapClosed(AllFree)
<1>1. DOMAIN AllFree = Nodes /\ \A n \in Nodes : AllFree[n] = FreeNode
  BY DEF AllFree
<1>2. /\ FreeNode.active = FALSE /\ FreeNode.snap = FALSE
      /\ FreeNode.blocks = <<>> /\ FreeNode.sblocks = <<>>
  BY DEF FreeNode
<1>3. Tables(AllFree, {}, d)
  BY <1>1, <1>2, FreeNodeOK DEF Tables, Holds
<1> QED
  BY <1>1, <1>2, <1>3 DEF OwnPaths, Used, LiveClosed, SnapClosed

-----------------------------------------------------------------------------
(* The image.                                                              *)
LEMMA ImageFields ==
  ASSUME NEW ns, NEW bm
  PROVE  /\ Image(ns, bm).body = [nodes |-> ns, bitmap |-> bm]
         /\ Image(ns, bm).body.nodes = ns
         /\ Image(ns, bm).checksum = <<Image(ns, bm).body, <<>> >>
BY DEF Image, mfs_checksum, Zero

(* No image that write_metadata wrote validates, and no other image does.  *)
LEMMA NeverValid == ASSUME ImageInv PROVE ~ validate_disk(meta)
<1>1. CASE meta = Torn
  <2>1. meta.checksum = <<>>
    BY <1>1 DEF Torn, Zero
  <2>2. Len(mfs_checksum(meta)) = 2
    BY DEF mfs_checksum
  <2> QED
    BY <2>1, <2>2 DEF validate_disk
<1>2. CASE \E ns, bm : meta = Image(ns, bm)
  <2>0. PICK ns, bm : meta = Image(ns, bm)
    BY <1>2
  <2>1. meta.checksum = <<meta.body, <<>> >>
    BY <2>0, ImageFields, Zenon
  <2>2. mfs_checksum(meta) = <<meta.body, meta.checksum>>
    BY DEF mfs_checksum
  <2>3. Len(meta.checksum) = 2
    BY <2>1
  <2> QED
    BY <2>1, <2>2, <2>3 DEF validate_disk
<1> QED
  BY <1>1, <1>2 DEF ImageInv

(* A new image is the tables in memory.                                    *)
LEMMA ImageWritten ==
  ASSUME NEW ns, NEW bm, Tables(ns, bm, data'), nodes' = ns, meta' = Image(ns, bm)
  PROVE  ImageInv'
<1>1. meta'.body.nodes = ns
  BY ImageFields, Zenon
<1>2. \A n \in Nodes :
         /\ ns[n].hash \in Seq(Sectors) /\ ns[n].shash \in Seq(Sectors)
         /\ ns[n].blocks \in Seq(Blocks) /\ ns[n].sblocks \in Seq(Blocks)
         /\ Holds(data', ns[n].blocks, ns[n].hash)
         /\ Holds(data', ns[n].sblocks, ns[n].shash)
  BY DEF Tables, NodeOK
<1> QED
  BY <1>1, <1>2 DEF ImageInv

(* The old one stays readable while the blocks of its halves stay in use   *)
(* in memory and are not written, or else are exposed.                     *)
KeepsData(d) ==
  \A n \in Nodes :
    /\ "live" \notin exposed' => \A b \in Range(nodes[n].blocks) : d[b] = data[b]
    /\ "snap" \notin exposed' => \A b \in Range(nodes[n].sblocks) : d[b] = data[b]

KeepsBlocks(ns) ==
  \A n \in Nodes :
    /\ "live" \notin exposed' => ns[n].blocks = nodes[n].blocks
    /\ "snap" \notin exposed' => ns[n].sblocks = nodes[n].sblocks

LEMMA ImageKept ==
  ASSUME ImageInv, Tables(nodes, bitmap, data), mode # "down", meta' \in {meta, Torn},
         exposed \subseteq exposed', KeepsData(data'),
         mode' = "down" \/ KeepsBlocks(nodes')
  PROVE  ImageInv'
<1>1. CASE meta' = Torn
  BY <1>1 DEF ImageInv, Torn
<1>2. CASE meta' = meta /\ meta # Torn
  <2> SUFFICES ASSUME NEW n \in Nodes
               PROVE  LET nd == meta.body.nodes[n] IN
                      /\ nd.hash \in Seq(Sectors) /\ nd.shash \in Seq(Sectors)
                      /\ nd.blocks \in Seq(Blocks) /\ nd.sblocks \in Seq(Blocks)
                      /\ "live" \notin exposed' =>
                           /\ Holds(data', nd.blocks, nd.hash)
                           /\ mode' # "down" => nd.blocks = nodes'[n].blocks
                      /\ "snap" \notin exposed' =>
                           /\ Holds(data', nd.sblocks, nd.shash)
                           /\ mode' # "down" => nd.sblocks = nodes'[n].sblocks
    BY <1>2, Zenon DEF ImageInv
  <2> DEFINE nd == meta.body.nodes[n]
  <2>1. /\ nd.hash \in Seq(Sectors) /\ nd.shash \in Seq(Sectors)
        /\ nd.blocks \in Seq(Blocks) /\ nd.sblocks \in Seq(Blocks)
        /\ "live" \notin exposed => Holds(data, nd.blocks, nd.hash) /\ nd.blocks = nodes[n].blocks
        /\ "snap" \notin exposed => Holds(data, nd.sblocks, nd.shash) /\ nd.sblocks = nodes[n].sblocks
    BY <1>2 DEF ImageInv
  <2>2. /\ \A i \in 1 .. Len(nodes[n].blocks) : nodes[n].blocks[i] \in Range(nodes[n].blocks)
        /\ \A i \in 1 .. Len(nodes[n].sblocks) : nodes[n].sblocks[i] \in Range(nodes[n].sblocks)
    BY DEF Range, Tables, NodeOK
  <2> HIDE DEF nd
  <2>3. "live" \notin exposed' => Holds(data', nd.blocks, nd.hash)
    BY <2>1, <2>2 DEF Holds, KeepsData
  <2>4. "snap" \notin exposed' => Holds(data', nd.sblocks, nd.shash)
    BY <2>1, <2>2 DEF Holds, KeepsData
  <2> QED
    BY <2>1, <2>3, <2>4 DEF nd, KeepsBlocks
<1> QED
  BY <1>1, <1>2

-----------------------------------------------------------------------------
(* What became of the names.                                               *)
LEMMA NamesType ==
  ASSUME TypeInv, Watch
  PROVE  names' \in {"whole", "loose", "clash"} /\ (mode' = "down" => names' = "whole")
BY DEF TypeInv, Watch

LEMMA NamesKept ==
  ASSUME Watch, mode' # "down", \A n \in Nodes : ~ Renamed(n),
         ~ (mode = "commit" /\ mode' = "idle" /\ todo # {})
  PROVE  names' = names
BY DEF Watch

(* An operation that is refused changes nothing but its result.            *)
LEMMA Refused ==
  ASSUME Inv, UNCHANGED <<nodes, bitmap, data, meta, mode, todo, exposed, use>>, Watch
  PROVE  Inv' /\ names' = names
<1>1. names' = names
  <2>1. CASE mode = "down"
    BY <2>1, NamesType DEF Inv, PhaseInv
  <2>2. CASE mode # "down"
    BY <2>2, NamesKept DEF Renamed
  <2> QED
    BY <2>1, <2>2
<1>2. TypeInv'
  BY <1>1 DEF Inv, TypeInv, Tables
<1>3. PhaseInv'
  BY <1>1 DEF Inv, PhaseInv, Same
<1>4. TreeInv'
  BY <1>1 DEF Inv, TreeInv, OwnPaths, Used, LiveClosed, SnapClosed, LiveDir, SnapDir
<1>5. ImageInv'
  BY DEF Inv, ImageInv
<1> QED
  BY <1>1, <1>2, <1>3, <1>4, <1>5 DEF Inv

(* The machine stops.                                                      *)
LEMMA Stopped ==
  ASSUME Inv, mode # "down", Stop, meta' \in {meta, Torn}, DOMAIN data' = Blocks,
         KeepsData(data'), Watch, UNCHANGED use
  PROVE  Inv'
<1>1. /\ mode' = "down" /\ nodes' = AllFree /\ bitmap' = {} /\ todo' = {}
      /\ exposed' = exposed /\ names' = "whole"
  BY NamesType DEF Stop, Inv
<1>2. TypeInv'
  BY <1>1, FreeTables DEF Inv, TypeInv
<1>3. PhaseInv'
  BY <1>1 DEF PhaseInv
<1>4. TreeInv'
  BY <1>1, FreeTables DEF TreeInv
<1>5. ImageInv'
  BY <1>1, ImageKept DEF Inv, TypeInv
<1> QED
  BY <1>2, <1>3, <1>4, <1>5 DEF Inv

-----------------------------------------------------------------------------
(* The endings the operations share.                                       *)
LEMMA InBitmap ==
  ASSUME NEW ns, NEW bm, NEW d, Tables(ns, bm, d), NEW n \in Nodes
  PROVE  /\ Own(ns[n]) \subseteq bm /\ Own(ns[n]) \subseteq Blocks
         /\ Range(ns[n].blocks) \subseteq bm /\ Range(ns[n].sblocks) \subseteq bm
<1>1. Own(ns[n]) \subseteq Blocks
  BY DEF Tables, NodeOK, Own, Range
<1>2. Own(ns[n]) \subseteq bm
  BY <1>1 DEF Tables
<1> QED
  BY <1>1, <1>2 DEF Own

(* Sectors that no entry uses may be written.                              *)
LEMMA TablesWritten ==
  ASSUME NEW ns, NEW bm, NEW d, Tables(ns, bm, d),
         NEW e, DOMAIN e = Blocks, \A b \in bm : e[b] = d[b]
  PROVE  Tables(ns, bm, e)
<1>1. ASSUME NEW n \in Nodes
      PROVE  Holds(e, ns[n].blocks, ns[n].hash) /\ Holds(e, ns[n].sblocks, ns[n].shash)
  <2>1. Range(ns[n].blocks) \subseteq bm /\ Range(ns[n].sblocks) \subseteq bm
    BY InBitmap
  <2>2. /\ ns[n].blocks \in Seq(Blocks) /\ ns[n].sblocks \in Seq(Blocks)
        /\ Holds(d, ns[n].blocks, ns[n].hash) /\ Holds(d, ns[n].sblocks, ns[n].shash)
    BY DEF Tables, NodeOK
  <2>3. /\ \A i \in 1 .. Len(ns[n].blocks) : ns[n].blocks[i] \in Range(ns[n].blocks)
        /\ \A i \in 1 .. Len(ns[n].sblocks) : ns[n].sblocks[i] \in Range(ns[n].sblocks)
    BY <2>2 DEF Range
  <2> QED
    BY <2>1, <2>2, <2>3 DEF Holds
<1> QED
  BY <1>1 DEF Tables

(* An operation that is refused after it wrote to free blocks.             *)
LEMMA RefusedLate ==
  ASSUME Inv, mode = "idle", UNCHANGED <<nodes, bitmap, meta, mode, todo, exposed, use>>,
         DOMAIN data' = Blocks, \A b \in bitmap : data'[b] = data[b], Watch
  PROVE  Inv' /\ names' = names
<1>1. names' = names
  BY NamesKept DEF Renamed
<1>2. Tables(nodes, bitmap, data')
  BY TablesWritten DEF Inv, TypeInv
<1>3. TypeInv'
  BY <1>1, <1>2 DEF Inv, TypeInv
<1>4. PhaseInv'
  BY <1>1 DEF Inv, PhaseInv
<1>5. TreeInv'
  BY <1>1 DEF Inv, TreeInv, OwnPaths, Used, LiveClosed, SnapClosed, LiveDir, SnapDir
<1>6. KeepsData(data') /\ KeepsBlocks(nodes')
  BY InBitmap DEF Inv, TypeInv, KeepsData, KeepsBlocks
<1>7. ImageInv'
  BY <1>6, ImageKept DEF Inv, TypeInv
<1> QED
  BY <1>1, <1>3, <1>4, <1>5, <1>7 DEF Inv

TreeOK(ns) ==
  /\ names' # "clash" => OwnPaths(ns)
  /\ names' = "whole" => LiveClosed(ns) /\ SnapClosed(ns)

(* An operation that returns, with a half exposed for every block that it  *)
(* gave back or wrote.                                                     *)
LEMMA Returned ==
  ASSUME Inv, mode # "down", NEW ns, NEW bm, NEW s, Return(s, ns, bm),
         Tables(ns, bm, data'), TreeOK(ns), Watch, UNCHANGED use, ImageInv'
  PROVE  Inv'
<1>1. mode' = "idle" /\ nodes' = ns /\ bitmap' = bm /\ todo' = {}
  BY DEF Return
<1>2. TypeInv'
  BY <1>1, NamesType DEF Inv, TypeInv
<1>3. PhaseInv'
  BY <1>1 DEF PhaseInv
<1>4. TreeInv'
  BY <1>1 DEF TreeInv, TreeOK
<1> QED
  BY <1>2, <1>3, <1>4 DEF Inv

LEMMA Saved ==
  ASSUME Inv, mode # "down", NEW ns, NEW bm, Tables(ns, bm, data'), write_metadata(ns, bm),
         \A n \in Nodes : ns[n].sblocks = nodes[n].sblocks,
         \A b \in bitmap : data'[b] = data[b],
         mode' = "idle" => TreeOK(ns), Watch, UNCHANGED use
  PROVE  Inv'
<1>1. KeepsData(data')
  BY InBitmap DEF Inv, TypeInv, KeepsData
<1>2. CASE Return("OK", ns, bm) /\ meta' = Image(ns, bm)
  <2>1. ImageInv'
    BY <1>2, ImageWritten DEF Return
  <2> QED
    BY <1>2, <2>1, Returned DEF Return
<1>3. CASE Return("IO", ns, bm) /\ meta' \in {meta, Torn} /\ exposed' = exposed \cup {"live"}
  <2>1. KeepsBlocks(nodes')
    BY <1>3 DEF Return, KeepsBlocks
  <2>2. ImageInv'
    BY <1>1, <1>3, <2>1, ImageKept DEF Inv, TypeInv
  <2> QED
    BY <1>3, <2>2, Returned DEF Return
<1>4. CASE Stop /\ meta' \in {meta, Torn}
  <2>1. DOMAIN data' = Blocks
    BY DEF Tables
  <2> QED
    BY <1>1, <1>4, <2>1, Stopped
<1> QED
  BY <1>2, <1>3, <1>4 DEF write_metadata

(* A step that keeps the metadata on disk and returns s.                   *)
LEMMA GaveUp ==
  ASSUME Inv, mode # "down", NEW ns, NEW bm, NEW s, Return(s, ns, bm),
         Tables(ns, bm, data'), TreeOK(ns), KeepsBlocks(ns), KeepsData(data'),
         UNCHANGED <<meta, exposed, use>>, Watch
  PROVE  Inv'
<1>1. ImageInv'
  BY ImageKept DEF Inv, TypeInv, Return
<1> QED
  BY <1>1, Returned

(* A sector that is not written, among those of blocks: the sectors that   *)
(* were are in blocks, which ns does not use.                              *)
LEMMA Faulted ==
  ASSUME Inv, mode # "down", NEW ns, NEW bm, NEW fm, NEW c, NEW count \in Nat, Len(c) = count,
         NEW blocks \in allocate_blocks(fm, count), BlockFault(blocks, c, ns, bm),
         \A d : DOMAIN d = Blocks /\ (\A b \in Blocks : b \notin Range(blocks) => d[b] = data[b])
                => Tables(ns, bm, d),
         mode' = "idle" => TreeOK(ns) /\ KeepsBlocks(ns),
         \A n \in Nodes :
           /\ "live" \notin exposed' => Range(nodes[n].blocks) \cap Range(blocks) = {}
           /\ "snap" \notin exposed' => Range(nodes[n].sblocks) \cap Range(blocks) = {},
         Watch, UNCHANGED use
  PROVE  Inv'
<1>1. PICK k \in 0 .. (count - 1) :
        /\ data' = write_blocks(blocks, c, k) /\ UNCHANGED <<meta, journal>>
        /\ \/ IoFault /\ Return("IO", ns, bm) /\ UNCHANGED exposed
           \/ Stop
  BY DEF BlockFault
<1>2. k \in 0 .. count /\ DOMAIN data = Blocks
  BY DEF Inv, TypeInv, Tables
<1>3. DOMAIN data' = Blocks /\ \A b \in Blocks : b \notin Range(blocks) => data'[b] = data[b]
  BY <1>1, <1>2, Written
<1>4. KeepsData(data')
  <2>1. \A n \in Nodes : Range(nodes[n].blocks) \cup Range(nodes[n].sblocks) \subseteq Blocks
    BY InBitmap DEF Inv, TypeInv, Own
  <2> QED
    BY <1>3, <2>1 DEF KeepsData
<1>5. CASE Return("IO", ns, bm) /\ UNCHANGED exposed
  <2>1. Tables(ns, bm, data')
    BY <1>3
  <2> QED
    BY <1>1, <1>4, <1>5, <2>1, GaveUp DEF Return
<1>6. CASE Stop
  BY <1>1, <1>3, <1>4, <1>6, Stopped
<1> QED
  BY <1>1, <1>5, <1>6

-----------------------------------------------------------------------------
(* create_dir and write_file put an entry into the table.                  *)
Placed(nd, p, type, hash, blocks) ==
  [nd EXCEPT !.active = TRUE, !.type = type, !.hash = hash, !.blocks = blocks,
             !.recent = TRUE, !.path = p]

(* The tables: the old live blocks are free, the new ones were.            *)
LEMMA TablesPlaced ==
  ASSUME Tables(nodes, bitmap, data), NEW n \in Nodes, NEW p \in Paths,
         NEW type \in {"DIR", "FILE"}, NEW hash \in Seq(Sectors),
         NEW blocks \in Seq(Blocks), IsInjective(blocks), Range(blocks) \cap bitmap = {},
         NEW e, DOMAIN e = Blocks, \A b \in bitmap : e[b] = data[b], Holds(e, blocks, hash)
  PROVE  Tables([nodes EXCEPT ![n] = Placed(nodes[n], p, type, hash, blocks)],
                (bitmap \ Range(nodes[n].blocks)) \cup Range(blocks), e)
<1>0. PICK nd : nd = Placed(nodes[n], p, type, hash, blocks)
  OBVIOUS
<1>1. NodeOK(nodes[n])
  BY DEF Tables
<1>2. /\ DOMAIN nd = Fields
      /\ nd.active = TRUE /\ nd.type = type /\ nd.hash = hash /\ nd.blocks = blocks
      /\ nd.recent = TRUE /\ nd.path = p
      /\ nd.snap = nodes[n].snap /\ nd.stype = nodes[n].stype /\ nd.shash = nodes[n].shash
      /\ nd.sblocks = nodes[n].sblocks /\ nd.srecent = nodes[n].srecent
  BY <1>0, <1>1 DEF NodeOK, Placed, Fields
<1>3. /\ Range(nodes[n].sblocks) \subseteq bitmap /\ Range(nodes[n].sblocks) \subseteq Blocks
      /\ Range(nodes[n].blocks) \subseteq bitmap /\ Range(blocks) \subseteq Blocks
  BY InBitmap DEF Range, Own
<1>4. NodeOK(nd)
  <2>1. Range(nd.blocks) \cap Range(nd.sblocks) = {}
    BY <1>2, <1>3
  <2> QED
    BY <1>1, <1>2, <2>1, Zenon DEF NodeOK
<1>5. Holds(e, nd.blocks, nd.hash)
  BY <1>2
<1>6. Holds(e, nd.sblocks, nd.shash)
  <2>1. Holds(data, nodes[n].sblocks, nodes[n].shash)
    BY DEF Tables
  <2>2. \A i \in 1 .. Len(nodes[n].sblocks) : nodes[n].sblocks[i] \in Range(nodes[n].sblocks)
    BY <1>1 DEF NodeOK, Range
  <2> QED
    BY <1>2, <1>3, <2>1, <2>2 DEF Holds
<1>7. Own(nd) = Range(blocks) \cup Range(nodes[n].sblocks)
  BY <1>2 DEF Own
<1>8. Own(nodes[n]) = Range(nodes[n].blocks) \cup Range(nodes[n].sblocks)
      /\ Range(nodes[n].blocks) \cap Range(nodes[n].sblocks) = {}
  BY <1>1, Zenon DEF Own, NodeOK
<1>9. (bitmap \ Range(nodes[n].blocks)) \cup Range(blocks)
        = (bitmap \ Own(nodes[n])) \cup Own(nd)
  BY <1>3, <1>7, <1>8
<1>10. Own(nd) \cap (bitmap \ Own(nodes[n])) = {} /\ Own(nd) \subseteq Blocks
  BY <1>3, <1>7, <1>8
<1>11. Tables([nodes EXCEPT ![n] = nd], (bitmap \ Range(nodes[n].blocks)) \cup Range(blocks), e)
  BY <1>4, <1>5, <1>6, <1>9, <1>10, TablesReplace
<1> QED
  BY <1>0, <1>11

(* The tree: the entry is new, or keeps its path.                          *)
Entries(p) == IF find_node(p, TRUE) = {} THEN find_free_node ELSE find_node(p, TRUE)

LEMMA TreePlaced ==
  ASSUME TreeInv, Tables(nodes, bitmap, data), mode = "idle", names' = names,
         NEW p \in Paths, parent_exists_for(p), NEW n \in Entries(p),
         nodes[n].active => nodes[n].type = "FILE",
         NEW nd, nd.path = p, nd.active = TRUE,
         nd.snap = nodes[n].snap, nd.stype = nodes[n].stype
  PROVE  TreeOK([nodes EXCEPT ![n] = nd])
<1> DEFINE ns == [nodes EXCEPT ![n] = nd]
<1>1. n \in Nodes
  BY DEF Entries, find_node, find_free_node
<1>2. ns[n] = nd /\ \A m \in Nodes : m # n => ns[m] = nodes[m]
  BY <1>1 DEF Tables
<1> HIDE DEF ns
<1>3. \/ Used(nodes[n]) /\ nodes[n].path = p
      \/ ~ Used(nodes[n]) /\ \A m \in Nodes : Used(nodes[m]) => nodes[m].path # p
  BY DEF Entries, find_node, find_free_node, Used
<1>4. ASSUME names # "clash" PROVE OwnPaths(ns)
  BY <1>2, <1>3, <1>4 DEF TreeInv, OwnPaths, Used
<1>5. ASSUME LiveClosed(nodes) PROVE LiveClosed(ns)
  <2>1. \A q : LiveDir(nodes, q) => LiveDir(ns, q)
    BY <1>2 DEF LiveDir
  <2>2. LiveDir(nodes, Parent[p])
    BY DEF parent_exists_for, find_node, LiveDir
  <2> QED
    BY <1>2, <1>5, <2>1, <2>2 DEF LiveClosed
<1>6. ASSUME SnapClosed(nodes) PROVE SnapClosed(ns)
  <2>1. \A m \in Nodes : /\ ns[m].snap = nodes[m].snap /\ ns[m].stype = nodes[m].stype
                         /\ nodes[m].snap => ns[m].path = nodes[m].path
    BY <1>2, <1>3 DEF Used
  <2>2. \A q : SnapDir(nodes, q) => SnapDir(ns, q)
    BY <2>1 DEF SnapDir
  <2> QED
    BY <1>6, <2>1, <2>2 DEF SnapClosed
<1> QED
  BY <1>4, <1>5, <1>6 DEF TreeOK, TreeInv, ns

(* No entry in use changes its path.                                       *)
LEMMA PlacedNames ==
  ASSUME Tables(nodes, bitmap, data), mode = "idle", NEW p \in Paths, NEW n \in Entries(p),
         NEW nd, nd.path = p, mode' = "idle", nodes' = [nodes EXCEPT ![n] = nd], Watch
  PROVE  names' = names
<1>1. n \in Nodes
  BY DEF Entries, find_node, find_free_node
<1>2. nodes'[n] = nd /\ \A m \in Nodes : m # n => nodes'[m] = nodes[m]
  BY <1>1 DEF Tables
<1>3. nodes[n].active => nodes[n].path = p
  BY DEF Entries, find_node, find_free_node
<1>4. \A m \in Nodes : ~ Renamed(m)
  BY <1>2, <1>3 DEF Renamed
<1> QED
  BY <1>4, NamesKept

LEMMA CreateDirStep ==
  ASSUME Inv, NEW p \in Paths, create_dir(p), Watch, UNCHANGED use
  PROVE  Inv'
<1>1. mode = "idle" /\ UNCHANGED data
  BY Zenon DEF create_dir
<1>2. CASE \E s : Reject(s)
  BY <1>1, <1>2, Refused DEF Reject
<1>3. ASSUME NEW n \in Entries(p), parent_exists_for(p), ~ nodes[n].active,
             write_metadata(
               [nodes EXCEPT ![n].active = TRUE, ![n].type = "DIR",
                             ![n].hash = <<>>, ![n].blocks = <<>>,
                             ![n].recent = TRUE, ![n].path = p], bitmap)
      PROVE  Inv'
  <2>1. PICK nd : nd = Placed(nodes[n], p, "DIR", <<>>, <<>>)
    OBVIOUS
  <2>2. n \in Nodes /\ NodeOK(nodes[n]) /\ DOMAIN nodes = Nodes /\ DOMAIN data = Blocks
    BY Zenon DEF Entries, find_node, find_free_node, Inv, TypeInv, Tables
  <2>3. /\ nd.path = p /\ nd.active = TRUE /\ nd.snap = nodes[n].snap
        /\ nd.stype = nodes[n].stype /\ nd.sblocks = nodes[n].sblocks
    BY <2>1, <2>2 DEF NodeOK, Placed, Fields
  <2>4. PICK ns : ns = [nodes EXCEPT ![n] = nd]
    BY Zenon
  <2>5. write_metadata(ns, bitmap)
    <3>1. [nodes EXCEPT ![n].active = TRUE, ![n].type = "DIR", ![n].hash = <<>>,
                        ![n].blocks = <<>>, ![n].recent = TRUE, ![n].path = p] = ns
      BY <2>1, <2>2, <2>4, Zenon DEF Placed, NodeOK, Fields
    <3> QED
      BY <1>3, <3>1, Zenon
  <2>6. Tables(ns, bitmap, data')
    <3>1. /\ <<>> \in Seq(Sectors) /\ <<>> \in Seq(Blocks) /\ Range(<<>>) = {}
          /\ IsInjective(<<>>) /\ nodes[n].blocks = <<>>
      BY <1>3, <2>2 DEF NodeOK, Range, IsInjective
    <3>2. Holds(data, <<>>, <<>>)
      BY DEF Holds
    <3>3. Tables(ns, (bitmap \ Range(nodes[n].blocks)) \cup Range(<<>>), data)
      BY <2>1, <2>2, <2>4, <3>1, <3>2, TablesPlaced, ZenonT(60) DEF Inv, TypeInv
    <3> QED
      BY <1>1, <3>1, <3>3
  <2>7. \A m \in Nodes : ns[m].sblocks = nodes[m].sblocks
    BY <2>2, <2>3, <2>4
  <2>8. mode' = "idle" => TreeOK(ns)
    <3> HAVE mode' = "idle"
    <3>1. nodes' = ns
      BY <2>5 DEF write_metadata, Return, Stop
    <3>2. names' = names
      BY <1>1, <2>3, <2>4, <3>1, PlacedNames, Zenon DEF Inv, TypeInv
    <3> QED
      BY <1>1, <1>3, <2>3, <2>4, <3>2, TreePlaced, Zenon DEF Inv, TypeInv
  <2> QED
    BY <1>1, <2>5, <2>6, <2>7, <2>8, Saved
<1> QED
  BY <1>2, <1>3, ZenonT(60) DEF create_dir, Entries

LEMMA WriteFileStep ==
  ASSUME Inv, NEW p \in Paths, NEW c \in Seq(Sectors), write_file(p, c), Watch, UNCHANGED use
  PROVE  Inv'
<1>1. mode = "idle" /\ Len(c) \in Nat /\ Tables(nodes, bitmap, data) /\ DOMAIN data = Blocks
  BY DEF write_file, Inv, TypeInv, Tables
<1>2. CASE UNCHANGED data /\ \E s : Reject(s)
  BY <1>2, Refused DEF Reject
<1>3. ASSUME parent_exists_for(p), NEW blocks \in allocate_blocks(bitmap, Len(c)),
             \/ BlockFault(blocks, c, nodes, bitmap)
             \/ data' = write_blocks(blocks, c, Len(c)) /\ WriteNode(p, c, blocks)
      PROVE  Inv'
  <2>1. /\ blocks \in Seq(Blocks) /\ IsInjective(blocks) /\ Range(blocks) \cap bitmap = {}
        /\ Len(blocks) = Len(c)
    BY <1>1, Allocated
  <2>2. CASE BlockFault(blocks, c, nodes, bitmap)
    <3>1. ASSUME NEW d, DOMAIN d = Blocks, \A b \in Blocks : b \notin Range(blocks) => d[b] = data[b]
          PROVE  Tables(nodes, bitmap, d)
      <4>1. \A b \in bitmap : d[b] = data[b]
        BY <1>1, <2>1, <3>1, Zenon DEF Tables
      <4> QED
        BY <1>1, <3>1, <4>1, TablesWritten, Zenon
    <3>2. mode' = "idle" => TreeOK(nodes) /\ KeepsBlocks(nodes)
      <4> HAVE mode' = "idle"
      <4>1. nodes' = nodes
        BY <2>2 DEF BlockFault, Return, Stop
      <4>2. names' = names
        BY <1>1, <4>1, NamesKept DEF Renamed
      <4> QED
        BY <1>1, <4>2 DEF TreeOK, KeepsBlocks, Inv, TreeInv
    <3>3. \A n \in Nodes : /\ Range(nodes[n].blocks) \cap Range(blocks) = {}
                           /\ Range(nodes[n].sblocks) \cap Range(blocks) = {}
      BY <1>1, <2>1, InBitmap, Zenon
    <3> QED
      BY <1>1, <2>2, <3>1, <3>2, <3>3, Faulted, Zenon
  <2>3. CASE data' = write_blocks(blocks, c, Len(c)) /\ WriteNode(p, c, blocks)
    <3>1. /\ DOMAIN data' = Blocks /\ \A b \in bitmap : data'[b] = data[b]
          /\ Holds(data', blocks, c)
      <4>1. Len(c) \in 0 .. Len(c)
        BY <1>1
      <4>2. bitmap \subseteq Blocks
        BY DEF Inv, TypeInv, Tables
      <4> QED
        BY <1>1, <2>1, <2>3, <4>1, <4>2, Written
    <3>2. CASE \E s : Reject(s)
      BY <1>1, <3>1, <3>2, RefusedLate, Zenon DEF Reject
    <3>3. ASSUME NEW n \in Entries(p), nodes[n].active => nodes[n].type = "FILE",
                 write_metadata(
                   [nodes EXCEPT ![n].active = TRUE, ![n].type = "FILE",
                                 ![n].hash = c, ![n].blocks = blocks,
                                 ![n].recent = TRUE, ![n].path = p],
                   (bitmap \ Range(nodes[n].blocks)) \cup Range(blocks))
          PROVE  Inv'
      <4>1. PICK nd : nd = Placed(nodes[n], p, "FILE", c, blocks)
        OBVIOUS
      <4>2. n \in Nodes /\ NodeOK(nodes[n]) /\ DOMAIN nodes = Nodes
        BY <1>1, Zenon DEF Entries, find_node, find_free_node, Tables
      <4>3. /\ nd.path = p /\ nd.active = TRUE /\ nd.snap = nodes[n].snap
            /\ nd.stype = nodes[n].stype /\ nd.sblocks = nodes[n].sblocks
        BY <4>1, <4>2 DEF NodeOK, Placed, Fields
      <4>4. PICK ns, bm : /\ ns = [nodes EXCEPT ![n] = nd]
                          /\ bm = (bitmap \ Range(nodes[n].blocks)) \cup Range(blocks)
        BY Zenon
      <4>5. write_metadata(ns, bm)
        <5>1. [nodes EXCEPT ![n].active = TRUE, ![n].type = "FILE", ![n].hash = c,
                            ![n].blocks = blocks, ![n].recent = TRUE, ![n].path = p] = ns
          BY <4>1, <4>2, <4>4, Zenon DEF Placed, NodeOK, Fields
        <5> QED
          BY <3>3, <4>4, <5>1
      <4>6. Tables(ns, bm, data')
        BY <1>1, <2>1, <3>1, <4>1, <4>2, <4>4, TablesPlaced, Zenon
      <4>7. \A m \in Nodes : ns[m].sblocks = nodes[m].sblocks
        BY <4>2, <4>3, <4>4
      <4>8. mode' = "idle" => TreeOK(ns)
        <5> HAVE mode' = "idle"
        <5>1. nodes' = ns
          BY <4>5 DEF write_metadata, Return, Stop
        <5>2. names' = names
          BY <1>1, <4>3, <4>4, <5>1, PlacedNames, Zenon
        <5> QED
          BY <1>1, <1>3, <3>3, <4>3, <4>4, <5>2, TreePlaced, Zenon DEF Inv
      <4> QED
        BY <1>1, <3>1, <4>5, <4>6, <4>7, <4>8, Saved, Zenon
    <3> QED
      BY <2>3, <3>2, <3>3, ZenonT(60) DEF WriteNode, Entries
  <2> QED
    BY <1>3, <2>2, <2>3
<1> QED
  BY <1>2, <1>3 DEF write_file
-----------------------------------------------------------------------------
(* One half of an entry changes: it gives its blocks back and takes others *)
(* that no other half uses.                                                *)
(* The live half.                                                          *)
LEMMA TablesLive ==
  ASSUME Tables(nodes, bitmap, data), NEW n \in Nodes, NEW r, NodeOK(r),
         r.sblocks = nodes[n].sblocks, r.sblocks # <<>> => r.shash = nodes[n].shash,
         Range(r.blocks) \cap (bitmap \ Range(nodes[n].blocks)) = {},
         NEW e, DOMAIN e = Blocks, Holds(e, r.blocks, r.hash),
         \A b \in bitmap \ Range(nodes[n].blocks) : e[b] = data[b]
  PROVE  Tables([nodes EXCEPT ![n] = r],
                (bitmap \ Range(nodes[n].blocks)) \cup Range(r.blocks), e)
<1>1. NodeOK(nodes[n]) /\ Holds(data, nodes[n].sblocks, nodes[n].shash)
  BY Zenon DEF Tables
<1>2. /\ Range(nodes[n].blocks) \subseteq bitmap /\ Range(nodes[n].sblocks) \subseteq bitmap
      /\ Range(nodes[n].blocks) \subseteq Blocks /\ Range(nodes[n].sblocks) \subseteq Blocks
  BY InBitmap, Zenon DEF Own
<1>3. Own(nodes[n]) = Range(nodes[n].blocks) \cup Range(nodes[n].sblocks)
      /\ Range(nodes[n].blocks) \cap Range(nodes[n].sblocks) = {}
  BY <1>1, Zenon DEF Own, NodeOK
<1>4. /\ Own(r) = Range(r.blocks) \cup Range(nodes[n].sblocks) /\ Range(r.blocks) \subseteq Blocks
  BY RangeOf, Zenon DEF Own, NodeOK
<1>5. Holds(e, r.sblocks, r.shash)
  <2>1. nodes[n].sblocks \in Seq(Blocks) /\ \A b \in Range(nodes[n].sblocks) : e[b] = data[b]
    BY <1>1, <1>2, <1>3, Zenon DEF NodeOK
  <2>2. Holds(e, nodes[n].sblocks, nodes[n].shash)
    BY <1>1, <2>1, HoldsKept, Zenon
  <2> QED
    BY <2>2, Zenon DEF Holds
<1>6. (bitmap \ Range(nodes[n].blocks)) \cup Range(r.blocks) = (bitmap \ Own(nodes[n])) \cup Own(r)
  BY <1>2, <1>3, <1>4, Zenon
<1>7. Own(r) \cap (bitmap \ Own(nodes[n])) = {} /\ Own(r) \subseteq Blocks
  BY <1>2, <1>3, <1>4, Zenon
<1>8. \A b \in bitmap \ Own(nodes[n]) : e[b] = data[b]
  BY <1>3, Zenon
<1> QED
  BY <1>5, <1>6, <1>7, <1>8, TablesReplace, Zenon

(* The snapshot half.                                                      *)
LEMMA TablesSnap ==
  ASSUME Tables(nodes, bitmap, data), NEW n \in Nodes, NEW r, NodeOK(r),
         r.blocks = nodes[n].blocks, r.blocks # <<>> => r.hash = nodes[n].hash,
         Range(r.sblocks) \cap (bitmap \ Range(nodes[n].sblocks)) = {},
         NEW e, DOMAIN e = Blocks, Holds(e, r.sblocks, r.shash),
         \A b \in bitmap \ Range(nodes[n].sblocks) : e[b] = data[b]
  PROVE  Tables([nodes EXCEPT ![n] = r],
                (bitmap \ Range(nodes[n].sblocks)) \cup Range(r.sblocks), e)
<1>1. NodeOK(nodes[n]) /\ Holds(data, nodes[n].blocks, nodes[n].hash)
  BY Zenon DEF Tables
<1>2. /\ Range(nodes[n].blocks) \subseteq bitmap /\ Range(nodes[n].sblocks) \subseteq bitmap
      /\ Range(nodes[n].blocks) \subseteq Blocks /\ Range(nodes[n].sblocks) \subseteq Blocks
  BY InBitmap, Zenon DEF Own
<1>3. Own(nodes[n]) = Range(nodes[n].blocks) \cup Range(nodes[n].sblocks)
      /\ Range(nodes[n].blocks) \cap Range(nodes[n].sblocks) = {}
  BY <1>1, Zenon DEF Own, NodeOK
<1>4. /\ Own(r) = Range(r.sblocks) \cup Range(nodes[n].blocks) /\ Range(r.sblocks) \subseteq Blocks
  BY RangeOf, Zenon DEF Own, NodeOK
<1>5. Holds(e, r.blocks, r.hash)
  <2>1. nodes[n].blocks \in Seq(Blocks) /\ \A b \in Range(nodes[n].blocks) : e[b] = data[b]
    BY <1>1, <1>2, <1>3, Zenon DEF NodeOK
  <2>2. Holds(e, nodes[n].blocks, nodes[n].hash)
    BY <1>1, <2>1, HoldsKept, Zenon
  <2> QED
    BY <2>2, Zenon DEF Holds
<1>6. (bitmap \ Range(nodes[n].sblocks)) \cup Range(r.sblocks) = (bitmap \ Own(nodes[n])) \cup Own(r)
  BY <1>2, <1>3, <1>4, Zenon
<1>7. Own(r) \cap (bitmap \ Own(nodes[n])) = {} /\ Own(r) \subseteq Blocks
  BY <1>2, <1>3, <1>4, Zenon
<1>8. \A b \in bitmap \ Own(nodes[n]) : e[b] = data[b]
  BY <1>3, Zenon
<1> QED
  BY <1>5, <1>6, <1>7, <1>8, TablesReplace, Zenon

(* Some halves go, and nothing else changes.                               *)
LEMMA TablesShrunk ==
  ASSUME Tables(nodes, bitmap, data), NEW ns, DOMAIN ns = Nodes, NEW bm, bm \subseteq Blocks,
         \A n \in Nodes : NodeOK(ns[n]),
         \A n \in Nodes :
           /\ ns[n].blocks # <<>> => ns[n].blocks = nodes[n].blocks /\ ns[n].hash = nodes[n].hash
           /\ ns[n].sblocks # <<>> =>
                ns[n].sblocks = nodes[n].sblocks /\ ns[n].shash = nodes[n].shash,
         \A b \in Blocks : b \in bm <=> \E n \in Nodes : b \in Own(ns[n])
  PROVE  Tables(ns, bm, data)
<1>1. Range(<<>>) = {}
  BY DEF Range
<1>2. \A n \in Nodes : Own(ns[n]) \subseteq Own(nodes[n])
  BY <1>1 DEF Own
<1>3. \A n, m \in Nodes : n # m => Own(ns[n]) \cap Own(ns[m]) = {}
  <2>1. \A n, m \in Nodes : n # m => Own(nodes[n]) \cap Own(nodes[m]) = {}
    BY Zenon DEF Tables
  <2> QED
    BY <1>2, <2>1, Zenon
<1>4. \A n \in Nodes : /\ Holds(data, ns[n].blocks, ns[n].hash)
                       /\ Holds(data, ns[n].sblocks, ns[n].shash)
  BY DEF Tables, Holds
<1> QED
  BY <1>3, <1>4, Zenon DEF Tables

-----------------------------------------------------------------------------
(* delete_node and rename_node: an entry leaves its path.  It is not a     *)
(* directory that something lives in.                                      *)
LEMMA Childless ==
  ASSUME NEW p \in Paths, ~ has_active_children(p), NEW m \in Nodes, nodes[m].active,
         nodes[m].path \in Paths, Parent[nodes[m].path] = p
  PROVE  p = Root
<1>1. CASE nodes[m].path = Root
  BY <1>1, PathsAssumption
<1>2. CASE nodes[m].path # Root /\ p # Root
  <2>1. nodes[m].path \in Below[p]
    BY <1>2, PathsAssumption
  <2> QED
    BY <2>1 DEF has_active_children
<1> QED
  BY <1>1, <1>2

LEMMA LiveLeft ==
  ASSUME Tables(nodes, bitmap, data), LiveClosed(nodes), NEW p \in Paths, NEW n \in Nodes,
         nodes[n].path = p, nodes[n].type = "DIR" => ~ has_active_children(p),
         NEW m \in Nodes, m # n, nodes[m].active,
         NEW ns, \A k \in Nodes : k # n => ns[k] = nodes[k]
  PROVE  LiveDir(ns, Parent[ns[m].path])
<1>1. nodes[m].path \in Paths /\ ns[m] = nodes[m]
  BY Zenon DEF Tables, NodeOK
<1>2. LiveDir(nodes, Parent[nodes[m].path])
  BY DEF LiveClosed
<1>3. CASE Parent[nodes[m].path] = Root
  BY <1>1, <1>3 DEF LiveDir
<1>4. ASSUME NEW k \in Nodes, nodes[k].active, nodes[k].path = Parent[nodes[m].path],
             nodes[k].type = "DIR"
      PROVE  LiveDir(ns, Parent[ns[m].path])
  <2>1. CASE k = n
    BY <1>1, <1>3, <1>4, <2>1, Childless, Zenon
  <2>2. CASE k # n
    BY <1>1, <1>4, <2>2, Zenon DEF LiveDir
  <2> QED
    BY <2>1, <2>2
<1> QED
  BY <1>2, <1>3, <1>4, Zenon DEF LiveDir

Gone(nd, r) ==
  /\ NodeOK(r) /\ r.active = FALSE /\ r.blocks = <<>> /\ r.hash = <<>>
  /\ r.snap = nd.snap /\ r.sblocks = nd.sblocks
  /\ nd.snap => r.path = nd.path /\ r.stype = nd.stype /\ r.shash = nd.shash

LEMMA InactiveFields ==
  ASSUME NEW nd, NodeOK(nd)
  PROVE  Gone(nd, Inactive(nd))
<1> DEFINE r == Inactive(nd)
<1> SUFFICES Gone(nd, r)
  OBVIOUS
<1>0. <<>> \in Seq(Blocks) /\ <<>> \in Seq(Sectors) /\ Range(<<>>) = {} /\ IsInjective(<<>>)
  BY DEF Range, IsInjective
<1>1. CASE nd.snap
  <2>1. /\ DOMAIN r = Fields
        /\ r.active = FALSE /\ r.type = "DIR" /\ r.hash = <<>> /\ r.blocks = <<>>
        /\ r.recent = FALSE /\ r.path = nd.path
        /\ r.snap = nd.snap /\ r.stype = nd.stype /\ r.shash = nd.shash
        /\ r.sblocks = nd.sblocks /\ r.srecent = nd.srecent
    BY <1>1, Zenon DEF Inactive, NodeOK, Fields
  <2> QED
    BY <1>0, <2>1, Zenon DEF NodeOK, Gone
<1>2. CASE ~ nd.snap
  <2>1. r = FreeNode /\ nd.snap = FALSE /\ nd.sblocks = <<>>
    BY <1>2 DEF Inactive, NodeOK
  <2>2. /\ FreeNode.active = FALSE /\ FreeNode.blocks = <<>> /\ FreeNode.hash = <<>>
        /\ FreeNode.snap = FALSE /\ FreeNode.sblocks = <<>>
    BY DEF FreeNode
  <2> QED
    BY <2>1, <2>2, FreeNodeOK, Zenon DEF Gone
<1> QED
  BY <1>1, <1>2

LEMMA DeleteStep ==
  ASSUME Inv, NEW p \in Paths, delete_node(p), Watch, UNCHANGED use
  PROVE  Inv'
<1>1. mode = "idle" /\ UNCHANGED data /\ Tables(nodes, bitmap, data) /\ DOMAIN data = Blocks
  BY Zenon DEF delete_node, Inv, TypeInv, Tables
<1>2. CASE \E s : Reject(s)
  BY <1>1, <1>2, Refused DEF Reject
<1>3. ASSUME NEW n \in find_node(p, FALSE), ~ (nodes[n].type = "DIR" /\ has_active_children(p)),
             write_metadata([nodes EXCEPT ![n] = Inactive(@)], bitmap \ Range(nodes[n].blocks))
      PROVE  Inv'
  <2>1. n \in Nodes /\ NodeOK(nodes[n]) /\ DOMAIN nodes = Nodes
        /\ nodes[n].active /\ nodes[n].path = p
    BY <1>1, Zenon DEF find_node, Tables
  <2>2. PICK r : r = Inactive(nodes[n]) /\ Gone(nodes[n], r)
    BY <2>1, InactiveFields
  <2>3. /\ NodeOK(r) /\ r.active = FALSE /\ r.blocks = <<>> /\ r.hash = <<>>
        /\ r.snap = nodes[n].snap /\ r.sblocks = nodes[n].sblocks
        /\ nodes[n].snap => /\ r.path = nodes[n].path /\ r.stype = nodes[n].stype
                            /\ r.shash = nodes[n].shash
    BY <2>2, Zenon DEF Gone
  <2>4. PICK ns, bm : ns = [nodes EXCEPT ![n] = r] /\ bm = bitmap \ Range(nodes[n].blocks)
    BY Zenon
  <2>5. write_metadata(ns, bm)
    BY <1>3, <2>2, <2>4
  <2>6. ns[n] = r /\ \A m \in Nodes : m # n => ns[m] = nodes[m]
    BY <2>1, <2>4
  <2>7. Tables(ns, bm, data')
    <3>1. Range(<<>>) = {} /\ Holds(data, <<>>, <<>>)
      BY DEF Range, Holds
    <3>2. r.sblocks # <<>> => r.shash = nodes[n].shash
      BY <2>1, <2>3, Zenon DEF NodeOK
    <3>3. Tables([nodes EXCEPT ![n] = r],
                 (bitmap \ Range(nodes[n].blocks)) \cup Range(r.blocks), data)
      BY <1>1, <2>1, <2>3, <3>1, <3>2, TablesLive, Zenon
    <3>4. bm = (bitmap \ Range(nodes[n].blocks)) \cup Range(r.blocks)
      BY <2>3, <2>4, <3>1, Zenon
    <3> QED
      BY <1>1, <2>4, <3>3, <3>4
  <2>8. \A m \in Nodes : ns[m].sblocks = nodes[m].sblocks
    BY <2>3, <2>6
  <2>9. mode' = "idle" => TreeOK(ns)
    <3> HAVE mode' = "idle"
    <3>1. nodes' = ns
      BY <2>5 DEF write_metadata, Return, Stop
    <3>2. \A m \in Nodes : ~ Renamed(m)
      BY <2>3, <2>6, <3>1 DEF Renamed
    <3>3. names' = names
      BY <1>1, <3>2, NamesKept
    <3>4. ASSUME OwnPaths(nodes) PROVE OwnPaths(ns)
      BY <2>3, <2>6, <3>4 DEF OwnPaths, Used
    <3>5. ASSUME LiveClosed(nodes) PROVE LiveClosed(ns)
      <4>1. \A m \in Nodes : ns[m].active => m # n /\ nodes[m].active
        BY <2>3, <2>6
      <4> QED
        BY <1>1, <1>3, <2>1, <2>6, <3>5, <4>1, LiveLeft DEF LiveClosed
    <3>6. ASSUME SnapClosed(nodes) PROVE SnapClosed(ns)
      <4>1. \A m \in Nodes : /\ ns[m].snap = nodes[m].snap
                             /\ nodes[m].snap => /\ ns[m].stype = nodes[m].stype
                                                 /\ ns[m].path = nodes[m].path
        BY <2>3, <2>6, Zenon
      <4>2. \A q : SnapDir(nodes, q) => SnapDir(ns, q)
        BY <4>1 DEF SnapDir
      <4> QED
        BY <3>6, <4>1, <4>2, Zenon DEF SnapClosed
    <3> QED
      BY <1>1, <3>3, <3>4, <3>5, <3>6 DEF TreeOK, Inv, TreeInv
  <2> QED
    BY <1>1, <2>5, <2>7, <2>8, <2>9, Saved, Zenon
<1> QED
  BY <1>2, <1>3, Zenon DEF delete_node

LEMMA RenameStep ==
  ASSUME Inv, NEW p \in Paths, NEW q \in Paths, rename_node(p, q), Watch, UNCHANGED use
  PROVE  Inv'
<1>1. mode = "idle" /\ UNCHANGED data /\ Tables(nodes, bitmap, data) /\ DOMAIN data = Blocks
  BY DEF rename_node, Inv, TypeInv, Tables
<1>2. CASE \E s : Reject(s)
  BY <1>1, <1>2, Refused DEF Reject
<1>3. ASSUME parent_exists_for(q), NEW n \in find_node(p, FALSE), find_node(q, FALSE) = {},
             ~ (nodes[n].type = "DIR" /\ has_active_children(p)),
             write_metadata([nodes EXCEPT ![n].path = q, ![n].recent = TRUE], bitmap)
      PROVE  Inv'
  <2>1. n \in Nodes /\ NodeOK(nodes[n]) /\ DOMAIN nodes = Nodes
        /\ nodes[n].active /\ nodes[n].path = p
    BY <1>1, Zenon DEF find_node, Tables
  <2>2. PICK r : r = [nodes[n] EXCEPT !.path = q, !.recent = TRUE]
    OBVIOUS
  <2>3. /\ DOMAIN r = Fields
        /\ r.active = nodes[n].active /\ r.type = nodes[n].type /\ r.hash = nodes[n].hash
        /\ r.blocks = nodes[n].blocks /\ r.recent = TRUE /\ r.path = q
        /\ r.snap = nodes[n].snap /\ r.stype = nodes[n].stype /\ r.shash = nodes[n].shash
        /\ r.sblocks = nodes[n].sblocks /\ r.srecent = nodes[n].srecent
    BY <2>1, <2>2, Zenon DEF NodeOK, Fields
  <2>4. PICK ns : ns = [nodes EXCEPT ![n] = r]
    BY Zenon
  <2>5. write_metadata(ns, bitmap)
    <3>1. ns = [nodes EXCEPT ![n].path = q, ![n].recent = TRUE]
      BY <2>1, <2>2, <2>4, Zenon
    <3> QED
      BY <1>3, <3>1
  <2>6. ns[n] = r /\ \A m \in Nodes : m # n => ns[m] = nodes[m]
    BY <2>1, <2>4
  <2>7. Tables(ns, bitmap, data')
    <3>1. NodeOK(r)
      BY <2>1, <2>3, Zenon DEF NodeOK
    <3>2. Holds(data, r.blocks, r.hash)
      BY <1>1, <2>1, <2>3 DEF Tables
    <3>3. Range(nodes[n].blocks) \subseteq bitmap
      BY <1>1, <2>1, InBitmap, Zenon
    <3>4. bitmap = (bitmap \ Range(nodes[n].blocks)) \cup Range(r.blocks)
          /\ Range(r.blocks) \cap (bitmap \ Range(nodes[n].blocks)) = {}
      BY <2>3, <3>3, Zenon
    <3>5. Tables([nodes EXCEPT ![n] = r],
                 (bitmap \ Range(nodes[n].blocks)) \cup Range(r.blocks), data)
      BY <1>1, <2>1, <2>3, <3>1, <3>2, <3>4, TablesLive, Zenon
    <3> QED
      BY <1>1, <2>4, <3>4, <3>5
  <2>8. \A m \in Nodes : ns[m].sblocks = nodes[m].sblocks
    BY <2>3, <2>6, Zenon
  <2>9. mode' = "idle" => TreeOK(ns)
    <3> HAVE mode' = "idle"
    <3>1. nodes' = ns
      BY <2>5 DEF write_metadata, Return, Stop
    <3>2. p # q /\ \A m \in Nodes : nodes[m].active => nodes[m].path # q
      BY <1>3, <2>1 DEF find_node
    <3>3. Renamed(n) /\ nodes'[n].path = q
      BY <2>1, <2>3, <2>6, <3>1, <3>2, Zenon DEF Renamed
    <3>4. names' # "clash" =>
            names # "clash" /\ \A m \in Nodes : m # n /\ nodes[m].snap => nodes[m].path # q
      BY <1>1, <2>1, <3>3, Zenon DEF Watch
    <3>5. names' = "whole" => names = "whole" /\ ~ nodes[n].snap /\ Parent[q] # p
      BY <1>1, <2>1, <3>3, Zenon DEF Watch
    <3>6. ASSUME names' # "clash" PROVE OwnPaths(ns)
      <4>1. OwnPaths(nodes)
        BY <3>4, <3>6 DEF Inv, TreeInv
      <4>2. \A m \in Nodes : m # n /\ Used(nodes[m]) => nodes[m].path # q
        BY <3>2, <3>4, <3>6 DEF Used
      <4> QED
        BY <2>3, <2>6, <4>1, <4>2 DEF OwnPaths
    <3>7. ASSUME names' = "whole" PROVE LiveClosed(ns)
      <4>1. LiveClosed(nodes)
        BY <1>1, <3>5, <3>7 DEF Inv, TreeInv
      <4>2. LiveDir(ns, Parent[ns[n].path])
        <5>1. Parent[q] = Root \/ \E m \in Nodes : /\ nodes[m].active /\ nodes[m].path = Parent[q]
                                                   /\ nodes[m].type = "DIR"
          BY <1>3 DEF parent_exists_for, find_node
        <5> QED
          BY <2>1, <2>3, <2>6, <3>5, <3>7, <5>1, Zenon DEF LiveDir
      <4>3. \A m \in Nodes : ns[m].active /\ m # n => LiveDir(ns, Parent[ns[m].path])
        BY <1>1, <1>3, <2>1, <2>6, <4>1, LiveLeft
      <4> QED
        BY <4>2, <4>3 DEF LiveClosed
    <3>8. ASSUME names' = "whole" PROVE SnapClosed(ns)
      <4>1. SnapClosed(nodes) /\ ~ nodes[n].snap
        BY <1>1, <3>5, <3>8, Zenon DEF Inv, TreeInv
      <4>2. \A m \in Nodes : /\ ns[m].snap = nodes[m].snap
                             /\ nodes[m].snap => /\ ns[m].stype = nodes[m].stype
                                                 /\ ns[m].path = nodes[m].path
        BY <2>3, <2>6, <4>1, Zenon
      <4>3. \A d : SnapDir(nodes, d) => SnapDir(ns, d)
        BY <4>2, Zenon DEF SnapDir
      <4> QED
        BY <4>1, <4>2, <4>3, Zenon DEF SnapClosed
    <3> QED
      BY <3>6, <3>7, <3>8 DEF TreeOK
  <2> QED
    BY <1>1, <2>5, <2>7, <2>8, <2>9, Saved, Zenon
<1> QED
  BY <1>2, <1>3, ZenonT(60) DEF rename_node

-----------------------------------------------------------------------------
(* A mount finds no image that validates, and formats.                     *)
LEMMA MountStep ==
  ASSUME Inv, mutable_fs_mount_persistent, Watch, UNCHANGED use
  PROVE  Inv'
<1>1. /\ mode = "down" /\ todo' = {} /\ ~ validate_disk(meta) /\ nodes = AllFree
      /\ bitmap = {} /\ DOMAIN data = Blocks
  BY NeverValid, Zenon DEF mutable_fs_mount_persistent, Inv, PhaseInv, TypeInv, Tables
<1>2. ASSUME mode' = "idle", nodes' \in WithRoot(AllFree), bitmap' = {}, UNCHANGED data,
             meta' = Image(nodes', bitmap')
      PROVE  Inv'
  <2>1. \A m \in Nodes : AllFree[m] = FreeNode /\ ~ FreeNode.active /\ ~ FreeNode.snap
                         /\ FreeNode.path = Root
    BY Zenon DEF AllFree, FreeNode
  <2>2. PICK n \in Nodes : nodes' = [AllFree EXCEPT ![n].active = TRUE, ![n].recent = TRUE]
    BY <1>2, <2>1 DEF WithRoot
  <2>3. PICK r : r = [FreeNode EXCEPT !.active = TRUE, !.recent = TRUE]
    OBVIOUS
  <2>4. nodes' = [AllFree EXCEPT ![n] = r]
    BY <2>1, <2>2, <2>3, Zenon DEF AllFree
  <2>5. /\ DOMAIN r = Fields /\ r.active = TRUE /\ r.recent = TRUE /\ r.path = Root
        /\ r.snap = FALSE /\ r.type = "DIR" /\ r.stype = "DIR" /\ r.srecent = FALSE
        /\ r.hash = <<>> /\ r.shash = <<>> /\ r.blocks = <<>> /\ r.sblocks = <<>>
    BY <2>3 DEF FreeNode, Fields
  <2>6. <<>> \in Seq(Blocks) /\ <<>> \in Seq(Sectors) /\ Range(<<>>) = {} /\ IsInjective(<<>>)
    BY DEF Range, IsInjective
  <2>7. NodeOK(r) /\ Own(r) = {} /\ Holds(data, r.blocks, r.hash)
        /\ Holds(data, r.sblocks, r.shash)
    BY <2>5, <2>6, PathsAssumption, ZenonT(60) DEF NodeOK, Own, Holds
  <2>8. Tables(nodes', {}, data)
    BY <1>1, <2>4, <2>7, FreeTables, TablesReplace, ZenonT(60)
  <2>9. nodes'[n] = r /\ \A m \in Nodes : m # n => nodes'[m] = FreeNode
    BY <2>1, <2>4 DEF AllFree
  <2>10. TypeInv'
    BY <1>1, <1>2, <2>8, NamesType DEF Inv, TypeInv
  <2>11. PhaseInv'
    BY <1>2, Zenon DEF PhaseInv
  <2>12. TreeInv'
    <3>1. OwnPaths(nodes') /\ SnapClosed(nodes')
      BY <2>1, <2>5, <2>9, Zenon DEF OwnPaths, Used, SnapClosed
    <3>2. LiveClosed(nodes')
      BY <2>1, <2>5, <2>9, PathsAssumption DEF LiveClosed, LiveDir
    <3> QED
      BY <3>1, <3>2 DEF TreeInv
  <2>13. ImageInv'
    BY <1>2, <2>8, ImageWritten
  <2> QED
    BY <2>10, <2>11, <2>12, <2>13 DEF Inv
<1>3. ASSUME meta' \in {meta, Torn, Image(AllFree, {})},
             UNCHANGED <<nodes, bitmap, data, mode, exposed>>
      PROVE  Inv'
  <2>1. names' = "whole" /\ names = "whole"
    BY <1>1, <1>3, NamesType, Zenon DEF Inv, PhaseInv
  <2>2. TypeInv'
    BY <1>1, <1>3, <2>1 DEF Inv, TypeInv
  <2>3. PhaseInv'
    BY <1>1, <1>3, <2>1, Zenon DEF PhaseInv
  <2>4. TreeInv'
    BY <1>1, <1>3, FreeTables, Zenon DEF TreeInv
  <2>5. ImageInv'
    <3>1. CASE meta' = meta
      BY <1>3, <3>1, Zenon DEF Inv, ImageInv
    <3>2. CASE meta' = Torn
      BY <3>2, Zenon DEF ImageInv, Torn
    <3>3. CASE meta' = Image(AllFree, {})
      BY <1>1, <1>3, <3>3, FreeTables, ImageWritten
    <3> QED
      BY <1>3, <3>1, <3>2, <3>3
  <2> QED
    BY <2>2, <2>3, <2>4, <2>5 DEF Inv
<1>4. ASSUME mode' = "astray", meta' \in {Image(AllFree, {}), Torn},
             UNCHANGED <<nodes, bitmap, data, exposed>>
      PROVE  Inv'
  <2>1. names' = "whole"
    <3>1. names = "whole" /\ \A m \in Nodes : nodes[m].active = FALSE
      BY <1>1, Zenon DEF Inv, PhaseInv, AllFree, FreeNode
    <3> QED
      BY <1>1, <1>4, <3>1 DEF Watch, Renamed
  <2>2. TypeInv'
    BY <1>1, <1>4, <2>1 DEF Inv, TypeInv
  <2>3. PhaseInv'
    BY <1>1, <1>4, <2>1, Zenon DEF PhaseInv
  <2>4. TreeInv'
    BY <1>1, <1>4, FreeTables, Zenon DEF TreeInv
  <2>5. ImageInv'
    <3>1. CASE meta' = Torn
      BY <3>1, Zenon DEF ImageInv, Torn
    <3>2. CASE meta' = Image(AllFree, {})
      BY <1>1, <1>4, <3>2, FreeTables, ImageWritten
    <3> QED
      BY <1>4, <3>1, <3>2
  <2> QED
    BY <2>2, <2>3, <2>4, <2>5 DEF Inv
<1> QED
  BY <1>1, <1>2, <1>3, <1>4 DEF mutable_fs_mount_persistent

-----------------------------------------------------------------------------
(* commit_snapshot.  The live half of an entry stays as it is.             *)
LiveKept(nd, r) ==
  /\ NodeOK(r) /\ r.active = nd.active /\ r.blocks = nd.blocks
  /\ nd.active => r.type = nd.type /\ r.hash = nd.hash /\ r.path = nd.path
  /\ r.snap => nd.active

LiveSame(ns) ==
  /\ \A m \in Nodes : /\ ns[m].active = nodes[m].active /\ ns[m].blocks = nodes[m].blocks
                      /\ nodes[m].active => /\ ns[m].type = nodes[m].type
                                            /\ ns[m].path = nodes[m].path
  /\ OwnPaths(nodes) => OwnPaths(ns)
  /\ LiveClosed(nodes) => LiveClosed(ns)

LEMMA CommitKeeps ==
  ASSUME Tables(nodes, bitmap, data), NEW n \in Nodes, NEW r, LiveKept(nodes[n], r)
  PROVE  LiveSame([nodes EXCEPT ![n] = r])
<1>0. PICK ns : ns = [nodes EXCEPT ![n] = r]
  BY Zenon
<1>1. ns[n] = r /\ \A m \in Nodes : m # n => ns[m] = nodes[m]
  BY <1>0, Zenon DEF Tables
<1>2. \A m \in Nodes : /\ ns[m].active = nodes[m].active /\ ns[m].blocks = nodes[m].blocks
                       /\ nodes[m].active => /\ ns[m].type = nodes[m].type
                                             /\ ns[m].path = nodes[m].path
  BY <1>1, Zenon DEF LiveKept
<1>3. \A m \in Nodes : Used(ns[m]) => Used(nodes[m]) /\ ns[m].path = nodes[m].path
  BY <1>1, ZenonT(60) DEF LiveKept, Used, Tables, NodeOK
<1>4. OwnPaths(nodes) => OwnPaths(ns)
  BY <1>3, Zenon DEF OwnPaths
<1>5. \A q : LiveDir(nodes, q) => LiveDir(ns, q)
  BY <1>2 DEF LiveDir
<1>6. LiveClosed(nodes) => LiveClosed(ns)
  BY <1>2, <1>5, Zenon DEF LiveClosed
<1> QED
  BY <1>0, <1>2, <1>4, <1>6 DEF LiveSame

(* The snapshot half's blocks are all a commit writes or gives back.       *)
LEMMA CommitFrees ==
  ASSUME Tables(nodes, bitmap, data), NEW n \in Nodes, NEW m \in Nodes
  PROVE  Range(nodes[m].blocks) \subseteq bitmap \ Range(nodes[n].sblocks)
<1>1. Range(nodes[m].blocks) \subseteq bitmap
  BY InBitmap
<1>2. CASE m = n
  BY <1>1, <1>2, Zenon DEF Tables, NodeOK
<1>3. CASE m # n
  BY <1>1, <1>3, Zenon DEF Tables, Own
<1> QED
  BY <1>2, <1>3

LEMMA CommitTables ==
  ASSUME Tables(nodes, bitmap, data), NEW n \in Nodes, NEW r, LiveKept(nodes[n], r),
         Range(r.sblocks) \cap (bitmap \ Range(nodes[n].sblocks)) = {},
         NEW e, DOMAIN e = Blocks, Holds(e, r.sblocks, r.shash),
         \A b \in bitmap \ Range(nodes[n].sblocks) : e[b] = data[b]
  PROVE  Tables([nodes EXCEPT ![n] = r],
                (bitmap \ Range(nodes[n].sblocks)) \cup Range(r.sblocks), e)
<1>1. NodeOK(nodes[n])
  BY Zenon DEF Tables
<1>2. NodeOK(r) /\ r.blocks = nodes[n].blocks /\ (r.blocks # <<>> => r.hash = nodes[n].hash)
  BY <1>1, Zenon DEF LiveKept, NodeOK
<1> QED
  BY <1>2, TablesSnap, Zenon

LEMMA CommitGo ==
  ASSUME Inv, mode = "commit", NEW n \in todo, NEW r, LiveKept(nodes[n], r), Same(r),
         nodes' = [nodes EXCEPT ![n] = r], Tables(nodes', bitmap', data'),
         \A b \in bitmap \ Range(nodes[n].sblocks) : data'[b] = data[b],
         todo' = todo \ {n}, UNCHANGED <<meta, mode, exposed, use>>, Watch
  PROVE  Inv'
<1>1. Tables(nodes, bitmap, data) /\ n \in Nodes /\ todo \subseteq Nodes /\ "snap" \in exposed
  BY Zenon DEF Inv, TypeInv, PhaseInv
<1>2. nodes'[n] = r /\ \A m \in Nodes : m # n => nodes'[m] = nodes[m]
  BY <1>1, Zenon DEF Tables
<1>3. /\ \A m \in Nodes : nodes'[m].blocks = nodes[m].blocks
      /\ OwnPaths(nodes) => OwnPaths(nodes')
      /\ LiveClosed(nodes) => LiveClosed(nodes')
      /\ \A m \in Nodes : ~ Renamed(m)
  <2>1. LiveSame(nodes')
    BY <1>1, CommitKeeps, Zenon
  <2> QED
    BY <2>1, Zenon DEF LiveSame, Renamed
<1>4. names' = names
  BY <1>3, NamesKept, Zenon
<1>5. TypeInv'
  BY <1>1, <1>4 DEF Inv, TypeInv
<1>6. PhaseInv'
  <2>1. \A m \in Nodes \ todo' : Same(nodes'[m])
    BY <1>1, <1>2, Zenon DEF Inv, PhaseInv
  <2> QED
    BY <1>1, <2>1 DEF PhaseInv
<1>7. TreeInv'
  BY <1>3, <1>4 DEF Inv, TreeInv
<1>8. KeepsData(data') /\ KeepsBlocks(nodes')
  BY <1>1, <1>3, CommitFrees, Zenon DEF KeepsData, KeepsBlocks
<1>9. ImageInv'
  BY <1>1, <1>8, ImageKept, Zenon DEF Inv
<1> QED
  BY <1>5, <1>6, <1>7, <1>9, Zenon DEF Inv

(* It gives up on an entry: the names may have come loose.                 *)
LEMMA CommitGaveUp ==
  ASSUME Inv, mode = "commit", NEW n \in todo, NEW r, LiveKept(nodes[n], r),
         NEW ns, ns = [nodes EXCEPT ![n] = r], nodes' = ns, mode' = "idle",
         exposed' = exposed, Watch
  PROVE  TreeOK(ns) /\ KeepsBlocks(ns)
<1>1. Tables(nodes, bitmap, data) /\ n \in Nodes /\ "snap" \in exposed
  BY Zenon DEF Inv, TypeInv, PhaseInv
<1>2. /\ \A m \in Nodes : ns[m].blocks = nodes[m].blocks
      /\ OwnPaths(nodes) => OwnPaths(ns)
      /\ \A m \in Nodes : ~ Renamed(m)
  <2>1. LiveSame(ns)
    BY <1>1, CommitKeeps, Zenon
  <2> QED
    BY <2>1 DEF LiveSame, Renamed
<1>3. names' # "whole" /\ (names' # "clash" => names # "clash")
  BY <1>2, Zenon DEF Watch
<1> QED
  BY <1>1, <1>2, <1>3, Zenon DEF TreeOK, KeepsBlocks, Inv, TreeInv

LEMMA SnapshotKept ==
  ASSUME NEW nd, NodeOK(nd), nd.active, NEW b \in Seq(Blocks), IsInjective(b),
         Range(nd.blocks) \cap Range(b) = {}
  PROVE  /\ LiveKept(nd, Snapshot(nd, b)) /\ Snapshot(nd, b).sblocks = b
         /\ Snapshot(nd, b).shash = nd.hash
         /\ (nd.type = "FILE" => (nd.blocks = <<>>) = (b = <<>>)) => Same(Snapshot(nd, b))
<1>1. PICK r : r = Snapshot(nd, b)
  OBVIOUS
<1>2. /\ DOMAIN r = Fields
      /\ r.active = nd.active /\ r.type = nd.type /\ r.hash = nd.hash
      /\ r.blocks = nd.blocks /\ r.recent = nd.recent /\ r.path = nd.path
      /\ r.snap = TRUE /\ r.stype = nd.type /\ r.shash = nd.hash
      /\ r.sblocks = b /\ r.srecent = nd.recent
  BY <1>1, Zenon DEF Snapshot, NodeOK, Fields
<1>3. NodeOK(r)
  BY <1>2, Zenon DEF NodeOK
<1>4. LiveKept(nd, r)
  BY <1>2, <1>3, Zenon DEF LiveKept
<1>5. nd.active = TRUE
  BY Zenon DEF NodeOK
<1>6. (nd.type = "FILE" => (nd.blocks = <<>>) = (b = <<>>)) => Same(r)
  BY <1>2, <1>5, Zenon DEF Same
<1> QED
  BY <1>1, <1>2, <1>4, <1>6, Zenon

(* Reading the sectors of a half that has any gives its contents.          *)
LEMMA ReadHolds ==
  ASSUME NEW blocks \in Seq(Blocks), NEW hash \in Seq(Sectors), Holds(data, blocks, hash)
  PROVE  /\ Len(read_blocks(blocks)) = Len(blocks)
         /\ blocks # <<>> => read_blocks(blocks) = hash
<1>1. Len(blocks) \in Nat /\ Len(read_blocks(blocks)) = Len(blocks)
  BY DEF read_blocks
<1>2. ASSUME blocks # <<>> PROVE read_blocks(blocks) = hash
  <2>1. Len(blocks) = Len(hash) /\ \A i \in 1 .. Len(blocks) : data[blocks[i]] = hash[i]
    BY <1>2 DEF Holds
  <2>2. hash = [i \in 1 .. Len(hash) |-> hash[i]]
    OBVIOUS
  <2> QED
    BY <2>1, <2>2 DEF read_blocks
<1> QED
  BY <1>1, <1>2

(* So a copy of them to new blocks holds the same contents.                *)
LEMMA Copied ==
  ASSUME DOMAIN data = Blocks, NEW old \in Seq(Blocks), NEW hash \in Seq(Sectors),
         Holds(data, old, hash), NEW bm, NEW blocks \in allocate_blocks(bm, Len(old)),
         NEW e, e = write_blocks(blocks, read_blocks(old), Len(old))
  PROVE  /\ DOMAIN e = Blocks /\ \A b \in Blocks : b \notin Range(blocks) => e[b] = data[b]
         /\ Holds(e, blocks, hash) /\ (old = <<>>) = (blocks = <<>>)
<1>1. /\ Len(old) \in Nat /\ Len(read_blocks(old)) = Len(old)
      /\ old # <<>> => read_blocks(old) = hash
  BY ReadHolds
<1>2. Len(old) \in 0 .. Len(old)
  BY <1>1
<1>3. /\ DOMAIN e = Blocks /\ \A b \in Blocks : b \notin Range(blocks) => e[b] = data[b]
      /\ Holds(e, blocks, read_blocks(old))
  BY <1>1, <1>2, Written
<1>4. blocks \in Seq(Blocks) /\ Len(blocks) = Len(old)
  BY <1>1, Allocated
<1>5. (old = <<>>) = (blocks = <<>>)
  BY <1>4
<1>6. Holds(e, blocks, hash)
  <2>1. CASE blocks = <<>>
    BY <2>1 DEF Holds
  <2>2. CASE blocks # <<>>
    BY <1>1, <1>3, <1>5, <2>2
  <2> QED
    BY <2>1, <2>2
<1> QED
  BY <1>3, <1>5, <1>6

LEMMA CommitNodeStep ==
  ASSUME Inv, NEW n \in Nodes, CommitNode(n), Watch, UNCHANGED use
  PROVE  Inv'
<1> DEFINE nd == nodes[n]
           freed == bitmap \ Range(nd.sblocks)
<1>1. /\ mode = "commit" /\ n \in todo /\ Tables(nodes, bitmap, data) /\ DOMAIN data = Blocks
      /\ NodeOK(nd) /\ "snap" \in exposed /\ bitmap \subseteq Blocks
  BY Zenon DEF CommitNode, Inv, TypeInv, Tables, PhaseInv
<1>2. /\ <<>> \in Seq(Blocks) /\ IsInjective(<<>>) /\ Range(<<>>) = {}
      /\ Holds(data, <<>>, nd.hash) /\ Len(nd.blocks) \in Nat
  <2>1. nd.blocks \in Seq(Blocks)
    BY <1>1, Zenon DEF NodeOK
  <2>2. Len(nd.blocks) \in Nat
    BY <2>1, RangeOf, Zenon
  <2>3. Holds(data, <<>>, nd.hash)
    BY Zenon DEF Holds
  <2> QED
    BY <2>2, <2>3, NoBlocks, Zenon
<1>3. ASSUME NEW r, LiveKept(nd, r), Same(r), r.sblocks = <<>>, UNCHANGED data,
             nodes' = [nodes EXCEPT ![n] = r], bitmap' = freed,
             todo' = todo \ {n}, UNCHANGED <<meta, mode, exposed>>
      PROVE  Inv'
  <2>1. Tables([nodes EXCEPT ![n] = r], freed \cup Range(r.sblocks), data)
    <3>1. Range(r.sblocks) \cap freed = {} /\ Holds(data, r.sblocks, r.shash)
      BY <1>2, <1>3, Zenon DEF Holds
    <3> QED
      BY <1>1, <1>3, <3>1, CommitTables, Zenon
  <2>2. freed \cup Range(r.sblocks) = freed
    BY <1>2, <1>3
  <2>3. Tables(nodes', bitmap', data')
    BY <1>3, <2>1, <2>2, Zenon
  <2> QED
    BY <1>1, <1>3, <2>3, CommitGo, Zenon
<1>4. CASE ~ nd.active
  <2>1. /\ nodes' = [nodes EXCEPT ![n] = FreeNode] /\ bitmap' = freed /\ UNCHANGED data
        /\ todo' = todo \ {n} /\ UNCHANGED <<meta, mode, exposed>>
    BY <1>4, Zenon DEF CommitNode
  <2>2. /\ FreeNode.active = FALSE /\ FreeNode.blocks = <<>> /\ FreeNode.snap = FALSE
        /\ FreeNode.sblocks = <<>> /\ nd.active = FALSE /\ nd.blocks = <<>>
    BY <1>1, <1>4, Zenon DEF FreeNode, NodeOK
  <2>3. LiveKept(nd, FreeNode) /\ Same(FreeNode)
    BY <2>2, FreeNodeOK, Zenon DEF LiveKept, Same
  <2> QED
    BY <1>3, <2>1, <2>2, <2>3, Zenon
<1>5. ASSUME nd.active
      PROVE  /\ LiveKept(nd, Snapshot(nd, <<>>)) /\ Snapshot(nd, <<>>).sblocks = <<>>
             /\ nd.type # "FILE" => Same(Snapshot(nd, <<>>))
  <2>1. Range(nd.blocks) \cap Range(<<>>) = {}
    BY <1>2
  <2> QED
    BY <1>1, <1>2, <1>5, <2>1, SnapshotKept, Zenon
<1>6. CASE nd.active /\ nd.type = "DIR"
  <2>1. /\ nodes' = [nodes EXCEPT ![n] = Snapshot(nd, <<>>)] /\ bitmap' = freed
        /\ UNCHANGED data /\ todo' = todo \ {n} /\ UNCHANGED <<meta, mode, exposed>>
    BY <1>6, Zenon DEF CommitNode
  <2> QED
    BY <1>3, <1>5, <1>6, <2>1, Zenon
<1>7. CASE nd.active /\ nd.type = "FILE"
  <2>1. PICK r : r = Snapshot(nd, <<>>)
    OBVIOUS
  <2>2. LiveKept(nd, r) /\ r.sblocks = <<>>
    BY <1>5, <1>7, <2>1, Zenon
  <2>3. PICK ns : ns = [nodes EXCEPT ![n] = r]
    BY Zenon
  <2>4. ASSUME NEW d, DOMAIN d = Blocks, \A b \in freed : d[b] = data[b]
        PROVE  Tables(ns, freed, d)
    <3>1. Range(r.sblocks) \cap freed = {} /\ Holds(d, r.sblocks, r.shash)
      BY <1>2, <2>2, Zenon DEF Holds
    <3>2. Tables(ns, freed \cup Range(r.sblocks), d)
      BY <1>1, <2>2, <2>3, <2>4, <3>1, CommitTables, Zenon
    <3>3. freed \cup Range(r.sblocks) = freed
      BY <1>2, <2>2, Zenon
    <3> QED
      BY <3>2, <3>3, Zenon
  <2>5. ASSUME NEW s, Return(s, ns, freed), UNCHANGED <<data, meta, exposed>>
        PROVE  Inv'
    <3>1. TreeOK(ns) /\ KeepsBlocks(ns)
      BY <1>1, <2>2, <2>3, <2>5, CommitGaveUp, Zenon DEF Return
    <3>2. Tables(ns, freed, data') /\ KeepsData(data')
      BY <1>1, <2>4, <2>5, Zenon DEF KeepsData
    <3> QED
      BY <1>1, <2>5, <3>1, <3>2, GaveUp
  <2>6. ASSUME NEW blocks \in allocate_blocks(freed, Len(nd.blocks)),
               BlockFault(blocks, read_blocks(nd.blocks), ns, freed)
        PROVE  Inv'
    <3>1. /\ Range(blocks) \cap freed = {} /\ Len(read_blocks(nd.blocks)) = Len(nd.blocks)
      <4>1. nd.blocks \in Seq(Blocks) /\ nd.hash \in Seq(Sectors) /\ Holds(data, nd.blocks, nd.hash)
        BY <1>1, Zenon DEF Tables, NodeOK
      <4> QED
        BY <1>2, <4>1, Allocated, ReadHolds, Zenon
    <3>2. \A d : /\ DOMAIN d = Blocks
                 /\ \A b \in Blocks : b \notin Range(blocks) => d[b] = data[b]
                 => Tables(ns, freed, d)
      BY <1>1, <2>4, <3>1, Zenon
    <3>3. mode' = "idle" => TreeOK(ns) /\ KeepsBlocks(ns)
      <4> HAVE mode' = "idle"
      <4>1. nodes' = ns /\ exposed' = exposed
        BY <2>6 DEF BlockFault, Return, Stop
      <4> QED
        BY <1>1, <2>2, <2>3, <4>1, CommitGaveUp, Zenon
    <3>4. \A m \in Nodes : Range(nodes[m].blocks) \cap Range(blocks) = {}
      BY <1>1, <3>1, CommitFrees, Zenon
    <3>5. exposed' = exposed
      BY <2>6 DEF BlockFault, Stop
    <3> QED
      BY <1>1, <1>2, <2>6, <3>1, <3>2, <3>3, <3>4, <3>5, Faulted, Zenon
  <2>7. ASSUME NEW blocks \in allocate_blocks(freed, Len(nd.blocks)),
               data' = write_blocks(blocks, read_blocks(nd.blocks), Len(nd.blocks)),
               nodes' = [nodes EXCEPT ![n] = Snapshot(nd, blocks)],
               bitmap' = freed \cup Range(blocks), todo' = todo \ {n},
               UNCHANGED <<meta, mode, exposed>>
        PROVE  Inv'
    <3>1. /\ blocks \in Seq(Blocks) /\ IsInjective(blocks) /\ Range(blocks) \cap freed = {}
      BY <1>2, Allocated
    <3>2. /\ DOMAIN data' = Blocks /\ Holds(data', blocks, nd.hash)
          /\ \A b \in Blocks : b \notin Range(blocks) => data'[b] = data[b]
          /\ (nd.blocks = <<>>) = (blocks = <<>>)
      <4>1. nd.blocks \in Seq(Blocks) /\ nd.hash \in Seq(Sectors) /\ Holds(data, nd.blocks, nd.hash)
        BY <1>1, Zenon DEF Tables, NodeOK
      <4>2. DOMAIN data = Blocks /\ data' = write_blocks(blocks, read_blocks(nd.blocks), Len(nd.blocks))
        BY <1>1, <2>7, Zenon
      <4> QED
        BY <4>1, <4>2, Copied
    <3>3. Range(nd.blocks) \cap Range(blocks) = {}
      BY <1>1, <3>1, CommitFrees, Zenon
    <3>4. PICK t : t = Snapshot(nd, blocks)
      OBVIOUS
    <3>5. LiveKept(nd, t) /\ t.sblocks = blocks /\ t.shash = nd.hash /\ Same(t)
      BY <1>1, <1>7, <3>1, <3>2, <3>3, <3>4, SnapshotKept, Zenon
    <3>6. \A b \in freed : data'[b] = data[b]
      BY <1>1, <3>1, <3>2, Zenon
    <3>7. Tables(nodes', bitmap', data')
      BY <1>1, <2>7, <3>1, <3>2, <3>4, <3>5, <3>6, CommitTables, Zenon
    <3> QED
      BY <1>1, <2>7, <3>4, <3>5, <3>6, <3>7, CommitGo, ZenonT(60)
  <2> QED
    BY <1>7, <2>1, <2>3, <2>5, <2>6, <2>7, Zenon DEF CommitNode
<1> QED
  BY <1>1, <1>4, <1>6, <1>7, Zenon DEF NodeOK

LEMMA CommitBeginStep ==
  ASSUME Inv, CommitBegin, Watch, UNCHANGED use
  PROVE  Inv'
<1>1. /\ mode = "idle" /\ mode' = "commit" /\ todo' = Nodes /\ exposed' = exposed \cup {"snap"}
      /\ nodes' = nodes /\ bitmap' = bitmap /\ data' = data /\ meta' = meta
  BY DEF CommitBegin
<1>2. names' = names
  BY <1>1, NamesKept DEF Renamed
<1>3. TypeInv'
  BY <1>1, <1>2 DEF Inv, TypeInv
<1>4. PhaseInv'
  BY <1>1 DEF PhaseInv
<1>5. TreeInv'
  BY <1>1, <1>2 DEF Inv, TreeInv
<1>6. KeepsData(data') /\ KeepsBlocks(nodes')
  BY <1>1 DEF KeepsData, KeepsBlocks
<1>7. ImageInv'
  BY <1>1, <1>6, ImageKept DEF Inv, TypeInv
<1> QED
  BY <1>3, <1>4, <1>5, <1>7 DEF Inv

(* With every entry visited the snapshot is the live tree, and as closed.  *)
Aged(nd, r) ==
  /\ NodeOK(r)
  /\ r.active = nd.active /\ r.type = nd.type /\ r.hash = nd.hash
  /\ r.blocks = nd.blocks /\ r.path = nd.path
  /\ r.snap = nd.snap /\ r.stype = nd.stype /\ r.shash = nd.shash /\ r.sblocks = nd.sblocks

LEMMA AgedFields ==
  ASSUME NEW nd, NodeOK(nd), Same(nd)
  PROVE  Aged(nd, [nd EXCEPT !.recent = FALSE, !.srecent = FALSE])
<1>1. PICK r : r = [nd EXCEPT !.recent = FALSE, !.srecent = FALSE]
  OBVIOUS
<1>2. /\ DOMAIN r = Fields
      /\ r.active = nd.active /\ r.type = nd.type /\ r.hash = nd.hash
      /\ r.blocks = nd.blocks /\ r.recent = FALSE /\ r.path = nd.path
      /\ r.snap = nd.snap /\ r.stype = nd.stype /\ r.shash = nd.shash
      /\ r.sblocks = nd.sblocks /\ r.srecent = FALSE
  BY <1>1 DEF NodeOK, Fields
<1>3. r.active /\ ~ r.snap => r.recent
  BY <1>2 DEF Same
<1>4. NodeOK(r)
  BY <1>2, <1>3, ZenonT(60) DEF NodeOK
<1> QED
  BY <1>1, <1>2, <1>4 DEF Aged

LEMMA CommitEndStep ==
  ASSUME Inv, CommitEnd, Watch, UNCHANGED use
  PROVE  Inv'
<1>1. PICK ns : ns = [n \in Nodes |-> [nodes[n] EXCEPT !.recent = FALSE, !.srecent = FALSE]]
  BY Zenon
<1>2. /\ mode = "commit" /\ todo = {} /\ UNCHANGED data /\ write_metadata(ns, bitmap)
  BY <1>1, Zenon DEF CommitEnd
<1>3. /\ Tables(nodes, bitmap, data) /\ \A n \in Nodes : NodeOK(nodes[n]) /\ Same(nodes[n])
  BY <1>2, Zenon DEF Inv, TypeInv, PhaseInv, Tables
<1>4. DOMAIN ns = Nodes /\ \A n \in Nodes : Aged(nodes[n], ns[n])
  BY <1>1, <1>3, AgedFields, Zenon
<1>5. Tables(ns, bitmap, data)
  <2>1. \A n \in Nodes : Own(ns[n]) = Own(nodes[n])
    BY <1>4, Zenon DEF Aged, Own
  <2>2. bitmap \subseteq Blocks
        /\ \A b \in Blocks : b \in bitmap <=> \E n \in Nodes : b \in Own(ns[n])
    BY <1>3, <2>1, Zenon DEF Tables
  <2>3. \A n \in Nodes :
           /\ NodeOK(ns[n])
           /\ ns[n].blocks = nodes[n].blocks /\ ns[n].hash = nodes[n].hash
           /\ ns[n].sblocks = nodes[n].sblocks /\ ns[n].shash = nodes[n].shash
    BY <1>4, Zenon DEF Aged
  <2> QED
    BY <1>3, <1>4, <2>2, <2>3, TablesShrunk, Zenon
<1>6. \A n \in Nodes : ns[n].sblocks = nodes[n].sblocks
  BY <1>4 DEF Aged
<1>7. mode' = "idle" => TreeOK(ns)
  <2> HAVE mode' = "idle"
  <2>1. nodes' = ns
    BY <1>2 DEF write_metadata, Return, Stop
  <2>2. \A n \in Nodes : /\ ns[n].active = nodes[n].active /\ ns[n].path = nodes[n].path
                         /\ ns[n].type = nodes[n].type
                         /\ ns[n].snap = nodes[n].snap /\ ns[n].stype = nodes[n].stype
    BY <1>4, Zenon DEF Aged
  <2>3. names' = names
    BY <1>2, <2>1, <2>2, NamesKept, Zenon DEF Renamed
  <2>4. OwnPaths(nodes) => OwnPaths(ns)
    BY <2>2 DEF OwnPaths, Used
  <2>5. ASSUME LiveClosed(nodes) PROVE LiveClosed(ns) /\ SnapClosed(ns)
    <3>1. \A q : LiveDir(nodes, q) => LiveDir(ns, q)
      BY <2>2 DEF LiveDir
    <3>2. \A n \in Nodes : /\ ns[n].snap = nodes[n].active
                           /\ nodes[n].active => ns[n].stype = nodes[n].type
      BY <1>3, <2>2, Zenon DEF Same
    <3>3. \A q : LiveDir(nodes, q) => SnapDir(ns, q)
      BY <2>2, <3>2 DEF LiveDir, SnapDir
    <3> QED
      BY <2>2, <2>5, <3>1, <3>2, <3>3, Zenon DEF LiveClosed, SnapClosed
  <2> QED
    BY <1>2, <2>3, <2>4, <2>5 DEF TreeOK, Inv, TreeInv
<1> QED
  BY <1>2, <1>5, <1>6, <1>7, Saved
=============================================================================
