---------------------------- MODULE MemoryProofs ----------------------------
(***************************************************************************)
(* Proofs about the receive ring of the network device, for every number   *)
(* of descriptors; about the kernel heap, for every size and alignment;    *)
(* and about the page allocator, for every memory map, bitmap size,        *)
(* tracker size and set of CPUs.                                           *)
(*                                                                         *)
(* OneOwner is not inductive: a page on its way back (between the caller's *)
(* call and numa_free_page) is in nobody's hands, and must be free in no   *)
(* bitmap and in nobody else's hands until FreeReturn sets its bit.        *)
(***************************************************************************)
EXTENDS PageAllocator, KHeap, VirtioNet, FiniteSetTheorems, WellFoundedInduction, TLAPS

USE SMTT(60), ZenonT(30)

(* The receive ring: every buffer is made available, at work on, in the    *)
(* used ring or lost with a refused frame, and in one of these places.     *)
RxIds == 0 .. RxDescs - 1

RxEntry == [id : RxIds, frame : Packets \cup {Runt, Free}]

RxTypeOK ==
  /\ DOMAIN rx = {"posted", "held", "used", "bufs", "refused"}
  /\ rx.posted \in Seq(RxIds)
  /\ rx.held \in SUBSET RxIds
  /\ rx.used \in Seq(RxEntry)
  /\ rx.bufs \in [RxIds -> Packets \cup {Runt, Free}]
  /\ rx.refused \in Nat

RxPlaces ==
  /\ \A i, j \in 1 .. Len(rx.posted) : rx.posted[i] = rx.posted[j] => i = j
  /\ \A i, j \in 1 .. Len(rx.used) : rx.used[i].id = rx.used[j].id => i = j
  /\ \A i \in 1 .. Len(rx.posted), j \in 1 .. Len(rx.used) : rx.posted[i] # rx.used[j].id
  /\ \A i \in 1 .. Len(rx.posted) : rx.posted[i] \notin rx.held
  /\ \A i \in 1 .. Len(rx.used) : rx.used[i].id \notin rx.held
  /\ \A i \in 1 .. Len(rx.used) : rx.bufs[rx.used[i].id] = rx.used[i].frame

RxCount == Len(rx.posted) + Len(rx.used) + Cardinality(rx.held) + rx.refused = RxDescs

RxInv == RxTypeOK /\ RxPlaces /\ RxCount

(* What the concatenation of two sequences holds.                          *)
LEMMA Concat ==
  ASSUME NEW S, NEW a \in Seq(S), NEW b \in Seq(S)
  PROVE  /\ a \o b \in Seq(S) /\ Len(a \o b) = Len(a) + Len(b)
         /\ \A x \in 1 .. Len(a) + Len(b) :
               (a \o b)[x] = IF x <= Len(a) THEN a[x] ELSE b[x - Len(a)]
<1>1. a \o b \in Seq(S)
  OBVIOUS
<1>2. Len(a \o b) = Len(a) + Len(b)
  OBVIOUS
<1>3. \A x \in 1 .. Len(a) + Len(b) : (a \o b)[x] = IF x <= Len(a) THEN a[x] ELSE b[x - Len(a)]
  OBVIOUS
<1> QED
  BY <1>1, <1>2, <1>3

LEMMA RxInit == virtio_net_init_persistent => RxInv
<1> SUFFICES ASSUME virtio_net_init_persistent PROVE RxInv
  BY Zenon
<1>1. /\ rx.posted = [i \in 1 .. RxDescs |-> i - 1] /\ rx.held = {} /\ rx.used = << >>
      /\ rx.bufs = [d \in RxIds |-> Free] /\ rx.refused = 0
      /\ DOMAIN rx = {"posted", "held", "used", "bufs", "refused"}
  BY DEF virtio_net_init_persistent, RxIds
<1>2. rx.posted \in Seq(RxIds) /\ Len(rx.posted) = RxDescs
  BY <1>1, NicAssumption DEF RxIds
<1>3. Len(rx.used) = 0 /\ rx.used \in Seq(RxEntry)
  BY <1>1
<1>4. Cardinality(rx.held) = 0
  BY <1>1, FS_EmptySet
<1>5. RxTypeOK
  BY <1>1, <1>2, <1>3 DEF RxTypeOK
<1>6. RxPlaces
  BY <1>1, <1>2, <1>3, NicAssumption DEF RxPlaces
<1>7. RxCount
  BY <1>1, <1>2, <1>3, <1>4, NicAssumption DEF RxCount
<1> QED
  BY <1>5, <1>6, <1>7 DEF RxInv

(* The number of buffers the device is at work on is a natural.            *)
LEMMA RxHeldFinite ==
  ASSUME RxTypeOK
  PROVE  IsFiniteSet(rx.held) /\ Cardinality(rx.held) \in Nat
<1>1. IsFiniteSet(RxIds)
  BY FS_Interval, NicAssumption DEF RxIds
<1>2. IsFiniteSet(rx.held)
  BY <1>1, FS_Subset DEF RxTypeOK
<1> QED
  BY <1>2, FS_CardinalityType

(* Each entry of the used ring names a buffer.                             *)
LEMMA RxEntries ==
  ASSUME RxTypeOK
  PROVE  \A i \in 1 .. Len(rx.used) : rx.used[i].id \in RxIds
<1>1. \A i \in 1 .. Len(rx.used) : rx.used[i] \in RxEntry
  BY DEF RxTypeOK
<1>2. \A e \in RxEntry : e.id \in RxIds
  BY DEF RxEntry
<1> QED
  BY <1>1, <1>2

LEMMA DeviceWritesStep ==
  ASSUME RxInv, NEW frame \in Packets \cup {Runt}, DeviceWrites(frame)
  PROVE  RxInv'
<1> DEFINE d == Head(rx.posted)
<1>0. RxTypeOK /\ RxPlaces /\ RxCount /\ IsFiniteSet(rx.held) /\ Cardinality(rx.held) \in Nat
  BY RxHeldFinite DEF RxInv
<1>1. /\ rx.posted # << >>
      /\ rx'.posted = Tail(rx.posted) /\ rx'.held = rx.held \cup {d}
      /\ rx'.bufs = [rx.bufs EXCEPT ![d] = frame] /\ rx'.used = rx.used /\ rx'.refused = rx.refused
      /\ DOMAIN rx' = {"posted", "held", "used", "bufs", "refused"}
  BY <1>0 DEF DeviceWrites, RxTypeOK
<1>2. /\ d = rx.posted[1] /\ d \in RxIds /\ rx'.posted \in Seq(RxIds)
      /\ Len(rx.posted) \in Nat /\ Len(rx.posted) >= 1
      /\ Len(rx'.posted) = Len(rx.posted) - 1
      /\ \A i \in 1 .. Len(rx'.posted) : rx'.posted[i] = rx.posted[i + 1]
  BY <1>0, <1>1 DEF RxTypeOK
<1> HIDE DEF d
<1>3. RxTypeOK'
  BY <1>0, <1>1, <1>2, Zenon DEF RxTypeOK
<1>4. d \notin rx.held /\ \A i \in 1 .. Len(rx.used) : rx.used[i].id # d /\ rx.used[i].id \in RxIds
  <2>1. 1 \in 1 .. Len(rx.posted)
    BY <1>2
  <2>2. d \notin rx.held /\ \A i \in 1 .. Len(rx.used) : rx.used[i].id # d
    BY <1>0, <1>2, <2>1 DEF RxPlaces
  <2>3. \A i \in 1 .. Len(rx.used) : rx.used[i].id \in RxIds
    BY <1>0, RxEntries
  <2> QED
    BY <2>2, <2>3
<1>5. RxPlaces'
  <2>1. \A i \in 1 .. Len(rx'.posted) : i + 1 \in 1 .. Len(rx.posted) /\ i + 1 # 1
    BY <1>2
  <2>2. \A i \in 1 .. Len(rx'.posted) : rx.posted[i + 1] # rx.posted[1] /\ rx.posted[i + 1] \notin rx.held
    BY <1>0, <1>2, <2>1 DEF RxPlaces
  <2>3. \A i, j \in 1 .. Len(rx'.posted) : rx.posted[i + 1] = rx.posted[j + 1] => i = j
    BY <1>0, <1>2, <2>1 DEF RxPlaces
  <2>4. \A i \in 1 .. Len(rx'.used) : /\ rx'.used[i].id \notin rx'.held
                                       /\ rx'.bufs[rx'.used[i].id] = rx'.used[i].frame
    <3>1. \A e \in RxIds : e # d => rx'.bufs[e] = rx.bufs[e]
      BY <1>0, <1>1, Zenon DEF RxTypeOK
    <3> QED
      BY <1>0, <1>1, <1>4, <3>1 DEF RxPlaces
  <2>5. \A i \in 1 .. Len(rx'.posted) : rx'.posted[i] \notin rx'.held
    BY <1>1, <1>2, <2>2, Zenon
  <2>6. \A i, j \in 1 .. Len(rx'.posted) : rx'.posted[i] = rx'.posted[j] => i = j
    BY <1>2, <2>3, Zenon
  <2>7. \A i \in 1 .. Len(rx'.posted), j \in 1 .. Len(rx'.used) : rx'.posted[i] # rx'.used[j].id
    BY <1>0, <1>1, <1>2, <2>1 DEF RxPlaces
  <2> QED
    BY <1>0, <1>1, <2>4, <2>5, <2>6, <2>7, Zenon DEF RxPlaces
<1>6. Cardinality(rx'.held) = Cardinality(rx.held) + 1
  BY <1>0, <1>1, <1>4, FS_AddElement, ZenonT(60)
<1>7. Len(rx.used) \in Nat
  BY <1>0 DEF RxTypeOK
<1>8. RxCount'
  BY <1>0, <1>1, <1>2, <1>6, <1>7, NicAssumption DEF RxCount, RxTypeOK
<1> QED
  BY <1>3, <1>5, <1>8 DEF RxInv

LEMMA DeviceHandsBackStep ==
  ASSUME RxInv, NEW d \in 0 .. RxDescs - 1, DeviceHandsBack(d)
  PROVE  RxInv'
<1> DEFINE e == [id |-> d, frame |-> rx.bufs[d]]
<1>0. RxTypeOK /\ RxPlaces /\ RxCount /\ IsFiniteSet(rx.held) /\ Cardinality(rx.held) \in Nat
  BY RxHeldFinite DEF RxInv
<1>1. /\ d \in rx.held /\ rx'.held = rx.held \ {d} /\ rx'.used = Append(rx.used, e)
      /\ rx'.posted = rx.posted /\ rx'.bufs = rx.bufs /\ rx'.refused = rx.refused
      /\ DOMAIN rx' = {"posted", "held", "used", "bufs", "refused"}
  BY <1>0 DEF DeviceHandsBack, RxTypeOK
<1>2. e \in RxEntry /\ e.id = d /\ e.frame = rx.bufs[d]
  BY <1>0, Zenon DEF RxTypeOK, RxIds, RxEntry
<1> HIDE DEF e
<1>3. /\ rx'.used \in Seq(RxEntry)
      /\ Len(rx.used) \in Nat /\ Len(rx'.used) = Len(rx.used) + 1
      /\ rx'.used[Len(rx.used) + 1] = e
      /\ \A i \in 1 .. Len(rx.used) : rx'.used[i] = rx.used[i]
  BY <1>0, <1>1, <1>2 DEF RxTypeOK
<1>4. RxTypeOK'
  BY <1>0, <1>1, <1>3 DEF RxTypeOK
<1>5. RxPlaces'
  <2>1. \A i \in 1 .. Len(rx.used) : rx.used[i].id # d /\ rx'.used[i].id = rx.used[i].id
                                      /\ rx'.used[i].frame = rx.used[i].frame
    BY <1>0, <1>1, <1>3, Zenon DEF RxPlaces
  <2>2. rx'.used[Len(rx.used) + 1].id = d /\ rx'.used[Len(rx.used) + 1].frame = rx.bufs[d]
    BY <1>2, <1>3
  <2>3. \A i \in 1 .. Len(rx'.used) : i \in 1 .. Len(rx.used) \/ i = Len(rx.used) + 1
    BY <1>3
  <2>4. \A i \in 1 .. Len(rx.posted) : rx.posted[i] # d
    BY <1>0, <1>1, Zenon DEF RxPlaces
  <2>5. \A i, j \in 1 .. Len(rx'.used) : rx'.used[i].id = rx'.used[j].id => i = j
    BY <1>0, <2>1, <2>2, <2>3, ZenonT(60) DEF RxPlaces
  <2>6. \A i \in 1 .. Len(rx'.posted), j \in 1 .. Len(rx'.used) : rx'.posted[i] # rx'.used[j].id
    BY <1>0, <1>1, <2>1, <2>2, <2>3, <2>4 DEF RxPlaces
  <2>7. \A i \in 1 .. Len(rx'.used) : /\ rx'.used[i].id \notin rx'.held
                                       /\ rx'.bufs[rx'.used[i].id] = rx'.used[i].frame
    BY <1>0, <1>1, <2>1, <2>2, <2>3, Zenon DEF RxPlaces
  <2> QED
    BY <1>0, <1>1, <2>5, <2>6, <2>7, Zenon DEF RxPlaces
<1>6. Cardinality(rx'.held) = Cardinality(rx.held) - 1
  BY <1>0, <1>1, FS_RemoveElement, ZenonT(60)
<1>7. Len(rx.posted) \in Nat
  BY <1>0 DEF RxTypeOK
<1>8. RxCount'
  BY <1>0, <1>1, <1>3, <1>6, <1>7, NicAssumption DEF RxCount, RxTypeOK
<1> QED
  BY <1>4, <1>5, <1>8 DEF RxInv

(* The buffer a poll takes from the used ring is refused or posted again.  *)
LEMMA RxCountKept ==
  ASSUME RxCount, RxTypeOK, RxTypeOK', Cardinality(rx.held) \in Nat, Len(rx'.used) = Len(rx.used) - 1, rx'.held = rx.held,
         \/ rx'.refused = rx.refused + 1 /\ rx'.posted = rx.posted
         \/ rx'.refused = rx.refused /\ Len(rx'.posted) = Len(rx.posted) + 1
  PROVE  RxCount'
<1>1. Cardinality(rx'.held) = Cardinality(rx.held)
  OBVIOUS
<1>2. CASE rx'.refused = rx.refused + 1 /\ rx'.posted = rx.posted
  <2>1. Len(rx'.posted) = Len(rx.posted)
    BY <1>2
  <2> QED
    BY <1>1, <1>2, <2>1, NicAssumption DEF RxCount, RxTypeOK
<1>3. CASE rx'.refused = rx.refused /\ Len(rx'.posted) = Len(rx.posted) + 1
  BY <1>1, <1>3, NicAssumption DEF RxCount, RxTypeOK
<1> QED
  BY <1>2, <1>3

LEMMA PollStep ==
  ASSUME RxInv, virtio_net_rx_poll, rx.used # << >>
  PROVE  RxInv'
<1> DEFINE e == Head(rx.used)
<1>0. RxTypeOK /\ RxPlaces /\ RxCount /\ IsFiniteSet(rx.held) /\ Cardinality(rx.held) \in Nat
  BY RxHeldFinite DEF RxInv
<1>1. /\ Len(rx.used) \in Nat /\ Len(rx.used) >= 1 /\ 1 \in 1 .. Len(rx.used)
      /\ e = rx.used[1] /\ e.id \in RxIds
      /\ Tail(rx.used) \in Seq(RxEntry)
      /\ Len(Tail(rx.used)) = Len(rx.used) - 1
      /\ \A i \in 1 .. Len(Tail(rx.used)) : Tail(rx.used)[i] = rx.used[i + 1]
  <2>1. rx.used \in Seq(RxEntry)
    BY <1>0 DEF RxTypeOK
  <2>2. Len(rx.used) \in Nat /\ Len(rx.used) >= 1
    BY <2>1
  <2>3. 1 \in 1 .. Len(rx.used)
    BY <2>2
  <2>4. e = rx.used[1]
    BY <2>1, <2>2
  <2>5. e.id \in RxIds
    BY <1>0, <2>3, <2>4, RxEntries
  <2> QED
    BY <2>1, <2>2, <2>3, <2>4, <2>5
<1>2. rx' = Polled(e)
  BY DEF virtio_net_rx_poll
<1> HIDE DEF e
<1>3. \A i \in 1 .. Len(Tail(rx.used)) : /\ i + 1 \in 1 .. Len(rx.used) /\ i + 1 # 1
                                         /\ Tail(rx.used)[i].id = rx.used[i + 1].id
                                         /\ Tail(rx.used)[i].frame = rx.used[i + 1].frame
                                         /\ rx.used[i + 1].id # e.id
                                         /\ rx.used[i + 1].id \in RxIds
  <2>1. \A i \in 1 .. Len(Tail(rx.used)) : /\ i + 1 \in 1 .. Len(rx.used) /\ i + 1 # 1
                                           /\ Tail(rx.used)[i] = rx.used[i + 1]
    BY <1>1
  <2>2. \A i \in 1 .. Len(rx.used) : rx.used[i].id \in RxIds
    BY <1>0, RxEntries
  <2> QED
    BY <1>0, <1>1, <2>1, <2>2, Zenon DEF RxPlaces
<1>4. Len(rx.posted) \in Nat /\ rx.refused \in Nat
  BY <1>0 DEF RxTypeOK
<1>5. CASE rx.bufs[e.id] = Runt
  <2>1. /\ rx'.used = Tail(rx.used) /\ rx'.refused = rx.refused + 1 /\ rx'.posted = rx.posted
        /\ rx'.held = rx.held /\ rx'.bufs = rx.bufs
        /\ DOMAIN rx' = {"posted", "held", "used", "bufs", "refused"}
    BY <1>0, <1>2, <1>5 DEF Polled, RxTypeOK
  <2>2. RxTypeOK'
    BY <1>0, <1>1, <2>1 DEF RxTypeOK
  <2>3. RxPlaces'
    BY <1>0, <1>1, <1>3, <2>1 DEF RxPlaces
  <2>4. RxCount'
    <3>1. Len(rx'.used) = Len(rx.used) - 1
      BY <1>1, <2>1
    <3>2. rx'.refused = rx.refused + 1 /\ rx'.posted = rx.posted /\ rx'.held = rx.held
      BY <2>1
    <3> QED
      BY <1>0, <2>2, <3>1, <3>2, RxCountKept
  <2> QED
    BY <2>2, <2>3, <2>4 DEF RxInv
<1>6. CASE rx.bufs[e.id] # Runt
  <2>1. /\ rx'.used = Tail(rx.used) /\ rx'.refused = rx.refused /\ rx'.held = rx.held
        /\ rx'.posted = Append(rx.posted, e.id) /\ rx'.bufs = [rx.bufs EXCEPT ![e.id] = Free]
        /\ DOMAIN rx' = {"posted", "held", "used", "bufs", "refused"}
    BY <1>0, <1>2, <1>6 DEF Polled, Reposted, RxTypeOK
  <2>2. /\ rx'.posted \in Seq(RxIds) /\ Len(rx'.posted) = Len(rx.posted) + 1
        /\ rx'.posted[Len(rx.posted) + 1] = e.id
        /\ \A i \in 1 .. Len(rx.posted) : rx'.posted[i] = rx.posted[i]
        /\ \A i \in 1 .. Len(rx'.posted) : i \in 1 .. Len(rx.posted) \/ i = Len(rx.posted) + 1
    BY <1>0, <1>1, <1>4, <2>1 DEF RxTypeOK
  <2>3. RxTypeOK'
    BY <1>0, <1>1, <2>1, <2>2, Zenon DEF RxTypeOK
  <2>4. e.id \notin rx.held /\ \A i \in 1 .. Len(rx.posted) : rx.posted[i] # e.id
    BY <1>0, <1>1, Zenon DEF RxPlaces
  <2>5. \A i, j \in 1 .. Len(rx'.posted) : rx'.posted[i] = rx'.posted[j] => i = j
    BY <1>0, <2>2, <2>4, ZenonT(60) DEF RxPlaces
  <2>6. \A i, j \in 1 .. Len(rx'.used) : rx'.used[i].id = rx'.used[j].id => i = j
    BY <1>0, <1>1, <1>3, <2>1 DEF RxPlaces
  <2>7. \A i \in 1 .. Len(rx'.posted), j \in 1 .. Len(rx'.used) : rx'.posted[i] # rx'.used[j].id
    BY <1>0, <1>3, <2>1, <2>2 DEF RxPlaces
  <2>8. \A i \in 1 .. Len(rx'.posted) : rx'.posted[i] \notin rx'.held
    BY <1>0, <2>1, <2>2, <2>4, Zenon DEF RxPlaces
  <2>9. \A i \in 1 .. Len(rx'.used) : /\ rx'.used[i].id \notin rx'.held
                                      /\ rx'.bufs[rx'.used[i].id] = rx'.used[i].frame
    <3>1. \A d \in RxIds : d # e.id => rx'.bufs[d] = rx.bufs[d]
      BY <1>0, <2>1 DEF RxTypeOK
    <3> QED
      BY <1>0, <1>3, <2>1, <3>1 DEF RxPlaces
  <2>10. RxPlaces'
    BY <2>5, <2>6, <2>7, <2>8, <2>9, Zenon DEF RxPlaces
  <2>11. RxCount'
    <3>1. Len(rx'.used) = Len(rx.used) - 1
      BY <1>1, <2>1, Zenon
    <3>2. Len(rx'.posted) = Len(rx.posted) + 1
      BY <2>2
    <3>3. rx'.refused = rx.refused /\ rx'.held = rx.held
      BY <2>1
    <3> QED
      BY <1>0, <2>3, <3>1, <3>2, <3>3, RxCountKept
  <2> QED
    BY <2>3, <2>10, <2>11 DEF RxInv
<1> QED
  BY <1>5, <1>6

(* What the invariant says of the sequence of buffers that the rings hold. *)
LEMMA RxInvHeld == RxInv => RxBuffersHeld
<1> SUFFICES ASSUME RxInv PROVE RxBuffersHeld
  OBVIOUS
<1> DEFINE UsedIds == [i \in DOMAIN rx.used |-> rx.used[i].id]
           holders == rx.posted \o UsedIds
<1>0. RxTypeOK /\ RxPlaces /\ RxCount
  BY DEF RxInv
<1>1. Len(rx.used) \in Nat /\ DOMAIN rx.used = 1 .. Len(rx.used) /\ Len(rx.posted) \in Nat
  BY <1>0 DEF RxTypeOK
<1>2. \A i \in 1 .. Len(rx.used) : rx.used[i].id \in RxIds
  BY <1>0, RxEntries
<1>3. /\ UsedIds \in Seq(RxIds) /\ Len(UsedIds) = Len(rx.used)
      /\ \A i \in 1 .. Len(rx.used) : UsedIds[i] = rx.used[i].id
  BY <1>1, <1>2
<1> HIDE DEF UsedIds
<1>4. /\ holders \in Seq(RxIds) /\ Len(holders) = Len(rx.posted) + Len(rx.used)
      /\ \A i \in 1 .. (Len(rx.posted) + Len(rx.used)) :
            holders[i] = IF i <= Len(rx.posted) THEN rx.posted[i] ELSE UsedIds[i - Len(rx.posted)]
  <2>1. rx.posted \in Seq(RxIds)
    BY <1>0 DEF RxTypeOK
  <2>2. /\ holders \in Seq(RxIds) /\ Len(holders) = Len(rx.posted) + Len(UsedIds)
        /\ \A i \in 1 .. (Len(rx.posted) + Len(UsedIds)) :
              holders[i] = IF i <= Len(rx.posted) THEN rx.posted[i] ELSE UsedIds[i - Len(rx.posted)]
    BY <1>3, <2>1, Concat, ZenonT(60)
  <2> QED
    BY <1>3, <2>2, Zenon
<1> HIDE DEF holders
<1>41. DOMAIN holders = 1 .. (Len(rx.posted) + Len(rx.used))
  BY <1>4
<1>5. \A i \in DOMAIN holders :
         \/ i \in 1 .. Len(rx.posted) /\ holders[i] = rx.posted[i]
         \/ \E k \in 1 .. Len(rx.used) : i = Len(rx.posted) + k /\ holders[i] = rx.used[k].id
  <2> SUFFICES ASSUME NEW i \in 1 .. (Len(rx.posted) + Len(rx.used))
               PROVE  \/ i \in 1 .. Len(rx.posted) /\ holders[i] = rx.posted[i]
                      \/ \E k \in 1 .. Len(rx.used) : i = Len(rx.posted) + k /\ holders[i] = rx.used[k].id
    BY <1>41, Zenon
  <2>0. \A p, u \in Nat : \A k \in 1 .. (p + u) :
           k \in 1 .. p \/ (k - p \in 1 .. u /\ k = p + (k - p) /\ ~ (k <= p))
    OBVIOUS
  <2>1. CASE i \in 1 .. Len(rx.posted)
    <3>1. i <= Len(rx.posted)
      BY <1>1, <2>1
    <3> QED
      BY <1>4, <2>1, <3>1, Zenon
  <2>2. CASE i \notin 1 .. Len(rx.posted)
    <3>1. /\ i - Len(rx.posted) \in 1 .. Len(rx.used) /\ i = Len(rx.posted) + (i - Len(rx.posted))
          /\ ~ (i <= Len(rx.posted))
      BY <1>1, <2>0, <2>2, Zenon
    <3>2. holders[i] = UsedIds[i - Len(rx.posted)]
      BY <1>4, <3>1, Zenon
    <3> QED
      BY <1>3, <3>1, <3>2
  <2> QED
    BY <2>1, <2>2
<1>6. IsInjective(holders)
  <2> SUFFICES ASSUME NEW i \in DOMAIN holders, NEW j \in DOMAIN holders, holders[i] = holders[j]
               PROVE  i = j
    BY DEF IsInjective
  <2>1. CASE i \in 1 .. Len(rx.posted) /\ holders[i] = rx.posted[i]
    <3>1. CASE j \in 1 .. Len(rx.posted) /\ holders[j] = rx.posted[j]
      BY <1>0, <2>1, <3>1, Zenon DEF RxPlaces
    <3>2. CASE \E m \in 1 .. Len(rx.used) : j = Len(rx.posted) + m /\ holders[j] = rx.used[m].id
      BY <1>0, <2>1, <3>2, ZenonT(60) DEF RxPlaces
    <3> QED
      BY <1>5, <3>1, <3>2
  <2>2. CASE \E k \in 1 .. Len(rx.used) : i = Len(rx.posted) + k /\ holders[i] = rx.used[k].id
    <3>1. PICK k \in 1 .. Len(rx.used) : i = Len(rx.posted) + k /\ holders[i] = rx.used[k].id
      BY <2>2
    <3>2. CASE j \in 1 .. Len(rx.posted) /\ holders[j] = rx.posted[j]
      BY <1>0, <3>1, <3>2, Zenon DEF RxPlaces
    <3>3. CASE \E m \in 1 .. Len(rx.used) : j = Len(rx.posted) + m /\ holders[j] = rx.used[m].id
      BY <1>0, <3>1, <3>3, Zenon DEF RxPlaces
    <3> QED
      BY <1>5, <3>2, <3>3
  <2> QED
    BY <1>5, <2>1, <2>2
<1>7. Range(holders) \cap rx.held = {}
  BY <1>0, <1>5 DEF RxPlaces, Range
<1>8. Len(holders) + Cardinality(rx.held) + rx.refused = RxDescs
  BY <1>0, <1>4, Zenon DEF RxCount
<1>9. \A i \in DOMAIN rx.used : rx.bufs[rx.used[i].id] = rx.used[i].frame
  BY <1>0, <1>1, Zenon DEF RxPlaces
<1> QED
  BY <1>6, <1>7, <1>8, <1>9 DEF RxBuffersHeld, holders, UsedIds

(* virtio_net_rx_poll and the device behind it, in any order and for any   *)
(* number of buffers: no receive buffer is in two places, the frame copied *)
(* out is the one the device announced, and only refused frames cost the   *)
(* ring a buffer.                                                          *)
THEOREM ReceiveBuffersHeld == RxSpec => []RxBuffersHeld
<1>1. RxInv /\ [RxNext]_nicVars => RxInv'
  <2> SUFFICES ASSUME RxInv, [RxNext]_nicVars PROVE RxInv'
    BY Zenon
  <2>1. CASE rx' = rx
    BY <2>1 DEF RxInv, RxTypeOK, RxPlaces, RxCount
  <2>2. CASE \E frame \in Packets \cup {Runt} : DeviceWrites(frame)
    BY <2>2, DeviceWritesStep
  <2>3. CASE \E d \in 0 .. RxDescs - 1 : DeviceHandsBack(d)
    BY <2>3, DeviceHandsBackStep
  <2>4. CASE virtio_net_rx_poll
    BY <2>1, <2>4, PollStep DEF virtio_net_rx_poll
  <2> QED
    BY <2>1, <2>2, <2>3, <2>4 DEF RxNext, nicVars
<1> QED
  BY <1>1, RxInit, RxInvHeld, PTL DEF RxSpec

-----------------------------------------------------------------------------
(* The heap.  Blocks are the headers ever written: a block never moves,    *)
(* grows or is written over, so the room of two blocks does not meet,      *)
(* lent, free or leaked.                                                   *)
HeapTypeOK ==
  /\ heap_next \in Nat /\ mapped_end \in Nat
  /\ DOMAIN hdr_size \subseteq Nat
  /\ \A h \in DOMAIN hdr_size : hdr_size[h] \in Nat
  /\ free_list \in Seq(DOMAIN hdr_size)
  /\ DOMAIN lent \subseteq DOMAIN hdr_size
  /\ \A h \in DOMAIN lent : lent[h] \in Nat

BlockInv ==
  /\ heap_next <= mapped_end
  /\ \A h \in DOMAIN hdr_size : h + 1 + hdr_size[h] <= heap_next
  /\ \A g, h \in DOMAIN hdr_size :
       g # h => h + 1 + hdr_size[h] <= g \/ g + 1 + hdr_size[g] <= h

LendInv ==
  /\ \A h \in DOMAIN lent : lent[h] <= hdr_size[h]
  /\ \A i \in DOMAIN free_list : free_list[i] \notin DOMAIN lent
  /\ \A i, j \in DOMAIN free_list : free_list[i] = free_list[j] => i = j

HeapInv == HeapTypeOK /\ BlockInv /\ LendInv

(* A nonempty set of naturals has a least element.                         *)
LEMMA LeastNat ==
  ASSUME NEW T \in SUBSET Nat, T # {}
  PROVE  \E n \in T : \A m \in T : n <= m
<1>1. PICK n \in T : \A m \in T : ~(<<m, n>> \in OpToRel(<, Nat))
  BY NatLessThanWellFounded, WFMin, Zenon
<1>2. \A m \in T : ~(m < n)
  BY <1>1, Zenon DEF OpToRel
<1> QED
  BY <1>2

(* align_up never moves down.                                              *)
LEMMA AlignUp ==
  ASSUME NEW v \in Nat, NEW a \in Nat \ {0}
  PROVE  align_up(v, a) \in Nat /\ align_up(v, a) >= v
<1> DEFINE q == (v + a - 1) \div a
<1>1. q \in Nat /\ v + a - 1 < a * (q + 1)
  OBVIOUS
<1> HIDE DEF q
<1>2. q * a \in Nat /\ a * (q + 1) = q * a + a
  BY <1>1
<1>3. q * a >= v
  BY <1>1, <1>2
<1> QED
  BY <1>2, <1>3 DEF align_up, q

(* The search finds one of its candidates.                                 *)
LEMMA BestFitIsCandidate ==
  ASSUME HeapTypeOK, NEW size \in Nat, NEW align \in Nat \ {0}, Candidates(size, align) # {}
  PROVE  BestFit(size, align) \in Candidates(size, align)
<1> DEFINE C == Candidates(size, align)
           sizeAt(i) == hdr_size[free_list[i]]
<1>0. C # {}
  OBVIOUS
<1>1. C \subseteq Nat /\ \A i \in C : sizeAt(i) \in Nat
  <2>1. C \subseteq DOMAIN free_list
    BY DEF Candidates
  <2>2. \A i \in DOMAIN free_list : i \in Nat /\ free_list[i] \in DOMAIN hdr_size
    BY DEF HeapTypeOK
  <2>3. \A h \in DOMAIN hdr_size : hdr_size[h] \in Nat
    BY DEF HeapTypeOK
  <2> QED
    BY <2>1, <2>2, <2>3, Zenon
<1> HIDE DEF C
<1>2. PICK n \in {sizeAt(i) : i \in C} : \A m \in {sizeAt(i) : i \in C} : n <= m
  <2> DEFINE T == {sizeAt(i) : i \in C}
  <2>1. T \in SUBSET Nat /\ T # {}
    BY <1>0, <1>1, Zenon
  <2> HIDE DEF T
  <2>2. \E n \in T : \A m \in T : n <= m
    BY <2>1, LeastNat
  <2> QED
    BY <2>2 DEF T
<1>3. PICK i \in {j \in C : sizeAt(j) = n} : \A j \in {k \in C : sizeAt(k) = n} : i <= j
  BY <1>1, <1>2, LeastNat, Zenon
<1>4. \A j \in C : sizeAt(i) < sizeAt(j) \/ (sizeAt(i) = sizeAt(j) /\ i <= j)
  <2> TAKE j \in C
  <2>1. sizeAt(i) = n /\ n \in Nat /\ sizeAt(j) \in Nat /\ n <= sizeAt(j)
    BY <1>1, <1>2, <1>3
  <2>2. n < sizeAt(j) \/ n = sizeAt(j)
    BY <2>1
  <2>3. n = sizeAt(j) => i <= j
    BY <1>3
  <2> QED
    BY <2>1, <2>2, <2>3, Zenon
<1> QED
  BY <1>3, <1>4 DEF BestFit, C

(* Cutting the positions from first to i out of a list without repetition  *)
(* leaves a list without repetition and without the block at i.            *)
Distinct(q) == \A x, y \in DOMAIN q : q[x] = q[y] => x = y

Cut(q, first, i) == SubSeq(q, 1, first - 1) \o SubSeq(q, i + 1, Len(q))

ElementsBut(r, q, i) == \A x \in DOMAIN r : \E y \in DOMAIN q \ {i} : r[x] = q[y]

LEMMA CutOut ==
  ASSUME NEW S, NEW q \in Seq(S), Distinct(q), NEW i \in DOMAIN q, NEW first \in 1 .. i
  PROVE  /\ Cut(q, first, i) \in Seq(S)
         /\ ElementsBut(Cut(q, first, i), q, i)
         /\ Distinct(Cut(q, first, i))
<1> DEFINE a == SubSeq(q, 1, first - 1)
           b == SubSeq(q, i + 1, Len(q))
           r == a \o b
           At(x) == IF x < first THEN x ELSE x - first + 1 + i
<1>1. i \in 1 .. Len(q) /\ Len(q) \in Nat
  OBVIOUS
<1>2. /\ a \in Seq(S) /\ Len(a) = first - 1
      /\ \A x \in 1 .. (first - 1) : a[x] = q[x]
  BY <1>1
<1>3. /\ b \in Seq(S) /\ Len(b) = Len(q) - i
      /\ \A x \in 1 .. (Len(q) - i) : b[x] = q[x + i]
  BY <1>1
<1> HIDE DEF a, b
<1>4. /\ r \in Seq(S) /\ Len(r) = first - 1 + Len(q) - i
      /\ \A x \in 1 .. Len(r) : r[x] = IF x <= Len(a) THEN a[x] ELSE b[x - Len(a)]
  <2>1. a \in Seq(S) /\ b \in Seq(S) /\ Len(a) = first - 1 /\ Len(b) = Len(q) - i
    BY <1>2, <1>3, Zenon
  <2>2. /\ r \in Seq(S) /\ Len(r) = Len(a) + Len(b)
        /\ \A x \in 1 .. Len(a) + Len(b) : r[x] = IF x <= Len(a) THEN a[x] ELSE b[x - Len(a)]
    BY <2>1, Concat, Zenon
  <2> HIDE DEF r
  <2> QED
    BY <1>1, <2>1, <2>2
<1>d. DOMAIN r = 1 .. (first - 1 + Len(q) - i) /\ DOMAIN q = 1 .. Len(q)
  BY <1>4
<1> HIDE DEF r
<1>5. ASSUME NEW x \in DOMAIN r
      PROVE  At(x) \in DOMAIN q /\ At(x) # i /\ r[x] = q[At(x)]
  <2>1. CASE x < first
    BY <1>1, <1>2, <1>4, <1>d, <2>1
  <2>2. CASE ~(x < first)
    <3>1. x - Len(a) \in 1 .. (Len(q) - i) /\ ~(x <= Len(a)) /\ x \in 1 .. Len(r)
      BY <1>1, <1>2, <1>4, <1>d, <2>2
    <3>2. r[x] = q[x - Len(a) + i]
      BY <1>3, <1>4, <3>1
    <3>3. x - Len(a) + i = At(x) /\ At(x) \in DOMAIN q /\ At(x) # i
      BY <1>1, <1>2, <1>d, <2>2
    <3> QED
      BY <3>2, <3>3
  <2> QED
    BY <2>1, <2>2
<1>6. \A x, y \in DOMAIN r : At(x) = At(y) => x = y
  BY <1>1, <1>d
<1> HIDE DEF At
<1>7. Distinct(r)
  BY <1>5, <1>6 DEF Distinct
<1>8. ElementsBut(r, q, i)
  BY <1>5 DEF ElementsBut
<1>9. r = Cut(q, first, i)
  BY DEF a, b, r, Cut
<1> QED
  BY <1>4, <1>7, <1>8, <1>9

(* A block taken from the free list.                                       *)
LEMMA ReuseStep ==
  ASSUME HeapInv, NEW size \in Nat, NEW align \in Nat \ {0}, ReuseBlock(size, align)
  PROVE  HeapInv'
<1> DEFINE i == BestFit(size, align)
           h == free_list[i]
<1>0. HeapTypeOK /\ BlockInv /\ LendInv
  BY DEF HeapInv
<1>1. i \in Candidates(size, align)
  BY <1>0, BestFitIsCandidate DEF ReuseBlock
<1>2. /\ free_list' = Unlinked(i, size, align) /\ UNCHANGED <<heap_next, mapped_end, hdr_size>>
      /\ lent' = [x \in DOMAIN lent \cup {h} |-> IF x = h THEN size ELSE lent[x]]
  BY DEF ReuseBlock, Lend
<1> HIDE DEF i
<1>3. i \in DOMAIN free_list /\ h \in DOMAIN hdr_size /\ size <= hdr_size[h]
  <2>1. i \in DOMAIN free_list /\ hdr_size[h] >= size
    BY <1>1 DEF Candidates, Fits
  <2>2. h \in DOMAIN hdr_size
    BY <1>0, <2>1 DEF HeapTypeOK
  <2> QED
    BY <1>0, <2>1, <2>2 DEF HeapTypeOK
<1>4. PICK first \in 1 .. i : free_list' = SubSeq(free_list, 1, first - 1)
                                           \o SubSeq(free_list, i + 1, Len(free_list))
  <2> DEFINE skipped(j) == Fits(free_list[j], size) /\ (free_list[j] + 1) % align # 0
             from == {j \in 1 .. i : \A k \in j .. (i - 1) : skipped(k)}
             first == CHOOSE j \in from : \A k \in from : j <= k
  <2>1. i \in 1 .. i /\ i \in Nat
    BY <1>0, <1>3 DEF HeapTypeOK
  <2>2. from \in SUBSET Nat /\ i \in from
    BY <2>1
  <2>3. \E j \in from : \A k \in from : j <= k
    <3> HIDE DEF from
    <3> QED BY <2>2, LeastNat
  <2>4. first \in from
    <3> HIDE DEF from
    <3> QED BY <2>3
  <2>5. first \in 1 .. i
    BY <2>4
  <2>6. free_list' = SubSeq(free_list, 1, first - 1)
                     \o SubSeq(free_list, i + 1, Len(free_list))
    BY <1>2, Zenon DEF Unlinked
  <2> QED
    BY <2>5, <2>6, Zenon
<1>5. /\ free_list' \in Seq(DOMAIN hdr_size)
      /\ \A x \in DOMAIN free_list' : \E y \in DOMAIN free_list \ {i} : free_list'[x] = free_list[y]
      /\ \A x, y \in DOMAIN free_list' : free_list'[x] = free_list'[y] => x = y
  <2>1. free_list \in Seq(DOMAIN hdr_size) /\ Distinct(free_list)
    BY <1>0 DEF HeapTypeOK, LendInv, Distinct
  <2>2. i \in DOMAIN free_list /\ first \in 1 .. i /\ free_list' = Cut(free_list, first, i)
    BY <1>3, <1>4 DEF Cut
  <2>3. /\ free_list' \in Seq(DOMAIN hdr_size)
        /\ ElementsBut(free_list', free_list, i) /\ Distinct(free_list')
    BY <2>1, <2>2, CutOut
  <2> QED
    BY <2>3 DEF ElementsBut, Distinct
<1> HIDE DEF h
<1>6. HeapTypeOK'
  <2>1. DOMAIN lent' = DOMAIN lent \cup {h} /\ \A x \in DOMAIN lent' : lent'[x] \in Nat
    BY <1>0, <1>2 DEF HeapTypeOK
  <2> QED
    BY <1>0, <1>2, <1>3, <1>5, <2>1, Zenon DEF HeapTypeOK
<1>7. BlockInv'
  BY <1>0, <1>2 DEF BlockInv
<1>8. LendInv'
  <2>1. \A x \in DOMAIN free_list' : free_list'[x] \notin DOMAIN lent /\ free_list'[x] # h
    BY <1>0, <1>3, <1>5 DEF LendInv, h
  <2>2. \A x \in DOMAIN lent' : lent'[x] <= hdr_size'[x]
    BY <1>0, <1>2, <1>3 DEF LendInv
  <2> QED
    BY <1>2, <1>5, <2>1, <2>2, Zenon DEF LendInv
<1> QED
  BY <1>6, <1>7, <1>8 DEF HeapInv

(* A block above every other.                                              *)
LEMMA BumpStep ==
  ASSUME HeapInv, NEW size \in Nat, NEW align \in Nat \ {0}, BumpBlock(size, align)
  PROVE  HeapInv'
<1> DEFINE data == align_up(heap_next + 1, align)
           h == data - 1
           end == data + size
<1>0. HeapTypeOK /\ BlockInv /\ LendInv
  BY DEF HeapInv
<1>1. data \in Nat /\ data >= heap_next + 1
  <2>1. heap_next + 1 \in Nat
    BY <1>0 DEF HeapTypeOK
  <2> QED
    BY <2>1, AlignUp
<1>2. /\ mapped_end' = IF mapped_end < align_up(end, PageUnits)
                       THEN align_up(end, PageUnits) ELSE mapped_end
      /\ hdr_size' = [x \in DOMAIN hdr_size \cup {h} |-> IF x = h THEN size ELSE hdr_size[x]]
      /\ heap_next' = end /\ UNCHANGED free_list
      /\ lent' = [x \in DOMAIN lent \cup {h} |-> IF x = h THEN size ELSE lent[x]]
  BY Zenon DEF BumpBlock, ensure_mapped, Lend
<1> HIDE DEF data
<1>3. end \in Nat /\ h \in Nat /\ h >= heap_next /\ h + 1 + size = end /\ end >= heap_next
  BY <1>0, <1>1 DEF HeapTypeOK
<1>4. align_up(end, PageUnits) \in Nat /\ align_up(end, PageUnits) >= end
  BY <1>3, AlignUp, HeapAssumption
<1> HIDE DEF h, end
<1>5. h \notin DOMAIN hdr_size
  BY <1>0, <1>3 DEF HeapTypeOK, BlockInv
<1>6. /\ DOMAIN hdr_size' = DOMAIN hdr_size \cup {h} /\ hdr_size'[h] = size
      /\ \A x \in DOMAIN hdr_size : hdr_size'[x] = hdr_size[x]
      /\ DOMAIN lent' = DOMAIN lent \cup {h} /\ lent'[h] = size
      /\ \A x \in DOMAIN lent : lent'[x] = lent[x]
  BY <1>0, <1>2, <1>5 DEF HeapTypeOK
<1>7. HeapTypeOK'
  <2>1. free_list' \in Seq(DOMAIN hdr_size')
    BY <1>0, <1>2, <1>6 DEF HeapTypeOK
  <2>2. heap_next' \in Nat /\ mapped_end' \in Nat
    BY <1>0, <1>2, <1>3, <1>4 DEF HeapTypeOK
  <2> QED
    BY <1>0, <1>3, <1>6, <2>1, <2>2 DEF HeapTypeOK
<1>8. BlockInv'
  <2>1. heap_next' <= mapped_end'
    BY <1>0, <1>2, <1>3, <1>4 DEF HeapTypeOK
  <2>2. ASSUME NEW g \in DOMAIN hdr_size
        PROVE  /\ g \in Nat /\ hdr_size'[g] \in Nat
               /\ g + 1 + hdr_size'[g] <= heap_next /\ g + 1 + hdr_size'[g] <= h
    BY <1>0, <1>3, <1>6 DEF HeapTypeOK, BlockInv
  <2>3. \A g \in DOMAIN hdr_size' : g + 1 + hdr_size'[g] <= heap_next'
    BY <1>0, <1>2, <1>3, <1>6, <2>2 DEF HeapTypeOK
  <2>4. \A f, g \in DOMAIN hdr_size' :
           f # g => g + 1 + hdr_size'[g] <= f \/ f + 1 + hdr_size'[f] <= g
    BY <1>0, <1>6, <2>2 DEF BlockInv
  <2> QED
    BY <2>1, <2>3, <2>4 DEF BlockInv
<1>9. LendInv'
  <2>1. \A i \in DOMAIN free_list : free_list[i] \in DOMAIN hdr_size
    BY <1>0 DEF HeapTypeOK
  <2> QED
    BY <1>0, <1>2, <1>5, <1>6, <2>1 DEF LendInv, HeapTypeOK
<1> QED
  BY <1>7, <1>8, <1>9 DEF HeapInv

(* A block that is given back.                                             *)
LEMMA FreeStep ==
  ASSUME HeapInv, NEW h \in DOMAIN lent, kheap_free(h)
  PROVE  HeapInv'
<1>0. HeapTypeOK /\ BlockInv /\ LendInv
  BY DEF HeapInv
<1>1. /\ free_list' = <<h>> \o free_list /\ UNCHANGED <<heap_next, mapped_end, hdr_size>>
      /\ lent' = [x \in DOMAIN lent \ {h} |-> lent[x]]
  BY DEF kheap_free
<1>2. h \in DOMAIN hdr_size /\ free_list \in Seq(DOMAIN hdr_size) /\ Len(free_list) \in Nat
  BY <1>0 DEF HeapTypeOK
<1>3. /\ free_list' \in Seq(DOMAIN hdr_size) /\ Len(free_list') = Len(free_list) + 1
      /\ free_list'[1] = h
      /\ \A i \in 2 .. Len(free_list') : free_list'[i] = free_list[i - 1]
  BY <1>1, <1>2
<1>4. DOMAIN free_list' = 1 .. Len(free_list') /\ DOMAIN free_list = 1 .. Len(free_list)
  BY <1>2, <1>3
<1>5. HeapTypeOK'
  BY <1>0, <1>1, <1>3 DEF HeapTypeOK
<1>6. BlockInv'
  BY <1>0, <1>1 DEF BlockInv
<1>7. LendInv'
  <2>1. \A i \in DOMAIN free_list' : i = 1 \/ (i - 1 \in DOMAIN free_list /\ i \in 2 .. Len(free_list'))
    BY <1>2, <1>3, <1>4
  <2>2. \A i \in DOMAIN free_list : free_list[i] # h
    BY <1>0 DEF LendInv
  <2>3. \A i \in DOMAIN free_list' : free_list'[i] \notin DOMAIN lent'
    BY <1>0, <1>1, <1>3, <2>1 DEF LendInv
  <2>4. \A i, j \in DOMAIN free_list' : free_list'[i] = free_list'[j] => i = j
    BY <1>0, <1>2, <1>3, <1>4, <2>1, <2>2 DEF LendInv
  <2> QED
    BY <1>0, <1>1, <2>3, <2>4 DEF LendInv
<1> QED
  BY <1>5, <1>6, <1>7 DEF HeapInv

(* What kheap_alloc lends is mapped and the caller's alone, for every      *)
(* sequence of requests, sizes and alignments, and wherever pmm_alloc_page *)
(* runs out: a block the best-fit search unlinks by mistake is lost, never *)
(* lent twice (kheap_alloc, kheap_free).                                   *)
THEOREM HeapBlocksDisjoint == HeapSpec => []BlocksDisjoint
<1>1. kheap_init => HeapInv
  BY DEF kheap_init, HeapInv, HeapTypeOK, BlockInv, LendInv
<1>2. HeapInv /\ [HeapNext]_heapVars => HeapInv'
  <2> SUFFICES ASSUME HeapInv, [HeapNext]_heapVars PROVE HeapInv'
    OBVIOUS
  <2>1. ASSUME NEW size \in HeapSizes, NEW align \in HeapAligns, kheap_alloc(size, align)
        PROVE  HeapInv'
    <3>1. size \in Nat /\ align \in Nat \ {0}
      BY HeapAssumption
    <3>2. CASE kheap_alloc_fails(size, align)
      BY <3>2 DEF kheap_alloc_fails, heapVars, HeapInv, HeapTypeOK, BlockInv, LendInv
    <3> QED
      BY <2>1, <3>1, <3>2, ReuseStep, BumpStep DEF kheap_alloc
  <2>2. ASSUME NEW h \in DOMAIN lent, kheap_free(h) PROVE HeapInv'
    BY <2>2, FreeStep
  <2>3. CASE UNCHANGED heapVars
    BY <2>3 DEF heapVars, HeapInv, HeapTypeOK, BlockInv, LendInv
  <2> QED
    BY <2>1, <2>2, <2>3 DEF HeapNext
<1>3. HeapInv => BlocksDisjoint
  <2> SUFFICES ASSUME HeapInv PROVE BlocksDisjoint
    OBVIOUS
  <2>0. HeapTypeOK /\ BlockInv /\ LendInv
    BY DEF HeapInv
  <2>1. ASSUME NEW h \in DOMAIN lent
        PROVE  /\ h \in DOMAIN hdr_size /\ h \in Nat /\ lent[h] \in Nat /\ hdr_size[h] \in Nat
               /\ lent[h] <= hdr_size[h]
    BY <2>0 DEF HeapTypeOK, LendInv
  <2>2. ASSUME NEW h \in DOMAIN lent PROVE h + 1 + lent[h] <= mapped_end
    BY <2>0, <2>1 DEF HeapTypeOK, BlockInv
  <2>3. ASSUME NEW h \in DOMAIN lent, NEW g \in DOMAIN lent \ {h}
        PROVE  h + 1 + lent[h] <= g \/ g + 1 + lent[g] <= h
    BY <2>0, <2>1 DEF BlockInv
  <2>4. ASSUME NEW h \in DOMAIN lent, NEW i \in DOMAIN free_list
        PROVE  h + 1 + lent[h] <= free_list[i] \/ free_list[i] + 1 + hdr_size[free_list[i]] <= h
    <3>1. free_list[i] \in DOMAIN hdr_size /\ free_list[i] # h
      BY <2>0 DEF HeapTypeOK, LendInv
    <3>2. free_list[i] \in Nat /\ hdr_size[free_list[i]] \in Nat
      BY <2>0, <3>1 DEF HeapTypeOK
    <3> QED
      BY <2>0, <2>1, <3>1, <3>2 DEF BlockInv
  <2> QED
    BY <2>0, <2>2, <2>3, <2>4 DEF BlocksDisjoint, LendInv
<1> QED
  BY <1>1, <1>2, <1>3, PTL DEF HeapSpec

-----------------------------------------------------------------------------
(* The page allocator.                                                     *)
(* A CPU inside pmm_free_page has a managed page in hand.                  *)
ArgInv == \A c \in CPUs : pc[c] # "idle" => arg[c] \in Managed

Typed == TypeOK /\ ArgInv

(* The CPU is going to set its page's bit: it is past the search of the    *)
(* tracker, or the search will not find the page.                          *)
Coming(c) == pc[c] = "return" \/ (pc[c] = "check" /\ arg[c] \notin tracked)

(* A page on its way back is not free yet, nobody holds it, and only one   *)
(* CPU is returning it, unless it has slipped past the tracker.            *)
ComingInv ==
  \A c \in CPUs : Coming(c) /\ arg[c] \notin slipped =>
    /\ arg[c] \notin bitmap
    /\ \A d \in CPUs : arg[c] \notin held[d]
    /\ \A d \in CPUs \ {c} : Coming(d) => arg[d] # arg[c]

OwnerInv == OneOwner /\ ComingInv

(* The frames numa_init manages are finitely many.                         *)
LEMMA ManagedFinite == IsFiniteSet(Managed)
<1>1. IsFiniteSet(Frames)
  BY FS_Interval, FramesAssumption DEF Frames
<1>2. Managed \subseteq Frames
  BY FramesAssumption DEF Managed
<1> QED
  BY <1>1, <1>2, FS_Subset

(* The scan of numa_alloc_page_on_node finds a page whenever a bit is set: *)
(* some word of a set bit is the first it visits, and has a lowest bit.    *)
LEMMA ScanFinds ==
  ASSUME TypeOK, bitmap # {}
  PROVE  NextFit # {}
<1>1. bitmap \subseteq Nat /\ \A p \in bitmap : p < max_page
  BY FramesAssumption DEF TypeOK, Managed, Frames, max_page
<1>2. max_page \in Nat /\ max_page > 0
  <2>1. PICK p \in bitmap : TRUE
    OBVIOUS
  <2>2. max_page \in Nat
    BY FramesAssumption DEF max_page
  <2> QED
    BY <1>1, <2>1, <2>2
<1>3. used_words \in Nat /\ used_words > 0
  <2> DEFINE a == max_page + WordBits - 1
  <2>1. a \in Nat /\ WordBits \in Nat /\ WordBits > 0 /\ a >= WordBits
    BY <1>2, FramesAssumption
  <2> HIDE DEF a
  <2>2. \A x \in Nat, w \in Nat \ {0} : x >= w => x \div w \in Nat /\ x \div w > 0
    OBVIOUS
  <2> QED
    BY <1>2, <2>1, <2>2, FramesAssumption DEF used_words, a
<1>4. start_word \in Int
  BY <1>3, FramesAssumption DEF start_word, TypeOK
<1>5. \A p \in bitmap : p \div WordBits \in Int
  BY <1>1, FramesAssumption
<1>6. \A p \in bitmap : ScanDistance(p) \in Nat
  BY <1>3, <1>4, <1>5 DEF ScanDistance
<1>7. PICK n \in {ScanDistance(p) : p \in bitmap} :
               \A m \in {ScanDistance(p) : p \in bitmap} : n <= m
  BY <1>6, LeastNat, Zenon
<1>8. PICK r \in bitmap : ScanDistance(r) = n
  BY <1>7
<1>9. PICK p \in {q \in bitmap : q \div WordBits = r \div WordBits} :
               \A q \in {x \in bitmap : x \div WordBits = r \div WordBits} : p <= q
  BY <1>1, LeastNat, Zenon
<1>10. ScanDistance(p) = n
  BY <1>8, <1>9 DEF ScanDistance
<1>11. p \in NextFit
  BY <1>1, <1>7, <1>9, <1>10 DEF NextFit
<1> QED
  BY <1>11

(* What AllocPage takes is a free page.                                    *)
LEMMA AllocTakesFree ==
  ASSUME TypeOK, NEW c \in CPUs, AllocPage(c)
  PROVE  \E p \in bitmap : /\ p \in Managed /\ p \in Nat
                            /\ bitmap' = bitmap \ {p}
                            /\ free_count' = free_count - 1
                            /\ alloc_hint' = p + 1
                            /\ held' = [held EXCEPT ![c] = @ \cup {p}]
<1>1. PICK p \in NextFit : /\ TakePage(p)
                           /\ held' = [held EXCEPT ![c] = @ \cup {p}]
  BY Zenon DEF AllocPage
<1>2. p \in bitmap /\ p \in Managed /\ p \in Nat
  BY FramesAssumption DEF NextFit, Managed, Frames, TypeOK
<1> QED
  BY <1>1, <1>2, Zenon DEF TakePage

(* What FreeCall passes is a managed page the caller holds, one the        *)
(* tracker knows, or one that slips.                                       *)
LEMMA FreePassesManaged ==
  ASSUME TypeOK, NEW c \in CPUs, FreeCall(c)
  PROVE  \E p \in Managed :
           /\ GiveUp(c, p)
           /\ p \in held[c] \/ p \in gave[c]
           /\ slipped' = IF p \in held[c] \cup tracked THEN slipped ELSE slipped \cup {p}
  BY DEF FreeCall, TypeOK

LEMMA TypedInit == Init => Typed
<1> SUFFICES ASSUME Init PROVE Typed
  OBVIOUS
<1>1. free_count \in Int
  BY ManagedFinite, FS_CardinalityType DEF Init
<1> QED
  BY <1>1 DEF Init, Typed, TypeOK, ArgInv, NoPage

LEMMA TypedStep == Typed /\ [Next]_vars => Typed'
<1> SUFFICES ASSUME Typed, [Next]_vars PROVE Typed'
  OBVIOUS
<1>0. TypeOK /\ ArgInv
  BY DEF Typed
<1>1. ASSUME NEW c \in CPUs, AllocPage(c) PROVE Typed'
  <2>1. PICK p \in bitmap : /\ p \in Managed /\ p \in Nat
                            /\ bitmap' = bitmap \ {p}
                            /\ free_count' = free_count - 1
                            /\ alloc_hint' = p + 1
                            /\ held' = [held EXCEPT ![c] = @ \cup {p}]
    BY <1>0, <1>1, AllocTakesFree
  <2>2. oom' \in BOOLEAN /\ UNCHANGED <<tracked, free_lock, pc, arg, gave, slipped>>
    BY <1>1, Zenon DEF AllocPage
  <2> QED
    BY <1>0, <2>1, <2>2 DEF Typed, TypeOK, ArgInv
<1>2. ASSUME NEW c \in CPUs, AllocFails(c) PROVE Typed'
  BY <1>0, <1>2 DEF AllocFails, Typed, TypeOK, ArgInv
<1>4. ASSUME NEW c \in CPUs, FreeCall(c) PROVE Typed'
  <2>1. PICK p \in Managed :
           /\ GiveUp(c, p)
           /\ slipped' = IF p \in held[c] \cup tracked THEN slipped ELSE slipped \cup {p}
    BY <1>0, <1>4, FreePassesManaged, Zenon
  <2>2. /\ pc' = [pc EXCEPT ![c] = "check"]
        /\ UNCHANGED <<bitmap, free_count, alloc_hint, tracked, free_lock, oom>>
    BY <1>4, Zenon DEF FreeCall
  <2>3. TypeOK'
    BY <1>0, <2>1, <2>2 DEF GiveUp, TypeOK
  <2>4. ArgInv'
    BY <1>0, <2>1, <2>2 DEF GiveUp, TypeOK, ArgInv
  <2> QED
    BY <2>3, <2>4 DEF Typed
<1>5. ASSUME NEW c \in CPUs, FreeCheck(c) PROVE Typed'
  BY <1>0, <1>5 DEF FreeCheck, Typed, TypeOK, ArgInv
<1>6. ASSUME NEW c \in CPUs, FreeReturn(c) PROVE Typed'
  <2>1. /\ IF arg[c] < BitmapBits /\ arg[c] \notin bitmap
           THEN bitmap' = bitmap \cup {arg[c]} /\ free_count' = free_count + 1
           ELSE UNCHANGED <<bitmap, free_count>>
        /\ pc[c] = "return" /\ pc' = [pc EXCEPT ![c] = "magic"] /\ oom' \in BOOLEAN
        /\ UNCHANGED <<alloc_hint, tracked, free_lock, arg, held, gave, slipped>>
    BY <1>6, Zenon DEF FreeReturn
  <2> QED
    BY <1>0, <2>1 DEF Typed, TypeOK, ArgInv
<1>7. ASSUME NEW c \in CPUs, FreeMagic(c) PROVE Typed'
  BY <1>0, <1>7 DEF FreeMagic, Typed, TypeOK, ArgInv
<1>8. CASE UNCHANGED vars
  BY <1>0, <1>8 DEF vars, Typed, TypeOK, ArgInv
<1> QED
  BY <1>1, <1>2, <1>4, <1>5, <1>6, <1>7, <1>8 DEF Next

(* The type invariant holds of every behaviour, stale frees included.      *)
THEOREM PageAllocatorTyped == Spec => []TypeOK
<1>1. Typed => TypeOK
  BY DEF Typed
<1> QED
  BY TypedInit, TypedStep, <1>1, PTL DEF Spec

(* A page handed out is free in no bitmap and has one holder, whatever     *)
(* pages the callers free again and whoever holds them by then, unless the *)
(* page slipped past the tracker (numa.c:187-262, pmm.c:88-126).           *)
THEOREM PageHasOneOwner == Spec => []OneOwner
<1> USE DEF OwnerInv, OneOwner, ComingInv, Coming
<1>1. Init => OwnerInv
  BY DEF Init
<1>2. Typed /\ OwnerInv /\ [Next]_vars => OwnerInv'
  <2> SUFFICES ASSUME Typed, OwnerInv, [Next]_vars PROVE OwnerInv'
    BY Zenon
  <2>0. TypeOK /\ ArgInv
    BY Zenon DEF Typed
  <2>1. ASSUME NEW c \in CPUs, AllocPage(c) PROVE OwnerInv'
    <3>1. PICK p \in bitmap : /\ bitmap' = bitmap \ {p}
                              /\ held' = [held EXCEPT ![c] = @ \cup {p}]
      BY <2>0, <2>1, AllocTakesFree, Zenon
    <3>2. UNCHANGED <<pc, arg, tracked, slipped>>
      BY <2>1, Zenon DEF AllocPage
    <3>3. OneOwner'
      BY <2>0, <3>1, <3>2 DEF TypeOK
    <3>4. ComingInv'
      BY <2>0, <3>1, <3>2 DEF TypeOK
    <3> QED
      BY <3>3, <3>4, Zenon
  <2>2. ASSUME NEW c \in CPUs, AllocFails(c) PROVE OwnerInv'
    BY <2>2, Zenon DEF AllocFails
  <2>4. ASSUME NEW c \in CPUs, FreeCall(c) PROVE OwnerInv'
    <3>1. PICK p \in Managed :
            /\ GiveUp(c, p)
            /\ slipped' = IF p \in held[c] \cup tracked THEN slipped ELSE slipped \cup {p}
      BY <2>0, <2>4, FreePassesManaged, Zenon
    <3>2. /\ UNCHANGED <<bitmap, tracked>> /\ pc' = [pc EXCEPT ![c] = "check"]
          /\ pc[c] = "idle"
      BY <2>4, Zenon DEF FreeCall
    <3>3. OneOwner'
      BY <2>0, <3>1, <3>2 DEF GiveUp, TypeOK
    <3>4. ComingInv'
      BY <2>0, <3>1, <3>2 DEF GiveUp, TypeOK
    <3> QED
      BY <3>3, <3>4
  <2>5. ASSUME NEW c \in CPUs, FreeCheck(c) PROVE OwnerInv'
    <3>1. UNCHANGED <<bitmap, held, slipped>> /\ pc[c] = "check"
      BY <2>5, Zenon DEF FreeCheck
    <3>2. CASE arg[c] \in tracked
      BY <2>0, <2>5, <3>1, <3>2 DEF FreeCheck, TypeOK
    <3>3. CASE arg[c] \notin tracked
      <4>1. /\ tracked \subseteq tracked' /\ arg' = arg
            /\ pc' = [pc EXCEPT ![c] = "return"]
        BY <2>5, <3>3, Zenon DEF FreeCheck
      <4> QED
        BY <2>0, <3>1, <3>3, <4>1 DEF TypeOK
    <3> QED
      BY <3>2, <3>3, Zenon
  <2>6. ASSUME NEW c \in CPUs, FreeReturn(c) PROVE OwnerInv'
    <3>1. /\ bitmap' \subseteq bitmap \cup {arg[c]}
          /\ UNCHANGED <<held, arg, tracked, slipped>>
          /\ pc' = [pc EXCEPT ![c] = "magic"] /\ pc[c] = "return"
      BY <2>6, Zenon DEF FreeReturn
    <3> QED
      BY <2>0, <3>1 DEF TypeOK
  <2>7. ASSUME NEW c \in CPUs, FreeMagic(c) PROVE OwnerInv'
    BY <2>0, <2>7 DEF FreeMagic, TypeOK
  <2>8. CASE UNCHANGED vars
    BY <2>8, Zenon DEF vars
  <2> QED
    BY <2>1, <2>2, <2>4, <2>5, <2>6, <2>7, <2>8, Zenon DEF Next
<1>3. OwnerInv => OneOwner
  OBVIOUS
<1> QED
  BY <1>1, <1>2, <1>3, TypedInit, TypedStep, PTL DEF Spec

(* free_count is the number of set bits in every state, whatever the       *)
(* callers free (numa.c:231-232, 257-260).                                 *)
THEOREM FreeCountExact == Spec => []CountIsExact
<1>1. Init => CountIsExact
  BY DEF Init, CountIsExact
<1>2. Typed /\ CountIsExact /\ [Next]_vars => CountIsExact'
  <2> SUFFICES ASSUME Typed, CountIsExact, [Next]_vars PROVE CountIsExact'
    OBVIOUS
  <2>0. TypeOK /\ IsFiniteSet(bitmap)
    BY ManagedFinite, FS_Subset DEF Typed, TypeOK
  <2>1. ASSUME NEW c \in CPUs, AllocPage(c) PROVE CountIsExact'
    <3>1. PICK p \in bitmap : bitmap' = bitmap \ {p} /\ free_count' = free_count - 1
      BY <2>0, <2>1, AllocTakesFree
    <3> QED
      BY <2>0, <3>1, FS_RemoveElement DEF CountIsExact
  <2>2. ASSUME NEW c \in CPUs, FreeReturn(c) PROVE CountIsExact'
    <3>1. CASE arg[c] < BitmapBits /\ arg[c] \notin bitmap
      <4>1. bitmap' = bitmap \cup {arg[c]} /\ free_count' = free_count + 1
        BY <2>2, <3>1 DEF FreeReturn
      <4> QED
        BY <2>0, <3>1, <4>1, FS_AddElement DEF CountIsExact
    <3>2. CASE ~(arg[c] < BitmapBits /\ arg[c] \notin bitmap)
      BY <2>2, <3>2 DEF FreeReturn, CountIsExact
    <3> QED
      BY <3>1, <3>2
  <2>3. CASE UNCHANGED <<bitmap, free_count>>
    BY <2>3 DEF CountIsExact
  <2> QED
    BY <2>1, <2>2, <2>3, Zenon
    DEF Next, vars, AllocFails, FreeCall, FreeCheck, FreeMagic
<1> QED
  BY <1>1, <1>2, TypedInit, TypedStep, PTL DEF Spec

(* pmm_alloc_page returns 0 only when no page is free, whatever the hint,  *)
(* the word size and the holes in the memory map (numa.c:199-241).         *)
THEOREM AllocFindsFreePage == Spec => []AllocFailsOnlyWhenEmpty
<1>1. Init => AllocFailsOnlyWhenEmpty
  BY DEF Init, AllocFailsOnlyWhenEmpty
<1>2. Typed /\ CountIsExact /\ AllocFailsOnlyWhenEmpty /\ [Next]_vars
        => AllocFailsOnlyWhenEmpty'
  <2> SUFFICES ASSUME Typed, CountIsExact, AllocFailsOnlyWhenEmpty, [Next]_vars, oom'
               PROVE  bitmap' = {}
    BY DEF AllocFailsOnlyWhenEmpty
  <2>1. ASSUME NEW c \in CPUs, AllocFails(c) PROVE bitmap' = {}
    <3>1. CASE free_count = 0
      BY <2>1, <3>1, ManagedFinite, FS_Subset, FS_EmptySet, Zenon
      DEF CountIsExact, Typed, TypeOK, AllocFails
    <3>2. CASE NextFit = {}
      BY <2>1, <3>2, ScanFinds DEF Typed, AllocFails
    <3> QED
      BY <2>1, <3>1, <3>2 DEF AllocFails
  <2>2. CASE UNCHANGED <<bitmap, oom>>
    BY <2>2 DEF AllocFailsOnlyWhenEmpty
  <2> QED
    BY <2>1, <2>2, Zenon DEF Next, vars, AllocPage, FreeCall, FreeCheck, FreeReturn, FreeMagic
<1>3. Spec => []CountIsExact
  BY FreeCountExact
<1> QED
  BY <1>1, <1>2, <1>3, TypedInit, TypedStep, PTL DEF Spec

(* While the tracker has room, a page given up once is in it or about to   *)
(* be searched for, and none has slipped.                                  *)
RoomInv ==
  Cardinality(tracked) < MaxTrack =>
    /\ slipped = {}
    /\ \A c \in CPUs : \A p \in gave[c] : p \in tracked \/ (pc[c] = "check" /\ arg[c] = p)

(* The tracker of pmm_free_page does what it is for: a page slips past it  *)
(* only once its entries are used up, and only where a caller frees a page *)
(* it does not hold (pmm.c:96-112).                                        *)
THEOREM SlipsOnlyPastFullTracker ==
  Spec => [](slipped # {} => StaleFrees /\ Cardinality(tracked) >= MaxTrack)
<1> DEFINE J == RoomInv /\ (~StaleFrees => slipped = {})
<1>1. Init => J
  BY DEF Init, RoomInv
<1>2. Typed /\ J /\ Typed' /\ [Next]_vars => J'
  <2> SUFFICES ASSUME Typed, J, Typed', [Next]_vars PROVE J'
    OBVIOUS
  <2>0. TypeOK /\ ArgInv
    BY DEF Typed
  <2>1. tracked \subseteq tracked'
    BY Zenon DEF Next, vars, AllocPage, AllocFails, FreeCall, FreeCheck, FreeReturn, FreeMagic
  <2>2. IsFiniteSet(tracked')
    BY ManagedFinite, FS_Subset DEF Typed, TypeOK
  <2>3. /\ Cardinality(tracked) <= Cardinality(tracked')
        /\ Cardinality(tracked) \in Nat /\ Cardinality(tracked') \in Nat
    BY <2>1, <2>2, FS_Subset, FS_CardinalityType
  <2>4. Cardinality(tracked') < MaxTrack => Cardinality(tracked) < MaxTrack
    BY <2>3, FramesAssumption
  <2>5. ASSUME NEW c \in CPUs, FreeCall(c) PROVE J'
    <3>1. PICK p \in held[c] \cup (IF StaleFrees THEN gave[c] ELSE {}) :
            /\ GiveUp(c, p)
            /\ slipped' = IF p \in held[c] \cup tracked THEN slipped ELSE slipped \cup {p}
      BY <2>5, Zenon DEF FreeCall
    <3>2. pc[c] = "idle" /\ pc' = [pc EXCEPT ![c] = "check"] /\ tracked' = tracked
      BY <2>5, Zenon DEF FreeCall
    <3>3. ~StaleFrees => slipped' = {}
      BY <3>1
    <3>4. RoomInv'
      BY <2>0, <3>1, <3>2 DEF RoomInv, GiveUp, TypeOK
    <3> QED
      BY <3>3, <3>4
  <2>6. ASSUME NEW c \in CPUs, FreeCheck(c) PROVE J'
    <3>1. UNCHANGED <<gave, slipped>> /\ pc[c] = "check"
      BY <2>6, Zenon DEF FreeCheck
    <3>2. CASE arg[c] \in tracked
      BY <2>0, <2>6, <3>1, <3>2 DEF FreeCheck, TypeOK, RoomInv
    <3>3. CASE arg[c] \notin tracked
      <4>1. /\ tracked' = IF Cardinality(tracked) < MaxTrack
                          THEN tracked \cup {arg[c]} ELSE tracked
            /\ arg' = arg /\ pc' = [pc EXCEPT ![c] = "return"]
        BY <2>6, <3>3, Zenon DEF FreeCheck
      <4> QED
        BY <2>0, <2>4, <3>1, <4>1 DEF TypeOK, RoomInv
    <3> QED
      BY <3>2, <3>3, Zenon
  <2>7. CASE UNCHANGED <<tracked, slipped, gave, arg, pc>>
    BY <2>7, Zenon DEF RoomInv
  <2>8. ASSUME NEW c \in CPUs, FreeReturn(c) \/ FreeMagic(c) PROVE J'
    BY <2>0, <2>8 DEF FreeReturn, FreeMagic, RoomInv, TypeOK
  <2> QED
    BY <2>5, <2>6, <2>7, <2>8, Zenon DEF Next, vars, AllocPage, AllocFails
<1>3. Typed /\ J => (slipped # {} => StaleFrees /\ Cardinality(tracked) >= MaxTrack)
  <2>1. Typed => Cardinality(tracked) \in Nat
    BY ManagedFinite, FS_Subset, FS_CardinalityType DEF Typed, TypeOK
  <2> QED
    BY <2>1, FramesAssumption DEF RoomInv
<1> QED
  BY <1>1, <1>2, <1>3, TypedInit, TypedStep, PTL DEF Spec

=============================================================================
