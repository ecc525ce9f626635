----------------------------- MODULE Persistence ----------------------------
(***************************************************************************)
(* src/kernel/runtime/persistence.c: the registry of snapshots and the one *)
(* disk sector that persistence_self_test writes and reads back on every   *)
(* boot.  Only that test touches the sector, so a boot is the test, one    *)
(* action per call, with the power going at any point in between and the   *)
(* write of the sector failing or stopping half way.                       *)
(*                                                                         *)
(* The checksum of a sector is what it is computed over (FNV-1a without    *)
(* its collisions); sectors are otherwise records of the fields the code   *)
(* looks at.                                                               *)
(***************************************************************************)
EXTENDS Integers, Sequences, SequencesExt, FiniteSets

CONSTANTS TestSnapshots,   \* the five <<kind, owner>> of the self test
          SnapshotKinds,           \* the kinds kind_valid accepts
          SectorSlots,     \* MAX_SNAPSHOTS
          FoundSectors     \* the sectors the first boot may find

VARIABLES sector,      \* PERSISTENCE_SECTOR on the disk
          registry,    \* g_snapshots, g_next_generation
          step,        \* how far the self test is, "panic" after a kassert
          errors,      \* g_checksum_error_count
          found,       \* the sector this boot found
          disturbed    \* this boot met an I/O error

persistVars == <<sector, registry, step, errors, found, disturbed>>

Body(s) == <<s.count, s.next, s.records>>

(* The checksum field itself counts as zero.                               *)
persistence_sector_checksum(s) == Body(s)

kind_valid(k) == k \in SnapshotKinds

SectorRecord(k, owner, g) == [kind |-> k, owner |-> owner, generation |-> g]

clear_snapshot_table == [records |-> <<>>, next |-> 1]

Created(r, k, owner) ==
  IF ~kind_valid(k) \/ Len(r.records) = SectorSlots THEN r
  ELSE [records |-> Append(r.records, SectorRecord(k, owner, r.next)), next |-> r.next + 1]

HeaderFits(s) == s.header /\ s.count <= SectorSlots

RecordsValid(s) == \A i \in 1..s.count : i <= Len(s.records) /\ kind_valid(s.records[i].kind)

Sound(s) == HeaderFits(s) /\ s.sum = persistence_sector_checksum(s) /\ RecordsValid(s)

(* The newest snapshot of a kind and owner is found whatever the reload    *)
(* did to the order of the slots.                                          *)
Newest(r, k, owner) ==
  LET same == {s \in Range(r.records) : s.kind = k /\ s.owner = owner} IN
  {s \in same : \A t \in same : t.generation <= s.generation}

persistence_rollback(r, k, owner) == kind_valid(k) /\ Newest(r, k, owner) # {}
-----------------------------------------------------------------------------
Panics == step' = "panic"

(* A mismatch found here is counted, and the count is asserted to be zero  *)
(* at the end of the test.  A sector that cannot be read is passed over.   *)
persistence_probe_existing_disk_state ==
  /\ step = "probe" /\ step' = "create"
  /\ \/ errors' = IF HeaderFits(sector) /\ sector.sum # persistence_sector_checksum(sector)
                  THEN 1 ELSE 0
     \/ errors' = 0
  /\ UNCHANGED <<sector, registry, found, disturbed>>

CreateTestSnapshots ==
  /\ step = "create" /\ step' = "flush"
  /\ registry' = FoldLeft(LAMBDA r, x : Created(r, x[1], x[2]), registry, TestSnapshots)
  /\ UNCHANGED <<sector, errors, found, disturbed>>

(* Mutant: the checksum is taken before the records are filled in.         *)
SectorImage_EarlySum(r) ==
  [header |-> TRUE, count |-> Len(r.records), next |-> r.next, records |-> r.records,
   sum |-> <<Len(r.records), r.next, <<>> >>]

(* The sector a flush sends to the disk.                                   *)
SectorImage(r) ==
  LET s == [header |-> TRUE, count |-> Len(r.records), next |-> r.next,
            records |-> r.records, sum |-> <<>>]
  IN  [s EXCEPT !.sum = persistence_sector_checksum(s)]

(* What a write that does not finish leaves: any part old, any part new.   *)
Torn(old, new) ==
  {[header |-> h.header, count |-> n.count, next |-> n.next, records |-> b.records,
    sum |-> c.sum] : h \in {old, new}, n \in {old, new}, b \in {old, new}, c \in {old, new}}

persistence_flush_to_disk ==
  /\ step = "flush"
  /\ \/ sector' = SectorImage(registry) /\ step' = "load" /\ UNCHANGED disturbed
     \/ /\ sector' \in {sector, SectorImage(registry)} \cup Torn(sector, SectorImage(registry))
        /\ Panics /\ disturbed' = TRUE
  /\ UNCHANGED <<registry, errors, found>>

persistence_load_from_disk ==
  /\ step = "load"
  /\ \/ /\ Sound(sector)
        /\ registry' = [records |-> SubSeq(sector.records, 1, sector.count),
                        next |-> sector.next]
        /\ step' = "check" /\ UNCHANGED disturbed
     \/ ~Sound(sector) /\ Panics /\ UNCHANGED <<registry, disturbed>>
     \/ Panics /\ disturbed' = TRUE /\ UNCHANGED registry
  /\ UNCHANGED <<sector, errors, found>>

(* The rollbacks and the counts at the end of the test.                    *)
CheckRegistry ==
  /\ step = "check"
  /\ step' = IF /\ Len(registry.records) = Len(TestSnapshots)
                /\ \A i \in DOMAIN TestSnapshots :
                     persistence_rollback(registry, TestSnapshots[i][1], TestSnapshots[i][2])
                /\ errors = 0
             THEN "up" ELSE "panic"
  /\ UNCHANGED <<sector, registry, errors, found, disturbed>>

(* Power lost, or reset after a panic; in the middle of the flush the      *)
(* write may be cut.                                                       *)
persistence_runtime_init(left) ==
  /\ sector' = left /\ found' = left
  /\ registry' = clear_snapshot_table /\ errors' = 0
  /\ step' = "probe" /\ disturbed' = FALSE

PowerCycle ==
  \/ persistence_runtime_init(sector)
  \/ step = "flush" /\ \E left \in Torn(sector, SectorImage(registry)) :
                         persistence_runtime_init(left)

PersistInit ==
  /\ sector \in FoundSectors /\ found = sector
  /\ registry = clear_snapshot_table /\ step = "probe" /\ errors = 0 /\ disturbed = FALSE

PersistNext ==
  \/ persistence_probe_existing_disk_state \/ CreateTestSnapshots
  \/ persistence_flush_to_disk \/ persistence_load_from_disk
  \/ CheckRegistry \/ PowerCycle
-----------------------------------------------------------------------------
(* A boot whose disk works panics in the self test only if the sector it   *)
(* found was half written, and then it has already replaced that sector by *)
(* a sound one: a power loss costs at most one more boot                   *)
(* (persistence.c:271-276 counts what :408 asserts to be zero).          *)
OneBootPerTear ==
  (step = "panic" /\ ~disturbed) =>
     /\ HeaderFits(found) /\ found.sum # persistence_sector_checksum(found)
     /\ Sound(sector)
=============================================================================
