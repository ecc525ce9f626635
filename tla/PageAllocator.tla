--------------------------- MODULE PageAllocator ---------------------------
(***************************************************************************)
(* The physical page allocator: src/kernel/mm/numa.c (the bitmap of the    *)
(* single memory node numa_init brings up) under src/kernel/mm/pmm.c (the  *)
(* double-free tracker and the magic words written into a freed page).     *)
(*                                                                         *)
(* A page is its frame index, counted from the node's phys_start.  CPUs    *)
(* call the allocator concurrently.  The body of numa_alloc_page_on_node   *)
(* and of numa_free_page runs under node->lock and is one step each;       *)
(* pmm_free_page holds g_pmm_free_lock over three steps, and allocation    *)
(* does not take that lock.                                                *)
(***************************************************************************)
EXTENDS Integers, FiniteSets

CONSTANTS CPUs,         \* the processors that call the allocator
          NFrames,      \* frames between phys_start and phys_end
          Conventional, \* frames of conventional memory in the UEFI map
          Reserved,     \* frames the kernel image or the memory map occupy
          BitmapBits,   \* XAIOS_NUMA_BITMAP_BITS
          WordBits,     \* bits in a bitmap word (64)
          MaxTrack,     \* PMM_MAX_FREED_TRACK
          StaleFrees    \* may a caller free a page it has freed before?

Frames == 0 .. NFrames - 1

ASSUME FramesAssumption ==
  /\ NFrames \in Nat /\ BitmapBits \in Nat /\ MaxTrack \in Nat
  /\ WordBits \in Nat \ {0}
  /\ Conventional \subseteq Frames /\ Reserved \subseteq Frames
  /\ StaleFrees \in BOOLEAN

NoPage == -1

VARIABLES bitmap,      \* node->bitmap: the frames whose bit is set (free)
          free_count,  \* node->free_count
          alloc_hint,  \* node->alloc_hint
          tracked,     \* the page_addr entries of g_freed_pages
          free_lock,   \* the CPU inside g_pmm_free_lock, if any
          pc,          \* what each CPU is doing
          arg,         \* the page it passed to pmm_free_page
          held,        \* the pages each CPU has been given and not freed
          gave,        \* the pages each CPU has freed at least once
          oom,         \* an allocation returned 0, and no page moved since
          slipped      \* history: pages freed by a CPU that did not hold them
                       \* and that the tracker did not know

vars == <<bitmap, free_count, alloc_hint, tracked, free_lock, pc, arg, held,
          gave, oom, slipped>>

-----------------------------------------------------------------------------
(* numa_init: the frames it puts into the bitmap.  A frame beyond the      *)
(* bitmap is skipped (skipped_overflow), a reserved one is left out.       *)
Managed == {p \in Conventional \ Reserved : p < BitmapBits}

Init ==
  /\ bitmap = Managed
  /\ free_count = Cardinality(Managed)
  /\ alloc_hint = 0
  /\ tracked = {}
  /\ free_lock = {}
  /\ pc = [c \in CPUs |-> "idle"]
  /\ arg = [c \in CPUs |-> NoPage]
  /\ held = [c \in CPUs |-> {}]
  /\ gave = [c \in CPUs |-> {}]
  /\ oom = FALSE
  /\ slipped = {}

-----------------------------------------------------------------------------
max_page == IF NFrames > BitmapBits THEN BitmapBits ELSE NFrames

used_words == IF max_page = 0 THEN 1 ELSE (max_page + WordBits - 1) \div WordBits

start_word == LET w == alloc_hint \div WordBits
              IN  IF w >= used_words THEN 0 ELSE w

(* How many words the scan of numa_alloc_page_on_node visits before the    *)
(* word of frame p: it starts at the hint's word and wraps around.         *)
ScanDistance(p) == (p \div WordBits - start_word + used_words) % used_words

(* A scan that stops at the last word instead of wrapping around.          *)
NextFitNoWrap ==
  {p \in bitmap : /\ p < max_page
                  /\ p \div WordBits >= start_word
                  /\ \A q \in bitmap : ScanDistance(p) <= ScanDistance(q)
                  /\ \A q \in bitmap : q \div WordBits = p \div WordBits => p <= q}

(* The page the scan finds: the lowest free bit of the first word that has *)
(* one.                                                                    *)
NextFit ==
  {p \in bitmap : /\ p < max_page
                  /\ \A q \in bitmap : ScanDistance(p) <= ScanDistance(q)
                  /\ \A q \in bitmap : q \div WordBits = p \div WordBits => p <= q}

(* The count is not kept up with the bitmap.                               *)
TakePageKeepsCount(p) ==
  /\ bitmap' = bitmap \ {p}
  /\ free_count' = free_count
  /\ alloc_hint' = p + 1

TakePage(p) ==
  /\ bitmap' = bitmap \ {p}
  /\ free_count' = free_count - 1
  /\ alloc_hint' = p + 1

(* pmm_alloc_page and pmm_alloc_page_near end at the only node, whichever  *)
(* node they prefer.                                                       *)
AllocPage(c) ==
  /\ pc[c] = "idle"
  /\ free_count # 0
  /\ \E p \in NextFit :
       /\ TakePage(p)
       /\ held' = [held EXCEPT ![c] = @ \cup {p}]
  /\ oom' = FALSE
  /\ UNCHANGED <<tracked, free_lock, pc, arg, gave, slipped>>

AllocFails(c) ==
  /\ pc[c] = "idle"
  /\ free_count = 0 \/ NextFit = {}
  /\ oom' = TRUE
  /\ UNCHANGED <<bitmap, free_count, alloc_hint, tracked, free_lock, pc, arg,
                 held, gave, slipped>>

-----------------------------------------------------------------------------
GiveUp(c, p) ==
  /\ arg' = [arg EXCEPT ![c] = p]
  /\ held' = [held EXCEPT ![c] = @ \ {p}]
  /\ gave' = [gave EXCEPT ![c] = @ \cup {p}]

(* pmm_free_page is called: with a page the caller holds, or, when         *)
(* StaleFrees, with one it has freed before and does not hold.             *)
FreeCall(c) ==
  /\ pc[c] = "idle"
  /\ \E p \in held[c] \cup (IF StaleFrees THEN gave[c] ELSE {}) :
       /\ GiveUp(c, p)
       /\ slipped' = IF p \in held[c] \cup tracked THEN slipped ELSE slipped \cup {p}
  /\ pc' = [pc EXCEPT ![c] = "check"]
  /\ UNCHANGED <<bitmap, free_count, alloc_hint, tracked, free_lock, oom>>

(* A page found in the tracker is counted there and freed all the same.    *)
FreeCheckCountsOnly(c) ==
  /\ pc[c] = "check" /\ free_lock = {}
  /\ tracked' = IF Cardinality(tracked) < MaxTrack
                THEN tracked \cup {arg[c]} ELSE tracked
  /\ free_lock' = {c}
  /\ pc' = [pc EXCEPT ![c] = "return"]
  /\ UNCHANGED <<arg, bitmap, free_count, alloc_hint, held, gave, oom, slipped>>

(* The tracker is searched under g_pmm_free_lock: a page found there is    *)
(* rejected, any other is entered while there is room.                     *)
FreeCheck(c) ==
  /\ pc[c] = "check" /\ free_lock = {}
  /\ IF arg[c] \in tracked
     THEN /\ pc' = [pc EXCEPT ![c] = "idle"]
          /\ arg' = [arg EXCEPT ![c] = NoPage]
          /\ UNCHANGED <<tracked, free_lock>>
     ELSE /\ tracked' = IF Cardinality(tracked) < MaxTrack
                        THEN tracked \cup {arg[c]} ELSE tracked
          /\ free_lock' = {c}
          /\ pc' = [pc EXCEPT ![c] = "return"]
          /\ UNCHANGED arg
  /\ UNCHANGED <<bitmap, free_count, alloc_hint, held, gave, oom, slipped>>

(* numa_free_page under node->lock; a page whose bit is set stays as it is.*)
FreeReturn(c) ==
  /\ pc[c] = "return"
  /\ IF arg[c] < BitmapBits /\ arg[c] \notin bitmap
     THEN bitmap' = bitmap \cup {arg[c]} /\ free_count' = free_count + 1
     ELSE UNCHANGED <<bitmap, free_count>>
  /\ pc' = [pc EXCEPT ![c] = "magic"]
  /\ oom' = FALSE
  /\ UNCHANGED <<alloc_hint, tracked, free_lock, arg, held, gave, slipped>>

(* The magic words are written into the page, whoever holds it by now,     *)
(* then the lock is released.  What a page contains is not modelled.       *)
FreeMagic(c) ==
  /\ pc[c] = "magic"
  /\ free_lock' = {}
  /\ pc' = [pc EXCEPT ![c] = "idle"]
  /\ arg' = [arg EXCEPT ![c] = NoPage]
  /\ UNCHANGED <<bitmap, free_count, alloc_hint, tracked, held, gave, oom, slipped>>

Next ==
  \E c \in CPUs : \/ AllocPage(c) \/ AllocFails(c) \/ FreeCall(c) \/ FreeCheck(c)
                  \/ FreeReturn(c) \/ FreeMagic(c)

Spec == Init /\ [][Next]_vars

-----------------------------------------------------------------------------
(* The variables of pmm.c and numa.c keep their types; what is tracked,    *)
(* free or held are frames numa_init put into the bitmap.                  *)
TypeOK ==
  /\ bitmap \subseteq Managed
  /\ free_count \in Int
  /\ alloc_hint \in Nat
  /\ tracked \subseteq Managed
  /\ free_lock \subseteq CPUs
  /\ pc \in [CPUs -> {"idle", "check", "return", "magic"}]
  /\ arg \in [CPUs -> Managed \cup {NoPage}]
  /\ held \in [CPUs -> SUBSET Managed]
  /\ gave \in [CPUs -> SUBSET Managed]
  /\ oom \in BOOLEAN
  /\ slipped \subseteq Managed

(* A page the allocator handed out and has not been given back is free in  *)
(* no bitmap and is held by one caller only (numa.c:226-237, 254-260),     *)
(* whatever the callers free a second time, as long as the tracker knows   *)
(* the page ("Reject double-free", pmm.c:96-106).  A page first freed with *)
(* the PMM_MAX_FREED_TRACK entries used up is not known to it (pmm.c:109); *)
(* a second free of such a page, a slipped one, gives it a second owner.   *)
OneOwner ==
  \A c \in CPUs : LET mine == held[c] \ slipped
                 IN  /\ mine \cap bitmap = {}
                     /\ \A d \in CPUs \ {c} : mine \cap held[d] = {}

(* free_count is the number of set bits whenever node->lock is free        *)
(* (numa.c:136, 231-232, 257-260): pmm_free_pages reports it.              *)
CountIsExact == free_count = Cardinality(bitmap)

(* An allocation returns 0 only when no page is free: the next-fit scan    *)
(* visits every word whatever the hint (numa.c:199-241).                   *)
AllocFailsOnlyWhenEmpty == oom => bitmap = {}

=============================================================================
