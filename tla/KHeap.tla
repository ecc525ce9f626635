------------------------------- MODULE KHeap -------------------------------
(***************************************************************************)
(* The kernel heap (kheap.c): a bump allocator over pages mapped on        *)
(* demand, with a free list of whole blocks searched best fit.  Addresses  *)
(* and sizes are counted in headers (16 bytes).  Every operation runs      *)
(* under g_kheap_lock, so it is one step; pmm_alloc_page, the allocator of *)
(* PageAllocator, may run out before any page of a request.  Zeroing by    *)
(* kheap_calloc is left out.                                               *)
(***************************************************************************)
EXTENDS Integers, Sequences

CONSTANTS
    HeapLimit,      \* KHEAP_LIMIT, the base being 0
    PageUnits,      \* PAGE_SIZE
    HeapSizes,      \* sizes callers ask for
    HeapAligns      \* alignments callers ask for, powers of two

ASSUME HeapAssumption ==
    /\ HeapLimit \in Nat
    /\ PageUnits \in Nat \ {0}
    /\ HeapSizes \subseteq Nat
    /\ HeapAligns \subseteq Nat \ {0}

VARIABLES
    heap_next,      \* g_heap_next
    mapped_end,     \* g_heap_mapped_end
    free_list,      \* g_free_list: header addresses
    hdr_size,       \* header address -> the size written in the header
    lent            \* header address -> what its caller asked for

heapVars == <<heap_next, mapped_end, free_list, hdr_size, lent>>

kheap_init ==
    /\ heap_next = 0
    /\ mapped_end = 0
    /\ free_list = <<>>
    /\ hdr_size = <<>>
    /\ lent = <<>>

align_up(value, align) == ((value + align - 1) \div align) * align

\* Mutant: the header is counted as part of the room of a free block.
Fits_Header(h, size) == hdr_size[h] + 1 >= size

Fits(h, size) == hdr_size[h] >= size

\* The positions of the free list the search considers, and the best of them:
\* the first of the smallest.
Candidates(size, align) ==
    {i \in DOMAIN free_list : Fits(free_list[i], size) /\ (free_list[i] + 1) % align = 0}

BestFit(size, align) ==
    LET sizeAt(i) == hdr_size[free_list[i]]
    IN  CHOOSE i \in Candidates(size, align) : \A j \in Candidates(size, align) :
            sizeAt(i) < sizeAt(j) \/ (sizeAt(i) = sizeAt(j) /\ i <= j)

\* The link the search remembers is that of the last block it did not skip: a
\* block that is large enough but not aligned is skipped, and unlinking the best
\* one unlinks the skipped ones just before it too.
Unlinked(i, size, align) ==
    LET skipped(j) == Fits(free_list[j], size) /\ (free_list[j] + 1) % align # 0
        from == {j \in 1..i : \A k \in j..(i - 1) : skipped(k)}
        first == CHOOSE j \in from : \A k \in from : j <= k
    IN  SubSeq(free_list, 1, first - 1) \o SubSeq(free_list, i + 1, Len(free_list))

Lend(h, size) == lent' = [x \in DOMAIN lent \cup {h} |-> IF x = h THEN size ELSE lent[x]]

ReuseBlock(size, align) ==
    /\ Candidates(size, align) # {}
    /\ LET i == BestFit(size, align)
       IN  /\ free_list' = Unlinked(i, size, align)
           /\ Lend(free_list[i], size)
    /\ UNCHANGED <<heap_next, mapped_end, hdr_size>>

\* Mapping up to end, every page of which the page allocator granted.
ensure_mapped(end) == mapped_end' = IF mapped_end < end THEN end ELSE mapped_end

BumpBlock(size, align) ==
    LET data == align_up(heap_next + 1, align)
        h == data - 1
        end == data + size
    IN  /\ Candidates(size, align) = {}
        /\ end <= HeapLimit
        /\ ensure_mapped(align_up(end, PageUnits))
        /\ hdr_size' = [x \in DOMAIN hdr_size \cup {h} |-> IF x = h THEN size ELSE hdr_size[x]]
        /\ heap_next' = end
        /\ Lend(h, size)
        /\ UNCHANGED free_list

\* Out of range or out of pages: nothing is lent.  The pages mapped before the
\* failing one stay mapped and are mapped over by the next call.
kheap_alloc_fails(size, align) ==
    /\ Candidates(size, align) = {}
    /\ UNCHANGED heapVars

kheap_alloc(size, align) ==
    ReuseBlock(size, align) \/ BumpBlock(size, align) \/ kheap_alloc_fails(size, align)

kheap_free(h) ==
    /\ h \in DOMAIN lent
    /\ free_list' = <<h>> \o free_list
    /\ lent' = [x \in DOMAIN lent \ {h} |-> lent[x]]
    /\ UNCHANGED <<heap_next, mapped_end, hdr_size>>

HeapNext ==
    \/ \E size \in HeapSizes, align \in HeapAligns : kheap_alloc(size, align)
    \/ \E h \in DOMAIN lent : kheap_free(h)

HeapSpec == kheap_init /\ [][HeapNext]_heapVars

(***************************************************************************)
(* What the heap lends is the caller's alone and mapped: the room asked    *)
(* for, header included, lies below the mapped end and meets neither the   *)
(* room of another caller nor a block of the free list, and the free list  *)
(* holds no block twice (kheap_alloc, kheap_free, whatever blocks the      *)
(* best-fit search skipped before).                                        *)
(***************************************************************************)
BlocksDisjoint ==
    /\ \A h \in DOMAIN lent :
          /\ h + 1 + lent[h] <= mapped_end
          /\ \A g \in DOMAIN lent \ {h} : h + 1 + lent[h] <= g \/ g + 1 + lent[g] <= h
          /\ \A i \in DOMAIN free_list :
                LET g == free_list[i]
                IN  h + 1 + lent[h] <= g \/ g + 1 + hdr_size[g] <= h
    /\ \A i, j \in DOMAIN free_list : free_list[i] = free_list[j] => i = j
=============================================================================
