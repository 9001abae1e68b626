-------------------------------- MODULE Pmm --------------------------------
(***************************************************************************)
(* The physical memory manager of SukiOS, kernel/EarlyKernel/pmm.c: one    *)
(* bit per physical page frame, initialised from the Multiboot2 memory map *)
(* and then searched first-fit.                                            *)
(*                                                                         *)
(* The callers are modelled by the set `owned` of frames they hold.  They  *)
(* take a return value of 0 as "no frame" (vmm.c:45, 70, 95, 125, 207), so *)
(* a frame whose address is 0 would be marked used and reach nobody.       *)
(***************************************************************************)
EXTENDS Integers, FiniteSets, Sequences

CONSTANTS
  PMM_MAX_PAGES,    \* number of bits in pmm_bitmap
  PAGE_SIZE,        \* bytes in a page
  kernel_end_page,  \* __kernel_phys_end rounded up to a page number
  MemoryMaps        \* the memory maps the boot loader may hand over

ASSUME PagesAssumption  == PMM_MAX_PAGES \in Nat
ASSUME SizeAssumption   == PAGE_SIZE \in Nat \ {0}
\* The kernel image ends above physical address 0, so page 0 is reserved.
ASSUME KernelAssumption == kernel_end_page \in Nat \ {0}
\* A memory map is an array of entries; only the test for
\* MULTIBOOT_MEMORY_AVAILABLE is made on their types.
ASSUME MapsAssumption ==
  \A m \in MemoryMaps : 
    /\ Len(m) \in Nat
    /\ \A i \in 1 .. Len(m) :
         /\ m[i].available \in BOOLEAN
         /\ m[i].addr \in Nat
         /\ m[i].len \in Nat

VARIABLES
  mmap,         \* the memory map of this boot
  entry,        \* the entry pmm_init looks at next
  phase,        \* "map" and "reserve": inside pmm_init; "up": after it
  pmm_bitmap,   \* the pages whose bit is 1 (used)
  total_pages,
  used_pages,
  owned         \* the pages handed out and not yet given back

vars == <<mmap, entry, phase, pmm_bitmap, total_pages, used_pages, owned>>

Pages == 0 .. PMM_MAX_PAGES - 1

bitmap_test(page) == page \notin Pages \/ page \in pmm_bitmap

\* The whole pages of an entry: its base rounded up, its end rounded down,
\* and nothing above the bitmap.
EntryPages(e) ==
  { p \in Pages :
      /\ e.available
      /\ (e.addr + PAGE_SIZE - 1) \div PAGE_SIZE <= p
      /\ p < (e.addr + e.len) \div PAGE_SIZE }

Init ==
  /\ mmap \in MemoryMaps
  /\ entry = 1
  /\ phase = "map"
  /\ pmm_bitmap = Pages
  /\ total_pages = 0
  /\ used_pages = 0
  /\ owned = {}

-----------------------------------------------------------------------------
(* pmm_init runs with interrupts off and nothing else running; its two     *)
(* loops are taken one memory-map entry at a time and then the kernel's    *)
(* pages at once.                                                          *)

\* One round of the loop over the entries.  total_pages grows by one for
\* every page of the entry, whether or not its bit was still set.
pmm_init_entry ==
  /\ phase = "map"
  /\ entry <= Len(mmap)
  /\ pmm_bitmap' = pmm_bitmap \ EntryPages(mmap[entry])
  /\ total_pages' = total_pages + Cardinality(EntryPages(mmap[entry]))
  /\ entry' = entry + 1
  /\ UNCHANGED <<mmap, phase, used_pages, owned>>

\* The loop over the entries ends.
pmm_init_mapped ==
  /\ phase = "map"
  /\ entry > Len(mmap)
  /\ phase' = "reserve"
  /\ UNCHANGED <<mmap, entry, pmm_bitmap, total_pages, used_pages, owned>>

\* Mutation: the reservation loop starts at page 1.
KernelPages_FromOne == { p \in Pages : 0 < p /\ p < kernel_end_page }

KernelPages == { p \in Pages : p < kernel_end_page }

\* Mutation: every kernel page is counted, in use already or not.
pmm_init_reserve_NoTest ==
  /\ phase = "reserve"
  /\ pmm_bitmap' = pmm_bitmap \cup KernelPages
  /\ used_pages' = used_pages + Cardinality(KernelPages)
  /\ total_pages' = total_pages - Cardinality(KernelPages)
  /\ phase' = "up"
  /\ UNCHANGED <<mmap, entry, owned>>

\* The loop over the pages below kernel_end_page.
pmm_init_reserve ==
  LET taken == KernelPages \ pmm_bitmap
  IN  /\ phase = "reserve"
      /\ pmm_bitmap' = pmm_bitmap \cup taken
      /\ used_pages' = used_pages + Cardinality(taken)
      /\ total_pages' = total_pages - Cardinality(taken)
      /\ phase' = "up"
      /\ UNCHANGED <<mmap, entry, owned>>

-----------------------------------------------------------------------------
\* pmm_alloc_page takes the first page whose bit is clear and returns its
\* address; the caller owns that page unless the address reads as 0.
AllocFound ==
  /\ phase = "up"
  /\ \E i \in Pages :
       /\ ~bitmap_test(i)
       /\ \A j \in Pages : j < i => bitmap_test(j)
       /\ pmm_bitmap' = pmm_bitmap \cup {i}
       /\ owned' = IF i * PAGE_SIZE = 0 THEN owned ELSE owned \cup {i}
  /\ used_pages' = used_pages + 1
  /\ total_pages' = total_pages - 1
  /\ UNCHANGED <<mmap, entry, phase>>

\* pmm_alloc_page scans the whole bitmap and returns 0.
AllocNone ==
  /\ phase = "up"
  /\ \A i \in Pages : bitmap_test(i)
  /\ UNCHANGED vars

pmm_alloc_page == AllocFound \/ AllocNone

\* A caller may give back a frame it owns (any address inside it), give it
\* back a second time while it is still free, or name an address above the
\* bitmap.  Freeing a reserved frame is outside the contract.
FreeArgument(page) ==
  page \in owned \/ page \notin Pages \/ ~bitmap_test(page)

\* Mutation: the bit is not tested before it is cleared.
pmm_free_page_NoTest(phys_addr) ==
  LET page == phys_addr \div PAGE_SIZE
  IN  /\ phase = "up"
      /\ page \in Pages
      /\ FreeArgument(page)
      /\ pmm_bitmap' = pmm_bitmap \ {page}
      /\ used_pages' = used_pages - 1
      /\ total_pages' = total_pages + 1
      /\ owned' = owned \ {page}
      /\ UNCHANGED <<mmap, entry, phase>>

pmm_free_page(phys_addr) ==
  LET page == phys_addr \div PAGE_SIZE
  IN  /\ phase = "up"
      /\ FreeArgument(page)
      /\ IF page \in Pages /\ bitmap_test(page)
           THEN /\ pmm_bitmap' = pmm_bitmap \ {page}
                /\ used_pages' = used_pages - 1
                /\ total_pages' = total_pages + 1
                /\ owned' = owned \ {page}
           ELSE UNCHANGED <<pmm_bitmap, used_pages, total_pages, owned>>
      /\ UNCHANGED <<mmap, entry, phase>>

\* Addresses of every page of the bitmap and of the page after it.
Addresses == 0 .. (PMM_MAX_PAGES + 1) * PAGE_SIZE - 1

Next ==
  \/ pmm_init_entry
  \/ pmm_init_mapped
  \/ pmm_init_reserve
  \/ pmm_alloc_page
  \/ \E a \in Addresses : pmm_free_page(a)

Spec == Init /\ [][Next]_vars

-----------------------------------------------------------------------------
Free == Pages \ pmm_bitmap

\* The pages some available entry covers.
Available(m) == UNION { EntryPages(m[i]) : i \in 1 .. Len(m) }

\* The pages of distinct available entries do not overlap.
Disjoint(m) ==
  \A i, j \in 1 .. Len(m) :
    i # j => EntryPages(m[i]) \cap EntryPages(m[j]) = {}

\* The available pages that pmm_init sets aside for the kernel image.
Reserved == Available(mmap) \cap KernelPages

\* The state has its types; the unsigned counters of pmm.c never wrap below
\* zero, however often a frame is freed again.
TypeOK ==
  /\ mmap \in MemoryMaps
  /\ entry \in 1 .. Len(mmap) + 1
  /\ phase \in {"map", "reserve", "up"}
  /\ pmm_bitmap \subseteq Pages
  /\ total_pages \in Nat
  /\ used_pages \in Nat
  /\ owned \subseteq Pages

\* Once pmm_init is done every available page is in exactly one of three
\* hands: the kernel's reservation, a caller, or the bitmap as free.  So no
\* frame is handed out twice, no frame outside the memory map is handed out,
\* and none is lost by being marked used while its address reads as "no
\* frame" (the 0 of pmm_alloc_page).
Partition ==
  phase = "up" =>
    /\ Free \subseteq Available(mmap) \ Reserved
    /\ owned = Available(mmap) \ (Reserved \cup Free)

\* The two counters that pmm_init, pmm_alloc_page and pmm_free_page keep by
\* hand agree with the bitmap: pmm_get_used_pages with the frames reserved
\* and handed out, pmm_get_free_pages with the free ones, the latter for
\* every memory map whose available entries do not overlap.
Accounting ==
  phase = "up" =>
    /\ used_pages = Cardinality(Reserved \cup owned)
    /\ Disjoint(mmap) => total_pages = Cardinality(Free)

\* An overlapping memory map makes pmm_init count a page twice; the excess
\* of total_pages over the free pages never changes afterwards, whatever is
\* allocated and freed (double frees included).
ExcessConstant ==
  [][phase = "up" =>
       total_pages' - Cardinality(Free') = total_pages - Cardinality(Free)]_vars

=============================================================================
