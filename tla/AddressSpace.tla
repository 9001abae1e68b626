---------------------------- MODULE AddressSpace ----------------------------
(***************************************************************************)
(* The one address space of SukiOS and those who map pages in it: vmm_init *)
(* at boot, the heap as it grows (heap.c, expand_to), the APIC drivers     *)
(* (vmm_map_mmio), and the loading of programs (elf64_load and             *)
(* proc_create_from_elf).  Physical memory may run out at every            *)
(* allocation.  Page tables are changed with the functions of module Vmm.  *)
(***************************************************************************)
EXTENDS Vmm

CONSTANTS
  Segments,    \* programs: the pages of their segment
  Stack,       \* the pages below USER_STACK_TOP
  HeapLimit,   \* bound: pages the heap may grow to
  MmioPages    \* sizes of the device windows, in pages

VARIABLES
  m,           \* the machine (module Vmm)
  up,          \* vmm_init has run
  heap_end,    \* the next page of the heap to map
  mmio_next,   \* s_mmio_next
  loaded,      \* the programs that were loaded, as their pages
  zeroed       \* history: the frame Stray held zeros when the machine started

vars == <<m, up, heap_end, mmio_next, loaded, zeroed>>

HeapBase == IdentityPages + W            \* PML4[511], PDPTE[510], PD[256]
MmioBase == IdentityPages + 2 * W        \* PML4[511], PDPTE[511]
MmioFrame == IdentityPages - 2           \* 0xFEC00000, above all RAM

UserPages == Stack \cup UNION Segments

ASSUME AddressSpaceAssumption ==
  /\ UserPages \subseteq 0..IdentityPages-1
  /\ HeapLimit \in 0..W /\ MmioPages \subseteq 1..2

-----------------------------------------------------------------------------
\* The loop that fills PT_A counts to 1024 where a table has 512 entries, and
\* runs on over PDPTE_B, the next table.  Only the kernel's entry is stored
\* again; the one for MMIO stays present and leads to the frame of the last
\* page counted, which nobody has taken and nobody clears.
Stray == 2 * W - 1

\* What boot.asm leaves: the identity map of the first large page by small
\* ones, the kernel's window, here one large page, and the stray entry.  left
\* is what the stray frame happens to hold.
BootTable(entries) ==
  [i \in 0..W-1 |-> IF i \in DOMAIN entries THEN entries[i] ELSE Empty]

BootMem(left) ==
  [f \in RAM |->
     CASE f = PML4 -> BootTable([i \in 0..1 |-> IF i = 0 THEN Table(PDPTE_A, FALSE)
                                                ELSE Table(PDPTE_B, FALSE)])
       [] f = PDPTE_A -> BootTable([i \in {0} |-> Table(2, FALSE)])
       [] f = 2 -> BootTable([i \in {0} |-> Table(3, FALSE)])
       [] f = 3 -> [i \in 0..W-1 |-> Page(i, FALSE)]
       [] f = PDPTE_B -> BootTable([i \in 0..1 |-> IF i = 0 THEN Table(5, FALSE)
                                                   ELSE Table(Stray, FALSE)])
       [] f = 5 -> BootTable([i \in {0} |-> Large(0, FALSE)])
       [] f = Stray -> left
       [] OTHER -> FullOfData]

\* Zeros, or an entry that takes some frame for a page table: one that the
\* allocator hands out first, or last.
Leftovers ==
  {Blank} \cup {BootTable([i \in {0} |-> Table(g, FALSE)]) : g \in {6, NFrames-1}}

\* The frames the memory map leaves to the allocator: any, but the lowest ones
\* are next to the kernel, inside the first large page.
FreeAtBoot ==
  {S \in SUBSET (RAM \ BootFrames) : {6, 7} \subseteq S \/ S \subseteq {6}}

Init ==
  /\ \E free \in FreeAtBoot, left \in Leftovers :
       /\ m = [mem |-> BootMem(left), free |-> free,
               used |-> [f \in RAM |-> IF f \in BootFrames THEN "table" ELSE "free"],
               fault |-> FALSE]
       /\ zeroed = (left = Blank)
  /\ up = FALSE
  /\ heap_end = HeapBase /\ mmio_next = MmioBase
  /\ loaded = {}

Boot ==
  /\ ~up
  /\ m' = vmm_init(m).m
  /\ up' = TRUE
  /\ UNCHANGED <<heap_end, mmio_next, loaded, zeroed>>

\* One page of expand_to (or of heap_init); nothing is undone on failure.
HeapGrow ==
  LET Grown(r) ==
        /\ m' = r.m
        /\ heap_end' = IF r.ok THEN heap_end + 1 ELSE heap_end
  IN /\ up /\ heap_end < HeapBase + HeapLimit
     /\ Grown(vmm_alloc_map(m, heap_end, FALSE, "heap"))
     /\ UNCHANGED <<up, mmio_next, loaded, zeroed>>

\* vmm_map_mmio(MmioFrame, n pages): it stops at the first page that fails,
\* and those before it stay mapped.
MapMmio(n) ==
  LET Counted(r, next) ==
        [m |-> r.m, ok |-> r.ok, next |-> IF r.ok THEN next + 1 ELSE next]
      Add(r, i) ==
        IF r.ok THEN Counted(vmm_map_page(r.m, MmioFrame + i, r.next, FALSE), r.next)
        ELSE r
      Mapped(r) == m' = r.m /\ mmio_next' = r.next
  IN /\ up /\ mmio_next + n <= MmioBase + 2
     /\ Mapped(FoldLeft(Add, [m |-> m, ok |-> TRUE, next |-> mmio_next],
                        SetToSortSeq(0..n-1, <)))
     /\ UNCHANGED <<up, heap_end, loaded, zeroed>>

\* A page is mapped unless something is mapped there already.
MapUser(n, va) ==
  IF vmm_is_mapped(n, va) THEN Result(n, TRUE) ELSE vmm_alloc_map(n, va, TRUE, "user")

\* The copy of the file to the pages of the segment.
Copied(n, seg) ==
  UntilFailure(n, seg, LAMBDA k, va : Result(Fill(k, va, FullOfData), TRUE))

\* elf64_load: map the pages of the segment, then copy the file to them.
elf64_load(n, seg) ==
  LET Filled(r) == IF r.ok THEN Copied(r.m, seg) ELSE r
  IN Filled(UntilFailure(n, seg, MapUser))

\* proc_create_from_elf: the loop over the stack goes on after a failure.
MapStack(n) ==
  FoldLeft(LAMBDA k, va : MapUser(k, va).m, n, SetToSortSeq(Stack, <))

Load(seg) ==
  LET Created(r) ==
        /\ m' = IF r.ok THEN MapStack(r.m) ELSE r.m
        /\ loaded' = IF r.ok THEN loaded \cup {seg} ELSE loaded
  IN /\ up
     /\ Created(elf64_load(m, seg))
     /\ UNCHANGED <<up, heap_end, mmio_next, zeroed>>

Next ==
  \/ Boot
  \/ HeapGrow
  \/ \E n \in MmioPages : MapMmio(n)
  \/ \E seg \in Segments : Load(seg)

Spec == Init /\ [][Next]_vars

-----------------------------------------------------------------------------
Entries == {Empty, Data} \cup
           [k : {"table", "large", "page"}, f : 0..IdentityPages-1, user : BOOLEAN]

\* The stray directory serves as if it had been made for MMIO: it started
\* empty, and the allocator has not handed out its frame to anybody.
Spared == zeroed /\ m.used[Stray] = "free"

\* Types, and that the kernel faults nowhere: what it touches is mapped.
TypeOK ==
  /\ \A f \in RAM : \A i \in 0..W-1 : m.mem[f][i] \in Entries
  /\ m.free \subseteq RAM
  /\ m.used \in [RAM -> {"free", "table", "heap", "user"}]
  /\ m.fault \in BOOLEAN /\ (Spared => ~m.fault)
  /\ heap_end \in HeapBase..HeapBase+HeapLimit
  /\ mmio_next \in MmioBase..MmioBase+2
  /\ loaded \subseteq Segments
  /\ zeroed \in BOOLEAN

\* Where a table is referred to: <<frame, index>> of every such entry below
\* the tables in S.
TableRefs(S) == {<<f, i>> \in S \X (0..W-1) : m.mem[f][i].k = "table"}
Under(S) == {m.mem[r[1]][r[2]].f : r \in TableRefs(S)}
Tables ==
  LET S3 == Under({PML4})
      S2 == Under(S3)
  IN {PML4} \cup S3 \cup S2 \cup Under(S2)

\* As long as the stray directory is spared, the page tables the processor
\* walks form a tree, in frames that were taken for tables but for that one:
\* no table is shared or lost to a page by get_pdpte, get_pd, get_pt or the
\* split of a large page, whichever allocation fails.
TablesApart ==
  Spared =>
    /\ \A f \in Tables \ {Stray} : f \in RAM /\ m.used[f] = "table" /\ f \notin m.free
    /\ Cardinality(TableRefs(Tables)) = Cardinality(Tables) - 1

\* Ring 3 reaches va: every entry of the walk says user.
UserCan(va) ==
  LET e4 == m.mem[PML4][vmm_pml4_index(va)]
      e3 == m.mem[e4.f][vmm_pdpte_index(va)]
      e2 == m.mem[e3.f][vmm_pd_index(va)]
  IN e4.user /\ e3.user /\ e2.user /\ Walk(m, va).user

\* As long as the stray directory is spared, every page of the heap has a
\* frame of its own, no other page of the heap and no table, out of reach of
\* programs at its heap address.
HeapPrivate ==
  Spared => \A v \in HeapBase..heap_end-1 :
    LET f == Translate(m, v)
    IN /\ f \in RAM \ Tables /\ m.used[f] = "heap" /\ f \notin m.free
       /\ ~UserCan(v)
       /\ \A w \in HeapBase..heap_end-1 : w # v => Translate(m, w) # f

\* As long as the stray directory is spared, what was loaded stays what it
\* was: nothing the kernel maps or clears later changes a page of a program,
\* and ring 3 can reach it.
ProgramIntact ==
  Spared => \A seg \in loaded : \A va \in seg :
    UserCan(va) /\ Contents(m, Translate(m, va)) = FullOfData

\* As long as the stray directory is spared, an address that leads somewhere
\* leads there for good, unless a program is loaded there: a map of one page,
\* with tables made and large pages split on the way, or given up half-way,
\* disturbs no other page.
MappingsStable ==
  [][Spared /\ Spared' => \A va \in VPages \ UserPages :
       Translate(m, va) # NoFrame => Translate(m', va) = Translate(m, va)]_vars

-----------------------------------------------------------------------------
(* What the sources say and the code does not keep in every case (README,  *)
(* "Where the code differs").                                              *)

\* While memory is left, the pages of a program and its stack are frames allocated for
\* programs ("if the page is not mapped yet, allocate a physical page and map
\* it", elf64.c:78; "allocate the user stack", proc.c:83).
ProgramHasFrames ==
  CanAlloc(m) => \A seg \in loaded : \A va \in seg \cup Stack :
    Translate(m, va) \in RAM /\ m.used[Translate(m, va)] = "user"

\* Every table the processor walks lies in a frame taken for a table and
\* cleared when it was taken ("newly allocated page table pages are cleared
\* byte by byte", vmm.c:10).
TablesTaken ==
  \A f \in Tables : f \in RAM /\ m.used[f] = "table"

\* A device window stays mapped at the address that vmm_map_mmio returned
\* ("maps the physical MMIO address to the kernel's own MMIO area",
\* vmm.h:145).
WindowsStay ==
  [][\A va \in MmioBase..mmio_next-1 : Translate(m', va) = Translate(m, va)]_vars
=============================================================================
