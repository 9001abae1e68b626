----------------------------- MODULE PmmProofs -----------------------------
(***************************************************************************)
(* Proofs about the physical memory manager for every size of the bitmap,  *)
(* every place where the kernel may end and every set of memory maps.      *)
(***************************************************************************)
EXTENDS Pmm, FiniteSetTheorems, TLAPS

\* The pages of the entries pmm_init has gone through.
Covered == UNION { EntryPages(mmap[i]) : i \in 1 .. entry - 1 }

Types ==
  /\ mmap \in MemoryMaps
  /\ entry \in 1 .. Len(mmap) + 1
  /\ phase \in {"map", "reserve", "up"}
  /\ pmm_bitmap \subseteq Pages
  /\ total_pages \in Int
  /\ used_pages \in Int
  /\ owned \subseteq Pages

\* total_pages never falls behind the free pages, and is exact when the
\* entries do not overlap.
FreeCount ==
  /\ total_pages >= Cardinality(Free)
  /\ Disjoint(mmap) => total_pages = Cardinality(Free)

\* What the bitmap and used_pages hold while pmm_init runs.
Booting ==
  /\ phase # "up" => used_pages = 0 /\ owned = {}
  /\ phase = "map" => Free = Covered
  /\ phase = "reserve" => Free = Available(mmap)

UsedCount == phase = "up" => used_pages = Cardinality(Reserved \cup owned)

\* The inductive invariant.
IInv == Types /\ FreeCount /\ Booting /\ Partition /\ UsedCount

-----------------------------------------------------------------------------
\* Every set of pages is finite and has a natural number of elements.
LEMMA PagesFinite ==
  ASSUME NEW S \in SUBSET Pages
  PROVE  IsFiniteSet(S) /\ Cardinality(S) \in Nat
<1>1. IsFiniteSet(Pages)
  BY PagesAssumption, FS_Interval DEF Pages
<1>2. IsFiniteSet(S)
  BY <1>1, FS_Subset
<1>3. QED
  BY <1>2, FS_CardinalityType

\* Entries, reservation and available pages lie inside the bitmap.
LEMMA PageSets ==
  /\ \A e : EntryPages(e) \subseteq Pages
  /\ KernelPages \subseteq Pages
  /\ \A m : Available(m) \subseteq Pages
BY DEF EntryPages, KernelPages, Available

\* Adding pages to a set of pages: by how much the number grows at most, and
\* exactly when nothing is added twice.
LEMMA AddPages ==
  ASSUME NEW S \in SUBSET Pages, NEW T \in SUBSET Pages
  PROVE  /\ Cardinality(S \cup T) <= Cardinality(S) + Cardinality(T)
         /\ S \cap T = {} =>
              Cardinality(S \cup T) = Cardinality(S) + Cardinality(T)
<1>1. /\ IsFiniteSet(S) /\ Cardinality(S) \in Nat
      /\ IsFiniteSet(T) /\ Cardinality(T) \in Nat
  BY PagesFinite
<1>2. S \cap T \in SUBSET Pages
  OBVIOUS
<1>3. Cardinality(S \cap T) \in Nat
  BY <1>2, PagesFinite
<1>4. Cardinality(S \cup T) =
        Cardinality(S) + Cardinality(T) - Cardinality(S \cap T)
  BY <1>1, FS_Union
<1>5. Cardinality(S \cup T) <= Cardinality(S) + Cardinality(T)
  BY <1>1, <1>3, <1>4
<1>6. ASSUME S \cap T = {}
      PROVE  Cardinality(S \cup T) = Cardinality(S) + Cardinality(T)
  <2>1. Cardinality(S \cap T) = 0
    BY <1>6, FS_EmptySet
  <2>2. QED
    BY <1>1, <1>4, <2>1
<1>7. QED
  BY <1>5, <1>6

\* Taking pages out of a set of pages lowers the number by as many.
LEMMA DropPages ==
  ASSUME NEW S \in SUBSET Pages, NEW T \in SUBSET S
  PROVE  Cardinality(S \ T) = Cardinality(S) - Cardinality(T)
<1>1. /\ S \ T \in SUBSET Pages
      /\ T \in SUBSET Pages
      /\ (S \ T) \cup T = S
      /\ (S \ T) \cap T = {}
  OBVIOUS
<1>2. Cardinality(S) = Cardinality(S \ T) + Cardinality(T)
  BY <1>1, AddPages
<1>3. /\ Cardinality(S \ T) \in Nat
      /\ Cardinality(T) \in Nat
  BY <1>1, PagesFinite
<1>4. QED
  BY <1>2, <1>3

-----------------------------------------------------------------------------
LEMMA InitIInv == Init => IInv
<1> SUFFICES ASSUME Init PROVE IInv
  OBVIOUS
<1>1. Types
  BY MapsAssumption DEF Init, Types, Pages
<1>2. Free = {} /\ Covered = {}
  BY DEF Init, Free, Covered
<1>3. Cardinality(Free) = 0
  BY <1>2, FS_EmptySet
<1>4. FreeCount
  BY <1>3 DEF Init, FreeCount
<1>5. Booting /\ Partition /\ UsedCount
  BY <1>2 DEF Init, Booting, Partition, UsedCount
<1>6. QED
  BY <1>1, <1>4, <1>5 DEF IInv

\* One round of the entry loop: the entry's pages join the free ones.
LEMMA EntryStep == IInv /\ pmm_init_entry => IInv'
<1> SUFFICES ASSUME IInv, pmm_init_entry PROVE IInv'
  OBVIOUS
<1> DEFINE E == EntryPages(mmap[entry])
<1>1. Types /\ FreeCount /\ Booting
  BY DEF IInv
<1>2. /\ mmap' = mmap /\ entry' = entry + 1 /\ phase' = phase
      /\ phase = "map" /\ entry <= Len(mmap) /\ Len(mmap) \in Nat
      /\ pmm_bitmap' = pmm_bitmap \ E
      /\ total_pages' = total_pages + Cardinality(E)
      /\ used_pages' = used_pages /\ owned' = owned
  BY <1>1, MapsAssumption DEF pmm_init_entry, Types
<1>3. /\ E \in SUBSET Pages
      /\ Free \in SUBSET Pages
      /\ Free' = Free \cup E
  BY <1>2, PageSets DEF Free
<1>4. /\ Cardinality(E) \in Nat
      /\ Cardinality(Free) \in Nat
      /\ Cardinality(Free') \in Nat
  BY <1>3, PagesFinite
<1>5. Types'
  BY <1>1, <1>2, <1>4 DEF Types
<1>6. 1 .. entry' - 1 = (1 .. entry - 1) \cup {entry}
  BY <1>1, <1>2 DEF Types
<1>7. Covered' = Covered \cup E
  BY <1>2, <1>6 DEF Covered
<1>8. Free = Covered
  BY <1>1, <1>2 DEF Booting
<1>9. FreeCount'
  <2>1. Cardinality(Free') <= Cardinality(Free) + Cardinality(E)
    BY <1>3, AddPages
  <2>2. ASSUME Disjoint(mmap) PROVE Free \cap E = {}
    <3>1. \A i \in 1 .. entry - 1 :
            /\ i \in 1 .. Len(mmap)
            /\ entry \in 1 .. Len(mmap)
            /\ i # entry
      BY <1>1, <1>2 DEF Types
    <3>2. \A i \in 1 .. entry - 1 : EntryPages(mmap[i]) \cap E = {}
      BY <2>2, <3>1 DEF Disjoint
    <3>3. QED
      BY <1>8, <3>2 DEF Covered
  <2>3. Disjoint(mmap) => Cardinality(Free') = Cardinality(Free) + Cardinality(E)
    BY <1>3, <2>2, AddPages
  <2>4. Disjoint(mmap)' <=> Disjoint(mmap)
    BY <1>2 DEF Disjoint, EntryPages
  <2>5. QED
    BY <1>1, <1>2, <1>4, <2>1, <2>3, <2>4 DEF FreeCount, Types
<1>10. Booting'
  BY <1>1, <1>2, <1>3, <1>7, <1>8 DEF Booting
<1>11. Partition' /\ UsedCount'
  BY <1>2 DEF Partition, UsedCount
<1>12. QED
  BY <1>5, <1>9, <1>10, <1>11 DEF IInv

\* After the last entry the free pages are the available ones.
LEMMA MappedStep == IInv /\ pmm_init_mapped => IInv'
<1> SUFFICES ASSUME IInv, pmm_init_mapped PROVE IInv'
  OBVIOUS
<1>1. Types /\ FreeCount /\ Booting
  BY DEF IInv
<1>2. /\ mmap' = mmap /\ entry' = entry /\ phase' = "reserve"
      /\ phase = "map" /\ entry > Len(mmap) /\ Len(mmap) \in Nat
      /\ UNCHANGED <<pmm_bitmap, total_pages, used_pages, owned>>
  BY <1>1, MapsAssumption DEF pmm_init_mapped, Types
<1>3. Free' = Free
  BY <1>2 DEF Free
<1>4. 1 .. entry - 1 = 1 .. Len(mmap)
  BY <1>1, <1>2 DEF Types
<1>5. Covered = Available(mmap)
  BY <1>4 DEF Covered, Available
<1>6. Types' /\ FreeCount'
  BY <1>1, <1>2, <1>3 DEF Types, FreeCount, Disjoint, EntryPages
<1>7. Booting'
  BY <1>1, <1>2, <1>3, <1>5 DEF Booting
<1>8. Partition' /\ UsedCount'
  BY <1>2 DEF Partition, UsedCount
<1>9. QED
  BY <1>6, <1>7, <1>8 DEF IInv

\* The reservation takes exactly the available pages below the kernel's end.
LEMMA ReserveStep == IInv /\ pmm_init_reserve => IInv'
<1> SUFFICES ASSUME IInv, pmm_init_reserve PROVE IInv'
  OBVIOUS
<1> DEFINE taken == KernelPages \ pmm_bitmap
<1>1. Types /\ FreeCount /\ Booting
  BY DEF IInv
<1>2. /\ mmap' = mmap /\ entry' = entry /\ phase' = "up" /\ owned' = owned
      /\ phase = "reserve"
      /\ pmm_bitmap' = pmm_bitmap \cup taken
      /\ used_pages' = used_pages + Cardinality(taken)
      /\ total_pages' = total_pages - Cardinality(taken)
  BY DEF pmm_init_reserve
<1>3. /\ Free = Available(mmap) /\ used_pages = 0 /\ owned = {}
  BY <1>1, <1>2 DEF Booting
<1>4. /\ Free \in SUBSET Pages
      /\ taken \in SUBSET Free
      /\ taken \in SUBSET Pages
      /\ Free' = Free \ taken
  BY <1>2, PageSets DEF Free
<1>5. taken = Reserved /\ Reserved' = Reserved
  BY <1>2, <1>3, PageSets DEF Reserved, Free, Available, EntryPages
<1>6. Cardinality(Free') = Cardinality(Free) - Cardinality(taken)
  BY <1>4, DropPages
<1>7. Cardinality(Free) \in Nat /\ Cardinality(taken) \in Nat
  BY <1>4, PagesFinite
<1>8. Types'
  BY <1>1, <1>2, <1>4, <1>7 DEF Types
<1>9. FreeCount'
  <2>1. Disjoint(mmap)' <=> Disjoint(mmap)
    BY <1>2 DEF Disjoint, EntryPages
  <2>2. QED
    BY <1>1, <1>2, <1>6, <1>7, <2>1 DEF FreeCount, Types
<1>10. Available(mmap)' = Available(mmap)
  BY <1>2 DEF Available, EntryPages
<1>11. Partition'
  BY <1>2, <1>3, <1>4, <1>5, <1>10 DEF Partition
<1>12. UsedCount'
  <2>1. (Reserved \cup owned)' = taken
    BY <1>2, <1>3, <1>5
  <2>2. used_pages' = Cardinality(taken)
    BY <1>2, <1>3, <1>7
  <2>3. QED
    BY <2>1, <2>2 DEF UsedCount
<1>13. QED
  BY <1>2, <1>8, <1>9, <1>11, <1>12 DEF IInv, Booting

\* A free page is never page 0, so its address is never taken for "none".
LEMMA FreePageNotZero ==
  ASSUME Types, Partition, phase = "up", NEW i \in Free
  PROVE  /\ i \in Pages /\ i \notin owned /\ i \notin Reserved
         /\ i * PAGE_SIZE # 0
<1>1. /\ i \in Pages /\ i \in Available(mmap)
      /\ i \notin owned /\ i \notin Reserved
  BY DEF Partition, Free
<1>2. i \notin KernelPages
  BY <1>1 DEF Reserved
<1>3. i \in Nat /\ i # 0
  BY <1>1, <1>2, PagesAssumption, KernelAssumption DEF Pages, KernelPages
<1>4. i * PAGE_SIZE # 0
  BY <1>3, SizeAssumption
<1>5. QED
  BY <1>1, <1>4

\* A frame moves from the free ones to its caller.
LEMMA AllocStep == IInv /\ AllocFound => IInv'
<1> SUFFICES ASSUME IInv, AllocFound PROVE IInv'
  OBVIOUS
<1>1. Types /\ FreeCount /\ Partition /\ UsedCount
  BY DEF IInv
<1>2. /\ mmap' = mmap /\ entry' = entry /\ phase' = "up" /\ phase = "up"
      /\ used_pages' = used_pages + 1
      /\ total_pages' = total_pages - 1
  BY DEF AllocFound
<1>3. PICK i \in Pages :
        /\ ~bitmap_test(i)
        /\ pmm_bitmap' = pmm_bitmap \cup {i}
        /\ owned' = IF i * PAGE_SIZE = 0 THEN owned ELSE owned \cup {i}
  BY DEF AllocFound
<1>4. i \in Free
  BY <1>3 DEF bitmap_test, Free
<1>5. /\ i \notin owned /\ i \notin Reserved
      /\ owned' = owned \cup {i}
  BY <1>1, <1>2, <1>3, <1>4, FreePageNotZero
<1>6. /\ Free \in SUBSET Pages
      /\ Free' = Free \ {i}
  BY <1>3 DEF Free
<1>7. /\ Available(mmap)' = Available(mmap)
      /\ Reserved' = Reserved
      /\ Disjoint(mmap)' <=> Disjoint(mmap)
  BY <1>2 DEF Available, Reserved, Disjoint, EntryPages, KernelPages
<1>8. Types'
  BY <1>1, <1>2, <1>3, <1>5 DEF Types
<1>9. FreeCount'
  <2>1. IsFiniteSet(Free) /\ Cardinality(Free) \in Nat
    BY <1>6, PagesFinite
  <2>2. Cardinality(Free') = Cardinality(Free) - 1
    BY <1>4, <1>6, <2>1, FS_RemoveElement
  <2>3. QED
    BY <1>1, <1>2, <1>7, <2>1, <2>2 DEF FreeCount, Types
<1>10. Partition'
  BY <1>1, <1>2, <1>4, <1>5, <1>6, <1>7 DEF Partition
<1>11. UsedCount'
  <2> DEFINE R == Reserved \cup owned
  <2>1. R \in SUBSET Pages
    BY <1>1, PageSets DEF Types, Reserved
  <2>2. IsFiniteSet(R) /\ Cardinality(R) \in Nat
    BY <2>1, PagesFinite
  <2>3. Cardinality(R \cup {i}) = Cardinality(R) + 1
    BY <1>5, <2>2, FS_AddElement
  <2>4. (Reserved \cup owned)' = R \cup {i}
    BY <1>5, <1>7
  <2>5. used_pages = Cardinality(R)
    BY <1>1, <1>2 DEF UsedCount
  <2>6. QED
    BY <1>2, <2>3, <2>4, <2>5 DEF UsedCount
<1>12. QED
  BY <1>1, <1>2, <1>8, <1>9, <1>10, <1>11 DEF IInv, Booting

\* Steps that change nothing.
LEMMA StutterStep == IInv /\ UNCHANGED vars => IInv'
<1> SUFFICES ASSUME IInv, UNCHANGED vars PROVE IInv'
  OBVIOUS
<1>1. /\ Free' = Free /\ Covered' = Covered
      /\ Available(mmap)' = Available(mmap)
      /\ Reserved' = Reserved
      /\ Disjoint(mmap)' <=> Disjoint(mmap)
  BY DEF Free, Covered, Available, Reserved, Disjoint, EntryPages,
         KernelPages, vars
<1>2. QED
  BY <1>1 DEF IInv, Types, FreeCount, Booting, Partition, UsedCount, vars

\* A frame moves from its caller to the free ones; freeing a free frame or an
\* address above the bitmap changes nothing.
LEMMA FreeStep ==
  ASSUME IInv, NEW a \in Addresses, pmm_free_page(a)
  PROVE  IInv'
<1> DEFINE page == a \div PAGE_SIZE
<1>1. Types /\ FreeCount /\ Booting /\ Partition /\ UsedCount
  BY DEF IInv
<1>2. /\ mmap' = mmap /\ entry' = entry /\ phase' = phase /\ phase = "up"
      /\ FreeArgument(page)
  BY DEF pmm_free_page
<1>3. /\ Available(mmap)' = Available(mmap)
      /\ Reserved' = Reserved
      /\ Disjoint(mmap)' <=> Disjoint(mmap)
  BY <1>2 DEF Available, Reserved, Disjoint, EntryPages, KernelPages
<1>4. CASE ~(page \in Pages /\ bitmap_test(page))
  <2>1. UNCHANGED vars
    BY <1>2, <1>4 DEF pmm_free_page, vars
  <2>2. QED
    BY <2>1, StutterStep
<1>5. CASE page \in Pages /\ bitmap_test(page)
  <2>1. /\ pmm_bitmap' = pmm_bitmap \ {page}
        /\ used_pages' = used_pages - 1
        /\ total_pages' = total_pages + 1
        /\ owned' = owned \ {page}
    BY <1>5 DEF pmm_free_page
  <2>2. page \in owned /\ page \in pmm_bitmap
    BY <1>2, <1>5 DEF FreeArgument, bitmap_test
  <2>3. page \in Available(mmap) /\ page \notin Reserved /\ page \notin Free
    BY <1>1, <1>2, <2>2 DEF Partition
  <2>4. /\ Free \in SUBSET Pages
        /\ Free' = Free \cup {page}
    BY <1>5, <2>1 DEF Free
  <2>5. Types'
    BY <1>1, <1>2, <2>1 DEF Types
  <2>6. FreeCount'
    <3>1. IsFiniteSet(Free) /\ Cardinality(Free) \in Nat
      BY <2>4, PagesFinite
    <3>2. Cardinality(Free') = Cardinality(Free) + 1
      BY <2>3, <2>4, <3>1, FS_AddElement
    <3>3. QED
      BY <1>1, <1>3, <2>1, <3>1, <3>2 DEF FreeCount, Types
  <2>7. Partition'
    BY <1>1, <1>2, <1>3, <2>1, <2>3, <2>4 DEF Partition
  <2>8. UsedCount'
    <3> DEFINE R == Reserved \cup owned
    <3>1. R \in SUBSET Pages
      BY <1>1, PageSets DEF Types, Reserved
    <3>2. IsFiniteSet(R) /\ Cardinality(R) \in Nat
      BY <3>1, PagesFinite
    <3>3. Cardinality(R \ {page}) = Cardinality(R) - 1
      BY <2>2, <3>2, FS_RemoveElement
    <3>4. (Reserved \cup owned)' = R \ {page}
      BY <1>3, <2>1, <2>3
    <3>5. used_pages = Cardinality(R)
      BY <1>1, <1>2 DEF UsedCount
    <3>6. QED
      BY <2>1, <3>3, <3>4, <3>5 DEF UsedCount
  <2>9. QED
    BY <1>2, <2>5, <2>6, <2>7, <2>8 DEF IInv, Booting
<1>6. QED
  BY <1>4, <1>5

\* The inductive invariant holds in every reachable state.
LEMMA Inductive == Spec => []IInv
<1>1. IInv /\ [Next]_vars => IInv'
  BY EntryStep, MappedStep, ReserveStep, AllocStep, FreeStep, StutterStep
  DEF Next, pmm_alloc_page, AllocNone
<1>2. QED
  BY InitIInv, <1>1, PTL DEF Spec

-----------------------------------------------------------------------------
\* pmm.c: the state keeps its types and the unsigned counters never wrap
\* below zero, for every bitmap size, kernel size and memory map.
THEOREM TypeCorrect == Spec => []TypeOK
<1>1. IInv => TypeOK
  <2> SUFFICES ASSUME IInv PROVE TypeOK
    OBVIOUS
  <2>1. Free \in SUBSET Pages /\ Reserved \cup owned \in SUBSET Pages
    BY PageSets DEF IInv, Types, Free, Reserved
  <2>2. /\ Cardinality(Free) \in Nat
        /\ Cardinality(Reserved \cup owned) \in Nat
    BY <2>1, PagesFinite
  <2>3. total_pages \in Nat
    BY <2>2 DEF IInv, Types, FreeCount
  <2>4. used_pages \in Nat
    BY <2>2 DEF IInv, Types, UsedCount, Booting
  <2>5. QED
    BY <2>3, <2>4 DEF IInv, Types, TypeOK
<1>2. QED
  BY Inductive, <1>1, PTL

\* pmm.c: every available frame is the kernel's, one caller's or free, and
\* none is lost behind the "no frame" result.
THEOREM FramesPartitioned == Spec => []Partition
<1>1. IInv => Partition
  BY DEF IInv
<1>2. QED
  BY Inductive, <1>1, PTL

\* pmm.c: the counters agree with the bitmap.
THEOREM CountersAgree == Spec => []Accounting
<1>1. IInv => Accounting
  BY DEF IInv, FreeCount, UsedCount, Accounting
<1>2. QED
  BY Inductive, <1>1, PTL
=============================================================================
