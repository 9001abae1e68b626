-------------------------------- MODULE Vmm ---------------------------------
(***************************************************************************)
(* The virtual memory manager (vmm.c) as functions on the memory of the    *)
(* machine: page tables lie in page frames, the processor walks them by    *)
(* physical address, and the kernel reads and writes them, and clears new  *)
(* frames, at the virtual address equal to the physical one, through the   *)
(* very tables it is changing.                                             *)
(*                                                                         *)
(* Addresses are page numbers.  Every table has W entries in use: two at   *)
(* the three upper levels, W at the lowest, so that a large page covers W  *)
(* pages.  Page 0 .. IdentityPages-1 stand for 0-4 GB, and the second half *)
(* for what PML4[511] covers: kernel, heap and MMIO.                       *)
(***************************************************************************)
EXTENDS Integers, FiniteSets, FiniteSetsExt, SequencesExt

CONSTANTS
  W,        \* pages under one large page (512 in the code)
  NFrames   \* frames of RAM

ASSUME VmmAssumption == W \in Nat /\ W >= 4 /\ NFrames \in 2*W..4*W

RAM == 0..NFrames-1
IdentityPages == 4 * W
VPages == 0..2*IdentityPages-1
NoFrame == -1

\* The tables boot.asm leaves behind; PML4[511] leads to PDPTE_B and PD_B.
PML4 == 0
PDPTE_A == 1
PDPTE_B == 4
BootFrames == 0..5

\* Entries of a table, and what a frame of data looks like as a table.
Entry(k, f, u) == [k |-> k, f |-> f, user |-> u]
Empty == Entry("none", NoFrame, FALSE)
Data == Entry("data", NoFrame, FALSE)
Table(f, u) == Entry("table", f, u)
Large(f, u) == Entry("large", f, u)      \* VMM_PS
Page(f, u) == Entry("page", f, u)

Blank == [i \in 0..W-1 |-> Empty]
FullOfData == [i \in 0..W-1 |-> Data]

vmm_pml4_index(va) == va \div IdentityPages
vmm_pdpte_index(va) == (va \div (2 * W)) % 2
vmm_pd_index(va) == (va \div W) % 2
vmm_pt_index(va) == va % W

-----------------------------------------------------------------------------
(* The processor.  m is the machine: m.mem the contents of the frames,     *)
(* m.free the frames the physical allocator has, m.used what the others    *)
(* were taken for, m.fault that the kernel touched an unmapped address.    *)

Contents(m, f) == IF f \in RAM THEN m.mem[f] ELSE FullOfData

\* The entry that decides where va leads: the last one of the walk.
Walk(m, va) ==
  LET Next(e, i) == IF e.k = "table" THEN Contents(m, e.f)[i] ELSE e
      e3 == Next(Contents(m, PML4)[vmm_pml4_index(va)], vmm_pdpte_index(va))
  IN Next(Next(e3, vmm_pd_index(va)), vmm_pt_index(va))

Translate(m, va) ==
  LET Leads(e) == CASE e.k = "page" -> e.f
                    [] e.k = "large" -> e.f + vmm_pt_index(va)
                    [] OTHER -> NoFrame
  IN Leads(Walk(m, va))

\* The kernel's accesses to frame f, at the address f.
Read(m, f, i) == Contents(m, Translate(m, f))[i]

Write(m, f, i, e) ==
  LET At(g) == IF g = NoFrame THEN [m EXCEPT !.fault = TRUE]
               ELSE IF g \in RAM THEN [m EXCEPT !.mem[g][i] = e] ELSE m
  IN At(Translate(m, f))

Fill(m, va, contents) ==
  LET At(g) == IF g = NoFrame THEN [m EXCEPT !.fault = TRUE]
               ELSE IF g \in RAM THEN [m EXCEPT !.mem[g] = contents] ELSE m
  IN At(Translate(m, va))

clear_page(m, f) == Fill(m, f, Blank)

\* pmm_alloc_page hands out the lowest free frame (module Pmm).
CanAlloc(m) == m.free # {}
NextFrame(m) == Min(m.free)
Take(m, use) == [m EXCEPT !.free = @ \ {NextFrame(m)}, !.used[NextFrame(m)] = use]

-----------------------------------------------------------------------------
(* get_pdpte, get_pd, get_pt: one level down.  The result is the machine   *)
(* and the table found or made, NoFrame if there is none.                  *)

Found(m, t) == [m |-> m, t |-> t]

\* Mutant: the answer 0 of pmm_alloc_page is taken for a frame.
Descend_NoTest(r, i, alloc) ==
  LET e == Read(r.m, r.t, i)
      f == IF CanAlloc(r.m) THEN NextFrame(r.m) ELSE 0
      n == IF CanAlloc(r.m) THEN Take(r.m, "table") ELSE r.m
  IN IF r.t = NoFrame \/ e.k = "large" THEN Found(r.m, NoFrame)
     ELSE IF e.k # "none" THEN Found(r.m, e.f)
     ELSE IF ~alloc THEN Found(r.m, NoFrame)
     ELSE Found(Write(IF f = 0 THEN n ELSE clear_page(n, f), r.t, i, Table(f, FALSE)), f)

\* From the table r.t, if there is one, through its entry i.
Descend(r, i, alloc) ==
  LET NewTable(f) ==
        Found(Write(clear_page(Take(r.m, "table"), f), r.t, i, Table(f, FALSE)), f)
      Through(e) ==
        IF e.k = "large" THEN Found(r.m, NoFrame)
        ELSE IF e.k # "none" THEN Found(r.m, e.f)
        ELSE IF ~alloc \/ ~CanAlloc(r.m) THEN Found(r.m, NoFrame)
        ELSE NewTable(NextFrame(r.m))
  IN IF r.t = NoFrame THEN r ELSE Through(Read(r.m, r.t, i))

get_pdpte(m, va, alloc) == Descend(Found(m, PML4), vmm_pml4_index(va), alloc)

get_pd(m, va, alloc) == Descend(get_pdpte(m, va, alloc), vmm_pdpte_index(va), alloc)

get_pt(m, va, alloc) == Descend(get_pd(m, va, alloc), vmm_pd_index(va), alloc)

\* Mutant: all pages of the split get the address of the large page.
SplitEntries_SameBase(pde) == [i \in 0..W-1 |-> Page(pde.f, pde.user)]

SplitEntries(pde) == [i \in 0..W-1 |-> Page(pde.f + i, pde.user)]

\* A large page becomes a table of small ones with the same addresses.
Split(m, pd, i, pde) ==
  LET pt == NextFrame(m)
  IN Write(Fill(Take(m, "table"), pt, SplitEntries(pde)), pd, i, Table(pt, pde.user))

Result(m, ok) == [m |-> m, ok |-> ok]

\* vmm_map_page from the page directory d on: a large page is split, and
\* the entry e goes into the page table.
MapInDirectory(d, va, e) ==
  LET i == vmm_pd_index(va)
      Whole(pde) == IF pde.k = "large" THEN Split(d.m, d.t, i, pde) ELSE d.m
      Store(t) ==
        IF t.t = NoFrame THEN Result(t.m, FALSE)
        ELSE Result(Write(t.m, t.t, vmm_pt_index(va), e), TRUE)
  IN IF \/ d.t = NoFrame
        \/ Read(d.m, d.t, i).k = "large" /\ ~CanAlloc(d.m)
       THEN Result(d.m, FALSE)
       ELSE Store(get_pt(Whole(Read(d.m, d.t, i)), va, TRUE))

vmm_map_page(m, f, va, user) ==
  MapInDirectory(get_pd(m, va, TRUE), va, Page(f, user))

vmm_is_mapped(m, va) ==
  LET t == get_pt(m, va, FALSE)
  IN t.t # NoFrame /\ Read(m, t.t, vmm_pt_index(va)).k # "none"

\* Mutant: the frame goes back to the allocator but stays mapped.
vmm_alloc_map_FreesFrame(m, va, user, use) ==
  IF ~CanAlloc(m) THEN Result(m, FALSE)
  ELSE LET f == NextFrame(m)
           r == vmm_map_page(clear_page(Take(m, use), f), f, va, user)
       IN Result([r.m EXCEPT !.free = @ \cup {f}], r.ok)

\* A frame for va; if no table can be had for it, the frame stays taken.
vmm_alloc_map(m, va, user, use) ==
  IF ~CanAlloc(m) THEN Result(m, FALSE)
  ELSE LET f == NextFrame(m)
       IN vmm_map_page(clear_page(Take(m, use), f), f, va, user)

\* The pages of vas, in order, until op fails on one.
UntilFailure(m, vas, op(_, _)) ==
  FoldLeft(LAMBDA r, va : IF r.ok THEN op(r.m, va) ELSE r, Result(m, TRUE),
           SetToSortSeq(vas, <))

\* vmm_init: a directory of large pages for each gigabyte (two here); it
\* stops at the first one for which there is no frame.
InitGigabyte(m, gb) ==
  IF ~CanAlloc(m) THEN Result(m, FALSE)
  ELSE LET f == NextFrame(m)
           pd == [i \in 0..W-1 |-> IF i < 2 THEN Large((2 * gb + i) * W, TRUE) ELSE Empty]
       IN Result(Write(Fill(Take(m, "table"), f, pd), PDPTE_A, gb, Table(f, TRUE)), TRUE)

vmm_init(m) ==
  LET user == Write(m, PML4, 0, [Read(m, PML4, 0) EXCEPT !.user = TRUE])
  IN UntilFailure(user, {0, 1}, InitGigabyte)
=============================================================================
