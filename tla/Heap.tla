-------------------------------- MODULE Heap --------------------------------
(***************************************************************************)
(* The kernel heap of SukiOS, kernel/InitKernel/heap.c, word by word.      *)
(*                                                                         *)
(* mem is the heap region as an array of 8-byte words.  A block starts     *)
(* with a header of four words (size and allocated bit, previous and next  *)
(* free block, magic) and ends with a footer of two (size, magic).  The    *)
(* free blocks form a doubly linked list threaded through their headers.   *)
(* Sizes and addresses count words; the allocated bit is the number        *)
(* BLOCK_ALLOCATED added to the size.                                      *)
(*                                                                         *)
(* Every operation takes the heap as a record h and returns the new one.   *)
(* lock and unlock (cli, sti) make kmalloc and kfree atomic on the single  *)
(* processor; krealloc is not atomic and takes two steps.                  *)
(***************************************************************************)
EXTENDS HeapRegion, FiniteSets, Sequences

CONSTANTS
  heap_start,       \* address of the first word, not 0
  VMM_PAGE_SIZE,    \* words in a page
  HEAP_MAX_ALLOC,   \* largest request
  MAGIC_VALUE,
  Frames,           \* how many page frames vmm_alloc_map may find
  Clients,          \* callers, each holding at most one block (integers < 0)
  Requests,         \* the sizes they ask for
  CallocRequests,   \* the pairs <<nmemb, size>> they pass to kcalloc
  Footers           \* the values of FooterHoldsFlag

(* FooterHoldsFlag is FALSE for set_footer as it is (heap.c:75).  TRUE is  *)
(* the footer that the comment there says is stored and that check_footer  *)
(* expects, size and allocated bit.  With it the checks of kfree accept    *)
(* allocated blocks, so the merging code, which is dead in the code as it  *)
(* is, runs.  It would need one change more: merge_next reads whatever     *)
(* lies behind the block, and pages that a failed expand_to left without a *)
(* block look like a free one.  See Intact in HeapProofs.                  *)

NULL == 0

BLOCK_HEADER_SIZE == 4
BLOCK_FOOTER_SIZE == 2
BLOCK_META_SIZE   == BLOCK_HEADER_SIZE + BLOCK_FOOTER_SIZE
BLOCK_MIN_SIZE    == BLOCK_META_SIZE + 2
BLOCK_ALIGN       == 2
BLOCK_ALLOCATED   == 2 * heap_max_size

ASSUME HeapAssumption ==
  /\ heap_start \in Nat \ {0}
  /\ VMM_PAGE_SIZE \in Nat /\ VMM_PAGE_SIZE >= BLOCK_MIN_SIZE
  /\ VMM_PAGE_SIZE % BLOCK_ALIGN = 0
  /\ heap_max_size % VMM_PAGE_SIZE = 0 /\ heap_max_size >= VMM_PAGE_SIZE
  /\ HEAP_MAX_ALLOC \in Nat
  /\ MAGIC_VALUE \in Int
  /\ \A f \in Frames : f \in Nat
  /\ \A c \in Clients : c \in Int /\ c < 0 /\ c # MAGIC_VALUE
  /\ \A n \in Requests : n \in Nat
  /\ \A a \in CallocRequests : a[1] \in Nat /\ a[2] \in Nat
  /\ Footers \subseteq BOOLEAN

VARIABLES
  h,        \* the heap: mem, mapped (heap_mapped_size), head (free_list_head),
            \* allocated (heap_allocated_bytes), frames (left for
            \* vmm_alloc_map), gaps (mapped pages that no block covers)
  client,   \* what each caller holds: ptr, size, tag; new and newsize while
            \* it is inside krealloc
  seen,     \* the blocks found by walking over memory and the list, see Seen
  FooterHoldsFlag

vars == <<h, client, seen, FooterHoldsFlag>>

-----------------------------------------------------------------------------
(* Blocks.                                                                 *)

blk_size(mem, b)      == mem[b] % BLOCK_ALLOCATED
blk_is_alloc(mem, b)  == mem[b] >= BLOCK_ALLOCATED
blk_prev_free(mem, b) == mem[b + 1]
blk_next_free(mem, b) == mem[b + 2]
blk_magic(mem, b)     == mem[b + 3]

\* blk_set_size, blk_set_magic and set_footer, which always come together.
set_block(mem, b, sz, alloc) ==
  LET word == sz + (IF alloc THEN BLOCK_ALLOCATED ELSE 0)
  IN  [mem EXCEPT ![b]          = word,
                  ![b + 3]      = MAGIC_VALUE,
                  ![b + sz - 2] = IF FooterHoldsFlag THEN word ELSE sz,
                  ![b + sz - 1] = MAGIC_VALUE]

\* The footer must repeat the first header word, allocated bit included.
check_footer(mem, b) ==
  LET sz == blk_size(mem, b)
  IN  mem[b + sz - 1] = MAGIC_VALUE /\ mem[b + sz - 2] = mem[b]

\* The block before b, found by its footer, or NULL.
blk_prev_phys(mem, b) ==
  LET prev_sz == mem[b - 2]
  IN  IF b = heap_start \/ prev_sz = 0 \/ prev_sz > heap_max_size
        THEN NULL
        ELSE b - prev_sz

-----------------------------------------------------------------------------
(* The free list.                                                          *)

\* Store n in the next (p in the prev) field of block b, if b is a block.
set_next(mem, b, n) == IF b = NULL THEN mem ELSE [mem EXCEPT ![b + 2] = n]
set_prev(mem, b, p) == IF b = NULL THEN mem ELSE [mem EXCEPT ![b + 1] = p]

\* Mutation: the next block keeps its back pointer.
list_remove_NoBackLink(hp, b) ==
  LET prev == blk_prev_free(hp.mem, b)
      next == blk_next_free(hp.mem, b)
  IN  [hp EXCEPT
         !.mem  = [set_next(@, prev, next) EXCEPT ![b + 1] = NULL, ![b + 2] = NULL],
         !.head = IF prev = NULL THEN next ELSE @]

list_remove(hp, b) ==
  LET prev == blk_prev_free(hp.mem, b)
      next == blk_next_free(hp.mem, b)
      mem  == set_prev(set_next(hp.mem, prev, next), next, prev)
  IN  [hp EXCEPT !.mem  = [mem EXCEPT ![b + 1] = NULL, ![b + 2] = NULL],
                 !.head = IF prev = NULL THEN next ELSE @]

list_insert_head(hp, b) ==
  LET mem == [hp.mem EXCEPT ![b + 1] = NULL, ![b + 2] = hp.head]
  IN  [hp EXCEPT !.mem = set_prev(mem, hp.head, b), !.head = b]

\* The blocks met from block b on along the next pointers: the one after i
\* steps, NULL behind the last one, and the first n of them.
ChainAt(mem, b) ==
  LET at[i \in Nat] ==
        IF i = 0 THEN b
        ELSE IF at[i - 1] = NULL THEN NULL ELSE blk_next_free(mem, at[i - 1])
  IN  at

ChainFrom(mem, b, n) ==
  LET at == ChainAt(mem, b)
  IN  [i \in 1 .. Cardinality({ j \in 0 .. n - 1 : at[j] # NULL }) |-> at[i - 1]]

\* More blocks than this cannot lie in the heap.
MaxBlocks == heap_max_size \div BLOCK_MIN_SIZE

\* The first block of the list with at least total words, or NULL.
first_fit(hp, total) ==
  LET list == ChainFrom(hp.mem, hp.head, MaxBlocks + 1)
      fits == { n \in DOMAIN list : blk_size(hp.mem, list[n]) >= total }
  IN  IF fits = {} THEN NULL
      ELSE list[CHOOSE n \in fits : \A m \in fits : n <= m]

-----------------------------------------------------------------------------
(* Merging and growing.                                                    *)

\* Mutation: the merged block gets the size of the second one only.
merge_next_NextSizeOnly(hp, b) ==
  LET sz   == blk_size(hp.mem, b)
      next == b + sz
      hp2  == list_remove(hp, next)
  IN  IF next >= heap_start + hp.mapped \/ blk_is_alloc(hp.mem, next)
        THEN hp
        ELSE [hp2 EXCEPT !.mem = set_block(@, b, blk_size(@, next), FALSE)]

merge_next(hp, b) ==
  LET sz   == blk_size(hp.mem, b)
      next == b + sz
      hp2  == list_remove(hp, next)
  IN  IF next >= heap_start + hp.mapped \/ blk_is_alloc(hp.mem, next)
        THEN hp
        ELSE [hp2 EXCEPT !.mem = set_block(@, b, sz + blk_size(@, next), FALSE)]

\* merge_prev also returns the block that now covers b.
merge_prev(hp, b) ==
  LET prev == blk_prev_phys(hp.mem, b)
      hp2  == list_remove(hp, prev)
      sz   == blk_size(hp.mem, prev) + blk_size(hp.mem, b)
  IN  IF prev = NULL \/ blk_is_alloc(hp.mem, prev)
        THEN [hp |-> hp, b |-> b]
        ELSE [hp |-> [hp2 EXCEPT !.mem = set_block(@, prev, sz, FALSE)],
              b  |-> prev]

Least(S) == CHOOSE x \in S : \A y \in S : x <= y

\* expand_to maps pages until the heap reaches `needed`, the region ends or
\* vmm_alloc_map finds no frame; pages mapped before a failure stay mapped.
expand_to(hp, needed) ==
  LET cur_end == heap_start + hp.mapped
      wanted  == (needed - cur_end + VMM_PAGE_SIZE - 1) \div VMM_PAGE_SIZE
      room    == (heap_max_size - hp.mapped) \div VMM_PAGE_SIZE
      pages   == Least({wanted, room, hp.frames})
  IN  [ok |-> pages = wanted,
       hp |-> [hp EXCEPT !.mapped = @ + pages * VMM_PAGE_SIZE,
                         !.frames = @ - pages]]

\* heap_init maps one page and makes it a free block; with no frame for it
\* the heap starts empty.
heap_init(frames) ==
  LET words == heap_start .. heap_start + heap_max_size - 1
      empty == [mem |-> [a \in words |-> 0], mapped |-> 0, head |-> NULL,
                allocated |-> 0, frames |-> frames, gaps |-> {}]
      page  == [empty EXCEPT !.mapped = VMM_PAGE_SIZE, !.frames = @ - 1,
                  !.mem = set_block(@, heap_start, VMM_PAGE_SIZE, FALSE)]
  IN  IF frames = 0 THEN empty ELSE list_insert_head(page, heap_start)

-----------------------------------------------------------------------------
(* kmalloc and kfree.                                                      *)

\* The size of the block for a request: metadata added, rounded up, and not
\* below the smallest block.
BlockTotal(size) ==
  LET t == ((size + BLOCK_META_SIZE + BLOCK_ALIGN - 1) \div BLOCK_ALIGN)
             * BLOCK_ALIGN
  IN  IF t < BLOCK_MIN_SIZE THEN BLOCK_MIN_SIZE ELSE t

\* Mutation: the remainder starts one footer too early.
take_block_RestTooEarly(hp, best, total) ==
  LET bsize == blk_size(hp.mem, best)
      rest  == best + total - BLOCK_FOOTER_SIZE
      prev  == blk_prev_free(hp.mem, best)
      next  == blk_next_free(hp.mem, best)
      mem1  == set_block(hp.mem, rest, bsize - total + BLOCK_FOOTER_SIZE, FALSE)
      mem2  == set_prev(set_next(mem1, prev, rest), next, rest)
      mem3  == set_next(set_prev(mem2, rest, prev), rest, next)
  IN  IF bsize >= total + BLOCK_MIN_SIZE
        THEN [hp EXCEPT !.mem  = [mem3 EXCEPT ![best] = total + BLOCK_ALLOCATED],
                        !.head = IF prev = NULL THEN rest ELSE @]
        ELSE [list_remove(hp, best) EXCEPT !.mem = set_block(@, best, bsize, TRUE)]

\* Take total words from the front of the free block best: split it when the
\* rest can hold a block, the rest taking best's place in the list, or else
\* take all of it.
take_block(hp, best, total) ==
  LET bsize == blk_size(hp.mem, best)
      rest  == best + total
      prev  == blk_prev_free(hp.mem, best)
      next  == blk_next_free(hp.mem, best)
      mem1  == set_block(hp.mem, rest, bsize - total, FALSE)
      mem2  == set_prev(set_next(mem1, prev, rest), next, rest)
      mem3  == set_next(set_prev(mem2, rest, prev), rest, next)
  IN  IF bsize >= total + BLOCK_MIN_SIZE
        THEN [hp EXCEPT !.mem  = set_block(mem3, best, total, TRUE),
                        !.head = IF prev = NULL THEN rest ELSE @]
        ELSE [list_remove(hp, best) EXCEPT !.mem = set_block(@, best, bsize, TRUE)]

\* kmalloc returns the new heap and the address of the payload or NULL.
kmalloc(hp, size) ==
  LET total   == BlockTotal(size)
      found   == first_fit(hp, total)
      cur_end == heap_start + hp.mapped
      grown   == expand_to(hp, cur_end + total)
      fresh   == [grown.hp EXCEPT
                    !.mem = set_block(@, cur_end, grown.hp.mapped - hp.mapped, FALSE)]
      lost    == <<hp.mapped, grown.hp.mapped>>
      Got(hq, b) ==
        [hp  |-> [take_block(hq, b, total) EXCEPT !.allocated = @ + total],
         ptr |-> b + BLOCK_HEADER_SIZE]
  IN  IF size = 0 \/ size > HEAP_MAX_ALLOC THEN [hp |-> hp, ptr |-> NULL]
      ELSE IF found # NULL THEN Got(hp, found)
      ELSE IF grown.ok THEN Got(list_insert_head(fresh, cur_end), cur_end)
      ELSE [hp  |-> [grown.hp EXCEPT
                       !.gaps = IF lost[1] = lost[2] THEN @ ELSE @ \cup {lost}],
            ptr |-> NULL]

\* kfree ignores what is not the payload of an allocated block.
kfree(hp, ptr) ==
  LET b      == ptr - BLOCK_HEADER_SIZE
      sz     == blk_size(hp.mem, b)
      hp1    == [hp EXCEPT !.allocated = @ - sz,
                           !.mem = set_block(@, b, sz, FALSE)]
      merged == merge_prev(hp1, b)
  IN  IF \/ ptr = NULL
         \/ b < heap_start \/ b >= heap_start + hp.mapped
         \/ blk_magic(hp.mem, b) # MAGIC_VALUE
         \/ ~check_footer(hp.mem, b)
         \/ ~blk_is_alloc(hp.mem, b)
        THEN hp
        ELSE list_insert_head(merge_next(merged.hp, merged.b), merged.b)

-----------------------------------------------------------------------------
(* The callers.  A caller fills the words it asked for with its tag, so    *)
(* that a word written by anybody else shows.                              *)

Nothing == [ptr |-> NULL, size |-> 0, tag |-> 0, new |-> NULL, newsize |-> 0]

Fill(mem, from, to, v) ==
  [a \in DOMAIN mem |-> IF from <= a /\ a < to THEN v ELSE mem[a]]

Holding(ptr, size, tag) ==
  [Nothing EXCEPT !.ptr = ptr, !.size = size, !.tag = tag]

\* The caller's own stores into the payload it was given.
Filled(hp, ptr, size, tag) ==
  [hp EXCEPT !.mem = Fill(@, ptr, ptr + size, tag)]

Kmalloc(c, size) ==
  LET r == kmalloc(h, size)
  IN  /\ client[c].ptr = NULL
      /\ IF r.ptr = NULL
           THEN h' = r.hp /\ UNCHANGED client
           ELSE /\ h' = Filled(r.hp, r.ptr, size, c)
                /\ client' = [client EXCEPT ![c] = Holding(r.ptr, size, c)]

\* kcalloc zeroes nmemb * size words; the caller relies on the zeroes.
Kcalloc(c, nmemb, size) ==
  LET total == nmemb * size
      r     == kmalloc(h, total)
  IN  /\ client[c].ptr = NULL
      /\ IF \/ nmemb = 0 \/ size = 0
            \/ size > HEAP_MAX_ALLOC \div nmemb
            \/ r.ptr = NULL
           THEN /\ h' = IF nmemb = 0 \/ size = 0 \/ size > HEAP_MAX_ALLOC \div nmemb
                         THEN h ELSE r.hp
                /\ UNCHANGED client
           ELSE /\ h' = Filled(r.hp, r.ptr, total, 0)
                /\ client' = [client EXCEPT ![c] = Holding(r.ptr, total, 0)]

Kfree(c) ==
  /\ client[c].ptr # NULL
  /\ client[c].new = NULL
  /\ h' = kfree(h, client[c].ptr)
  /\ client' = [client EXCEPT ![c] = Nothing]

\* krealloc up to its kmalloc: too small a change keeps the block, a failed
\* kmalloc leaves the old one with the caller.
KreallocAlloc(c, size) ==
  LET old      == client[c]
      old_user == blk_size(h.mem, old.ptr - BLOCK_HEADER_SIZE) - BLOCK_META_SIZE
      r        == kmalloc(h, size)
  IN  /\ old.ptr # NULL /\ old.new = NULL /\ size # 0
      /\ blk_magic(h.mem, old.ptr - BLOCK_HEADER_SIZE) = MAGIC_VALUE
      /\ IF size <= old_user
           THEN /\ h' = Filled(h, old.ptr, size, old.tag)
                /\ client' = [client EXCEPT ![c].size = size]
           ELSE /\ h' = r.hp
                /\ client' = IF r.ptr = NULL THEN client
                             ELSE [client EXCEPT ![c].new = r.ptr,
                                                 ![c].newsize = size]

\* Mutation: the copy skips the first word.
KreallocFinish_FromOne(c) ==
  LET old      == client[c]
      old_user == blk_size(h.mem, old.ptr - BLOCK_HEADER_SIZE) - BLOCK_META_SIZE
      copied   == [a \in DOMAIN h.mem |->
                     IF old.new < a /\ a < old.new + old_user
                       THEN h.mem[old.ptr + (a - old.new)] ELSE h.mem[a]]
      moved    == [h EXCEPT !.mem = Fill(copied, old.new + old.size,
                                         old.new + old.newsize, old.tag)]
  IN  /\ old.new # NULL
      /\ h' = kfree(moved, old.ptr)
      /\ client' = [client EXCEPT ![c] = Holding(old.new, old.newsize, old.tag)]

\* The rest of krealloc: copy the old payload, free the old block; the
\* caller fills the words it gained.
KreallocFinish(c) ==
  LET old      == client[c]
      old_user == blk_size(h.mem, old.ptr - BLOCK_HEADER_SIZE) - BLOCK_META_SIZE
      copied   == [a \in DOMAIN h.mem |->
                     IF old.new <= a /\ a < old.new + old_user
                       THEN h.mem[old.ptr + (a - old.new)] ELSE h.mem[a]]
      moved    == [h EXCEPT !.mem = Fill(copied, old.new + old.size,
                                         old.new + old.newsize, old.tag)]
  IN  /\ old.new # NULL
      /\ h' = kfree(moved, old.ptr)
      /\ client' = [client EXCEPT ![c] = Holding(old.new, old.newsize, old.tag)]

-----------------------------------------------------------------------------
(* The blocks as they lie in memory, found by walking from heap_start over *)
(* the sizes in the headers and stepping over the pages that a failed      *)
(* expand_to left without a block.  The variable seen records the walk.    *)

GapAt(hp, a) == { g \in hp.gaps : heap_start + g[1] = a }

\* Where the walk goes from address a, and where it is after i steps.
WalkOn(hp, a) ==
  IF a >= heap_start + hp.mapped THEN a
  ELSE IF GapAt(hp, a) = {} THEN a + blk_size(hp.mem, a)
  ELSE heap_start + (CHOOSE g \in GapAt(hp, a) : TRUE)[2]

WalkAt(hp) ==
  LET at[i \in Nat] == IF i = 0 THEN heap_start ELSE WalkOn(hp, at[i - 1])
  IN  at

\* The allocated and the free blocks met by the walk, the address where it
\* ends, and the free list as first_fit would follow it.
Seen(hp) ==
  LET at     == WalkAt(hp)
      blocks == { a \in { at[i] : i \in 0 .. MaxBlocks } :
                    a < heap_start + hp.mapped /\ GapAt(hp, a) = {} }
      busy   == { b \in blocks : blk_is_alloc(hp.mem, b) }
  IN  [busy |-> busy, free |-> blocks \ busy, end |-> at[MaxBlocks + 1],
       list |-> ChainFrom(hp.mem, hp.head, MaxBlocks + 1)]

Init ==
  /\ FooterHoldsFlag \in Footers
  /\ \E f \in Frames : h = heap_init(f)
  /\ client = [c \in Clients |-> Nothing]
  /\ seen = Seen(h)

Next ==
  /\ \E c \in Clients :
       \/ \E size \in Requests : Kmalloc(c, size)
       \/ \E a \in CallocRequests : Kcalloc(c, a[1], a[2])
       \/ Kfree(c)
       \/ \E size \in Requests : KreallocAlloc(c, size)
       \/ KreallocFinish(c)
  /\ seen' = Seen(h')
  /\ UNCHANGED FooterHoldsFlag

Spec == Init /\ [][Next]_vars

-----------------------------------------------------------------------------
\* The heap and the callers have their types.  heap_allocated_bytes may drift
\* below zero: kmalloc adds the size asked for, kfree subtracts the size of
\* the block, which is larger when it was too small to split.
TypeOK ==
  /\ DOMAIN h.mem = heap_start .. heap_start + heap_max_size - 1
  /\ h.mapped \in 0 .. heap_max_size /\ h.mapped % VMM_PAGE_SIZE = 0
  /\ h.head \in {NULL} \cup DOMAIN h.mem
  /\ h.allocated \in Int
  /\ h.frames \in Nat
  /\ \A c \in Clients : client[c].ptr \in {NULL} \cup DOMAIN h.mem

\* Blocks and gaps tile the mapped part of the heap: walking the sizes ends
\* exactly at its end, and every block on the way has its magic numbers, a
\* legal size and the size in its footer that merging will look for.
Tiled ==
  /\ seen.end = heap_start + h.mapped
  /\ \A b \in seen.busy \cup seen.free :
       LET sz == blk_size(h.mem, b)
       IN  /\ sz >= BLOCK_MIN_SIZE /\ sz % BLOCK_ALIGN = 0
           /\ blk_magic(h.mem, b) = MAGIC_VALUE
           /\ h.mem[b + sz - 1] = MAGIC_VALUE
           /\ h.mem[b + sz - 2] % BLOCK_ALLOCATED = sz

\* The blocks on the free list.
Listed == { seen.list[n] : n \in DOMAIN seen.list }

\* The free list holds exactly the free blocks, each once, and its two
\* directions agree: what heap_check looks for and the blocks it cannot see
\* because they fell off the list.
FreeListExact ==
  /\ Listed = seen.free
  /\ Len(seen.list) = Cardinality(seen.free)
  /\ \A n \in DOMAIN seen.list :
       blk_prev_free(h.mem, seen.list[n]) =
         IF n = 1 THEN NULL ELSE seen.list[n - 1]

\* What a caller stored in the words it asked for is still there, and the
\* words lie between header and footer of an allocated block: no operation
\* for anybody else writes a header, footer, link or payload into them, and
\* krealloc carries them over.
PayloadIntact ==
  \A c \in Clients :
    LET k == client[c]
        b == k.ptr - BLOCK_HEADER_SIZE
    IN  k.ptr # NULL =>
          /\ b \in seen.busy
          /\ k.size <= blk_size(h.mem, b) - BLOCK_META_SIZE
          /\ \A a \in k.ptr .. k.ptr + k.size - 1 : h.mem[a] = k.tag

\* README.md: kfree() marks the block free.  So an allocated block always
\* belongs to somebody.
EveryBlockOwned ==
  \A b \in seen.busy :
    \E c \in Clients : b + BLOCK_HEADER_SIZE \in {client[c].ptr, client[c].new}

-----------------------------------------------------------------------------
Extents(S) ==
  { <<b - heap_start, b - heap_start + blk_size(h.mem, b)>> : b \in S }

Promise == INSTANCE HeapSpec
  WITH mapped <- h.mapped,
       busy   <- Extents(seen.busy),
       free   <- Extents(Listed)

\* The word-level heap implements the promise of HeapSpec: every step of
\* kmalloc, kfree, krealloc or kcalloc takes, gives back or merges extents
\* that never overlap.
ImplementsPromise == Promise!Spec

\* No two callers of kmalloc share a word, and no caller's block shares one
\* with a block that the free list offers.
NoOverlap == Promise!NoOverlap

\* A kfree or krealloc gives back its own caller's block and no other:
\* merging with both neighbours never swallows a block in use.
OthersUndisturbed == Promise!OthersUndisturbed

\* With the footer that the comment at heap.c:75 describes, kfree accepts
\* every block a caller holds and none is leaked.
FlaggedFootersFree == FooterHoldsFlag => EveryBlockOwned
=============================================================================
