----------------------------- MODULE HeapProofs -----------------------------
(***************************************************************************)
(* Proofs about the kernel heap, for every region, page and request size,  *)
(* any number of callers and any supply of page frames.                    *)
(*                                                                         *)
(* The invariant says that some function size, from the addresses of       *)
(* blocks to their sizes, and some set busy of them describe the words in  *)
(* memory (Shape): headers, footers and links are those of these blocks,   *)
(* and blocks and gaps lie side by side.  Each operation of heap.c is      *)
(* shown to turn such a memory into one, of blocks related to the old ones *)
(* as Move says.  A step of HeapSpec is then read off Move.  The functions *)
(* ChainAt and WalkAt that follow the list and the headers are shown to    *)
(* visit exactly these blocks.                                             *)
(***************************************************************************)
EXTENDS Heap, FiniteSetTheorems, WellFoundedInduction, TLAPS

LEMMA Constants ==
  /\ heap_start \in Nat /\ heap_start >= 1
  /\ heap_max_size \in Nat /\ heap_max_size >= 8
  /\ VMM_PAGE_SIZE \in Nat /\ VMM_PAGE_SIZE >= 8 /\ VMM_PAGE_SIZE <= heap_max_size
  /\ VMM_PAGE_SIZE % 2 = 0
  /\ HEAP_MAX_ALLOC \in Nat /\ MAGIC_VALUE \in Int
  /\ BLOCK_ALLOCATED \in Nat /\ BLOCK_ALLOCATED = 2 * heap_max_size
  /\ NULL = 0 /\ MaxBlocks \in Nat
BY HeapAssumption, HeapMaxAssumption
   DEF BLOCK_MIN_SIZE, BLOCK_META_SIZE, BLOCK_HEADER_SIZE, BLOCK_FOOTER_SIZE, BLOCK_ALIGN,
       BLOCK_ALLOCATED, NULL, MaxBlocks

Words == heap_start .. heap_start + heap_max_size - 1

\* The first address behind the mapped words.
End(mapped) == heap_start + mapped

\* The blocks and gaps as they lie in memory: size[b] is the size of the block
\* at b.  Nothing overlaps, and where one ends the next starts.
Starts(mapped, gaps, size, a) ==
  \/ a = End(mapped) \/ a \in DOMAIN size
  \/ \E g \in gaps : heap_start + g[1] = a

Layout(mapped, gaps, size) ==
  /\ mapped \in 0 .. heap_max_size
  /\ DOMAIN size \subseteq Words
  /\ \A b \in DOMAIN size : /\ size[b] \in 8 .. heap_max_size /\ size[b] % 2 = 0
                            /\ b + size[b] <= End(mapped)
  /\ \A b, c \in DOMAIN size : b < c => b + size[b] <= c
  /\ \A g \in gaps : /\ g[1] \in Nat /\ g[2] \in Nat /\ g[1] + 8 <= g[2] /\ g[2] <= mapped
                     /\ g = <<g[1], g[2]>>
  /\ \A f, g \in gaps : f # g => f[2] <= g[1] \/ g[2] <= f[1]
  /\ \A g \in gaps : \A b \in DOMAIN size :
       b + size[b] <= heap_start + g[1] \/ heap_start + g[2] <= b
  /\ Starts(mapped, gaps, size, heap_start)
  /\ \A b \in DOMAIN size : Starts(mapped, gaps, size, b + size[b])
  /\ \A g \in gaps : Starts(mapped, gaps, size, heap_start + g[2])

\* The words that describe a block, in a memory of integers; flag is the
\* value of FooterHoldsFlag.
HeaderWord(sz, alloc) == sz + (IF alloc THEN BLOCK_ALLOCATED ELSE 0)

Tagged(flag, mem, b, sz, alloc) ==
  /\ mem[b] = HeaderWord(sz, alloc) /\ mem[b + 3] = MAGIC_VALUE
  /\ mem[b + sz - 2] = (IF flag THEN HeaderWord(sz, alloc) ELSE sz)
  /\ mem[b + sz - 1] = MAGIC_VALUE

Tags(flag, mem, size, busy) ==
  \A b \in DOMAIN size : Tagged(flag, mem, b, size[b], b \in busy)

\* The words that nothing was ever stored in.
Blank(mem, mapped, gaps) ==
  /\ \A a \in Words : a >= End(mapped) => mem[a] = 0
  /\ \A g \in gaps : \A a \in heap_start + g[1] .. heap_start + g[2] - 1 : mem[a] = 0

\* The doubly linked list from head on has the n blocks of L.
Links(mem, head, n, L) ==
  /\ head = IF n = 0 THEN NULL ELSE L[1]
  /\ \A i \in 1 .. n :
       /\ mem[L[i] + 1] = IF i = 1 THEN NULL ELSE L[i - 1]
       /\ mem[L[i] + 2] = IF i = n THEN NULL ELSE L[i + 1]

\* L has every block that is neither busy nor off the list, once.
Offers(size, busy, off, n, L) ==
  /\ busy \subseteq DOMAIN size /\ off \subseteq DOMAIN size /\ busy \cap off = {}
  /\ n \in Nat /\ L = [i \in 1 .. n |-> L[i]]
  /\ \A i \in 1 .. n : L[i] \in DOMAIN size /\ L[i] \notin busy /\ L[i] \notin off
  /\ \A i, j \in 1 .. n : L[i] = L[j] => i = j
  /\ \A b \in DOMAIN size : b \in busy \/ b \in off \/ \E i \in 1 .. n : L[i] = b

\* A heap as a record.
IsHeap(hp) ==
  /\ hp = [mem |-> hp.mem, mapped |-> hp.mapped, head |-> hp.head,
           allocated |-> hp.allocated, frames |-> hp.frames, gaps |-> hp.gaps]
  /\ hp.mem \in [Words -> Int]
  /\ hp.frames \in Nat /\ hp.allocated \in Int

\* The heap hp consists of the blocks of size, those of busy allocated, and
\* its free list has the n blocks of L; the blocks of off are neither, which
\* is so between two steps of an operation only.
Shape(flag, hp, size, busy, off, n, L) ==
  /\ IsHeap(hp)
  /\ size = [b \in DOMAIN size |-> size[b]]
  /\ Layout(hp.mapped, hp.gaps, size)
  /\ Tags(flag, hp.mem, size, busy)
  /\ Blank(hp.mem, hp.mapped, hp.gaps)
  /\ Offers(size, busy, off, n, L)
  /\ Links(hp.mem, hp.head, n, L)

-----------------------------------------------------------------------------
\* A set of numbers that is not empty has a least one.
LEMMA LeastNumber ==
  ASSUME NEW T, T \subseteq Nat, T # {}
  PROVE  \E x \in T : \A y \in T : x <= y
<1> DEFINE R == OpToRel(<, Nat)
<1>1. IsWellFoundedOn(R, Nat)
  BY NatLessThanWellFounded
<1>2. \A x, y \in Nat : y < x => <<y, x>> \in R
  BY DEF OpToRel
<1> HIDE DEF R
<1>3. PICK x \in T : \A y \in T : <<y, x>> \notin R
  BY <1>1, WFMin
<1>4. ASSUME NEW y \in T PROVE x <= y
  <2>1. x \in Nat /\ y \in Nat
    OBVIOUS
  <2>2. ~ (y < x)
    BY <1>2, <1>3, <2>1
  <2> QED BY <2>1, <2>2
<1> QED BY <1>4

\* The header of a tagged block says its size and whether it is allocated.
LEMMA TaggedSays ==
  ASSUME NEW flag, NEW mem, NEW size, NEW busy, Tags(flag, mem, size, busy),
         NEW b \in DOMAIN size, size[b] \in 8 .. heap_max_size
  PROVE  /\ blk_size(mem, b) = size[b] /\ (blk_is_alloc(mem, b) <=> b \in busy)
         /\ blk_magic(mem, b) = MAGIC_VALUE
<1> DEFINE sz == size[b]
<1>0. Tagged(flag, mem, b, sz, b \in busy)
  BY DEF Tags
<1>1. BLOCK_ALLOCATED \in Nat /\ BLOCK_ALLOCATED > 0 /\ sz < BLOCK_ALLOCATED /\ sz \in Nat
  BY Constants
<1>m. mem[b+3] = MAGIC_VALUE
  BY <1>0 DEF Tagged
<1> HIDE DEF sz
<1>2. sz % BLOCK_ALLOCATED = sz
  BY <1>1
<1>3. (sz + BLOCK_ALLOCATED) % BLOCK_ALLOCATED = sz
  BY <1>1
<1>4. CASE b \in busy
  <2>1. mem[b] = sz + BLOCK_ALLOCATED
    BY <1>0, <1>4 DEF Tagged, HeaderWord
  <2>2. blk_is_alloc(mem, b) /\ blk_size(mem, b) = sz
    BY <2>1, <1>1, <1>3 DEF blk_size, blk_is_alloc
  <2> QED BY <2>2, <1>4, <1>m DEF blk_magic, sz
<1>5. CASE b \notin busy
  <2>1. mem[b] = sz
    BY <1>0, <1>1, <1>5 DEF Tagged, HeaderWord
  <2>2. ~blk_is_alloc(mem, b) /\ blk_size(mem, b) = sz
    BY <2>1, <1>1, <1>2 DEF blk_size, blk_is_alloc
  <2> QED BY <2>2, <1>5, <1>m DEF blk_magic, sz
<1> QED BY <1>4, <1>5

\* The places the walk comes to exist, and only one way, so that WalkAt is
\* what its definition says.
LEMMA WalkIs ==
  ASSUME NEW hp
  PROVE  /\ WalkAt(hp)[0] = heap_start
         /\ \A n \in Nat : n # 0 => WalkAt(hp)[n] = WalkOn(hp, WalkAt(hp)[n-1])
<1> DEFINE F(v) == WalkOn(hp, v)
           Part(n, w) == /\ w = [i \in 0 .. n |-> w[i]]
                         /\ w[0] = heap_start
                         /\ \A i \in 1 .. n : w[i] = F(w[i-1])
           Rec(w) == [n \in Nat |-> IF n = 0 THEN heap_start ELSE F(w[n-1])]
<1>1. WalkAt(hp) = CHOOSE w : w = Rec(w)
  BY DEF WalkAt
<1> HIDE DEF F
<1>3. \A n \in Nat : \E w : Part(n, w)
  <2> DEFINE Bad == {n \in Nat : ~ \E w : Part(n, w)}
  <2> SUFFICES ASSUME Bad # {} PROVE FALSE
    OBVIOUS
  <2>1. PICK n \in Bad : \A m \in Bad : n <= m
    <3>1. Bad \subseteq Nat
      OBVIOUS
    <3> HIDE DEF Bad
    <3> QED BY <3>1, LeastNumber
  <2>2. CASE n = 0
    <3>1. Part(0, [i \in 0 .. 0 |-> heap_start])
      OBVIOUS
    <3> QED BY <2>1, <2>2, <3>1
  <2>3. CASE n # 0
    <3>1. n \in Nat /\ n - 1 \in Nat /\ n - 1 \notin Bad
      <4>1. Bad \subseteq Nat
        OBVIOUS
      <4> HIDE DEF Bad
      <4>2. n \in Nat /\ n - 1 \in Nat
        BY <2>1, <2>3, <4>1
      <4> QED BY <2>1, <4>2
    <3>2. PICK w : Part(n - 1, w)
      BY <3>1
    <3> DEFINE g == [i \in 0 .. n |-> IF i = n THEN F(w[n-1]) ELSE w[i]]
    <3>3. g = [i \in 0 .. n |-> g[i]]
      OBVIOUS
    <3>4. g[0] = heap_start
      BY <2>3, <3>1, <3>2
    <3>5. ASSUME NEW i \in 1 .. n PROVE g[i] = F(g[i-1])
      <4>1. i - 1 \in 0 .. n - 1 /\ g[i-1] = w[i-1]
        BY <3>1
      <4>2. CASE i = n
        BY <3>1, <4>1, <4>2
      <4>3. CASE i # n
        <5>1. i \in 1 .. n - 1 /\ g[i] = w[i]
          BY <3>1, <4>3
        <5> QED BY <5>1, <4>1, <3>2
      <4> QED BY <4>2, <4>3
    <3>6. Part(n, g)
      BY <3>3, <3>4, <3>5
    <3> QED BY <2>1, <3>6
  <2> QED BY <2>2, <2>3
<1>4. ASSUME NEW m \in Nat, NEW n \in Nat, NEW g, NEW w, Part(m, g), Part(n, w)
      PROVE  \A i \in Nat : i <= m /\ i <= n => g[i] = w[i]
  <2> DEFINE Bad == {i \in Nat : i <= m /\ i <= n /\ g[i] # w[i]}
  <2> SUFFICES ASSUME Bad # {} PROVE FALSE
    OBVIOUS
  <2>1. PICK i \in Bad : \A j \in Bad : i <= j
    <3>1. Bad \subseteq Nat
      OBVIOUS
    <3> HIDE DEF Bad
    <3> QED BY <3>1, LeastNumber
  <2>2. i \in Nat /\ i <= m /\ i <= n /\ g[i] # w[i]
    BY <2>1
  <2>3. i # 0
    BY <1>4, <2>2
  <2>4. i - 1 \in Nat /\ i - 1 \notin Bad /\ i \in 1 .. m /\ i \in 1 .. n
    BY <2>1, <2>2, <2>3
  <2>5. g[i-1] = w[i-1]
    BY <2>2, <2>4
  <2> QED BY <1>4, <2>2, <2>4, <2>5
<1> DEFINE P(n) == CHOOSE w : Part(n, w)
           w0 == [n \in Nat |-> P(n)[n]]
<1>5. \A n \in Nat : Part(n, P(n))
  <2> SUFFICES ASSUME NEW n \in Nat PROVE Part(n, P(n))
    OBVIOUS
  <2>1. \E w : Part(n, w)
    BY <1>3
  <2> HIDE DEF Part
  <2> QED BY <2>1
<1>6. w0 = Rec(w0)
  <2> SUFFICES ASSUME NEW n \in Nat PROVE w0[n] = Rec(w0)[n]
    OBVIOUS
  <2>1. Part(n, P(n))
    BY <1>5
  <2>2. CASE n = 0
    <3>1. P(n)[0] = heap_start
      BY <2>1
    <3> HIDE DEF P
    <3> QED BY <2>2, <3>1
  <2>3. CASE n # 0
    <3>1. n - 1 \in Nat /\ n - 1 <= n /\ n - 1 <= n - 1 /\ n \in 1 .. n
      BY <2>3
    <3>2. Part(n - 1, P(n-1))
      BY <1>5, <3>1
    <3>3. P(n)[n-1] = P(n-1)[n-1]
      <4> HIDE DEF P, Part
      <4>1. \A i \in Nat : i <= n /\ i <= n - 1 => P(n)[i] = P(n-1)[i]
        BY <1>4, <2>1, <3>1, <3>2
      <4> QED BY <4>1, <3>1
    <3>4. P(n)[n] = F(P(n)[n-1])
      <4> HIDE DEF P
      <4> QED BY <2>1, <3>1
    <3> HIDE DEF P
    <3> QED BY <2>3, <3>1, <3>3, <3>4
  <2> QED BY <2>2, <2>3
<1> DEFINE L == WalkAt(hp)
<1>7. L = Rec(L)
  <2> HIDE DEF w0, Rec
  <2> QED BY <1>1, <1>6
<1> HIDE DEF L
<1>8. L[0] = heap_start
  BY <1>7
<1>9. \A n \in Nat : n # 0 => L[n] = F(L[n-1])
  BY <1>7
<1> QED BY <1>8, <1>9 DEF L, F

-----------------------------------------------------------------------------
\* Two blocks have no word in common, and a block has only mapped words.
LEMMA BlockWords ==
  ASSUME NEW mapped, NEW gaps, NEW size, Layout(mapped, gaps, size)
  PROVE  /\ mapped \in Nat /\ mapped <= heap_max_size
         /\ \A b \in DOMAIN size :
              /\ b \in Nat /\ b >= heap_start /\ size[b] \in Nat /\ size[b] >= 8
              /\ size[b] <= heap_max_size
              /\ b + size[b] <= heap_start + mapped
              /\ b + size[b] <= heap_start + heap_max_size
              /\ b # NULL
              /\ \A i \in 0 .. size[b] - 1 : b + i \in Words
         /\ \A b, c \in DOMAIN size : b # c =>
              \A i \in 0 .. size[b] - 1 : \A j \in 0 .. size[c] - 1 : b + i # c + j
         /\ \A b, c \in DOMAIN size : b # c => b + size[b] <= c \/ c + size[c] <= b
BY Constants DEF Layout, End, Words

\* A block does not start where a gap does.
LEMMA NoGapAtBlock ==
  ASSUME NEW flag, NEW hp, NEW size, NEW busy, NEW off, NEW n, NEW L,
         Shape(flag, hp, size, busy, off, n, L), NEW b \in DOMAIN size
  PROVE  GapAt(hp, b) = {}
<1>1. Layout(hp.mapped, hp.gaps, size)
  BY DEF Shape
<1>2. b \in Nat /\ size[b] \in Nat /\ size[b] >= 8
  BY <1>1, BlockWords
<1>3. ASSUME NEW g \in hp.gaps, heap_start + g[1] = b PROVE FALSE
  BY <1>1, <1>2, <1>3, Constants DEF Layout
<1> QED BY <1>3 DEF GapAt

\* The walk goes from a block or gap to where it ends.
LEMMA WalkSteps ==
  ASSUME NEW flag \in BOOLEAN, NEW hp, NEW size, NEW busy, NEW off, NEW n, NEW L,
         Shape(flag, hp, size, busy, off, n, L),
         NEW a, Starts(hp.mapped, hp.gaps, size, a)
  PROVE  /\ a \in Nat /\ a >= heap_start /\ a <= End(hp.mapped)
         /\ Starts(hp.mapped, hp.gaps, size, WalkOn(hp, a))
         /\ a = End(hp.mapped) => WalkOn(hp, a) = a
         /\ a # End(hp.mapped) =>
              /\ a <= End(hp.mapped) - 8
              /\ WalkOn(hp, a) >= a + 8
              /\ \A x : Starts(hp.mapped, hp.gaps, size, x) /\ a < x => WalkOn(hp, a) <= x
<1>1. Layout(hp.mapped, hp.gaps, size) /\ Tags(flag, hp.mem, size, busy)
  BY DEF Shape
<1>2. hp.mapped \in Nat /\ End(hp.mapped) \in Nat /\ End(hp.mapped) >= heap_start
  BY <1>1, BlockWords, Constants DEF End
<1>3. CASE a = End(hp.mapped)
  <2>1. WalkOn(hp, a) = a
    BY <1>2, <1>3, Constants DEF WalkOn, End
  <2> QED BY <2>1, <1>2, <1>3, Constants
<1>4. CASE a \in DOMAIN size
  <2>1. /\ a \in Nat /\ size[a] \in Nat /\ size[a] >= 8 /\ size[a] <= heap_max_size
        /\ a >= heap_start /\ a + size[a] <= End(hp.mapped)
    BY <1>1, <1>4, BlockWords DEF End
  <2>2. blk_size(hp.mem, a) = size[a]
    <3>1. size[a] \in 8 .. heap_max_size
      BY <2>1, Constants
    <3> QED BY <3>1, <1>1, <1>4, TaggedSays
  <2>3. WalkOn(hp, a) = a + size[a]
    BY <2>1, <2>2, <1>2, NoGapAtBlock, <1>4, Constants DEF WalkOn, End
  <2>4. Starts(hp.mapped, hp.gaps, size, a + size[a])
    BY <1>1, <1>4 DEF Layout
  <2>5. ASSUME NEW x, Starts(hp.mapped, hp.gaps, size, x), a < x PROVE a + size[a] <= x
    <3>1. CASE x = End(hp.mapped)
      BY <2>1, <3>1
    <3>2. CASE x \in DOMAIN size
      BY <2>5, <3>2, <1>1, <1>4 DEF Layout
    <3>3. CASE \E g \in hp.gaps : heap_start + g[1] = x
      <4>1. PICK g \in hp.gaps : heap_start + g[1] = x
        BY <3>3
      <4>2. /\ g[1] \in Nat /\ g[2] \in Nat /\ g[1] + 8 <= g[2]
            /\ a + size[a] <= heap_start + g[1] \/ heap_start + g[2] <= a
        BY <4>1, <1>1, <1>4 DEF Layout
      <4> QED BY <4>1, <4>2, <2>1, <2>5, Constants
    <3> QED BY <2>5, <3>1, <3>2, <3>3 DEF Starts
  <2> QED BY <2>1, <2>3, <2>4, <2>5, <1>2
<1>5. CASE \E g \in hp.gaps : heap_start + g[1] = a
  <2>1. PICK g \in hp.gaps : heap_start + g[1] = a
    BY <1>5
  <2>2. /\ g[1] \in Nat /\ g[2] \in Nat /\ g[1] + 8 <= g[2] /\ g[2] <= hp.mapped
        /\ Starts(hp.mapped, hp.gaps, size, heap_start + g[2])
    BY <1>1, <2>1 DEF Layout
  <2>3. ASSUME NEW f \in hp.gaps, heap_start + f[1] = a PROVE f = g
    <3>1. f[1] \in Nat /\ f[2] \in Nat /\ f[1] + 8 <= f[2]
      BY <1>1 DEF Layout
    <3>2. f # g => f[2] <= g[1] \/ g[2] <= f[1]
      BY <1>1 DEF Layout
    <3> QED BY <3>1, <3>2, <2>1, <2>2, <2>3, Constants
  <2>4. GapAt(hp, a) = {g}
    BY <2>1, <2>3 DEF GapAt
  <2>5. WalkOn(hp, a) = heap_start + g[2]
    <3>1. (CHOOSE f \in GapAt(hp, a) : TRUE) = g
      BY <2>4
    <3> QED BY <3>1, <2>1, <2>2, <2>4, <1>2, Constants DEF WalkOn
  <2>6. ASSUME NEW x, Starts(hp.mapped, hp.gaps, size, x), a < x
        PROVE  heap_start + g[2] <= x
    <3>1. CASE x = End(hp.mapped)
      BY <2>2, <3>1, <1>2, Constants DEF End
    <3>2. CASE x \in DOMAIN size
      <4>1. x \in Nat /\ size[x] \in Nat /\ size[x] >= 8
        BY <3>2, <1>1, BlockWords
      <4>2. x + size[x] <= heap_start + g[1] \/ heap_start + g[2] <= x
        BY <3>2, <1>1 DEF Layout
      <4> QED BY <4>1, <4>2, <2>1, <2>2, <2>6, Constants
    <3>3. CASE \E f \in hp.gaps : heap_start + f[1] = x
      <4>1. PICK f \in hp.gaps : heap_start + f[1] = x
        BY <3>3
      <4>2. f[1] \in Nat /\ f[2] \in Nat /\ f[1] + 8 <= f[2]
        BY <1>1 DEF Layout
      <4>3. f # g => f[2] <= g[1] \/ g[2] <= f[1]
        BY <1>1 DEF Layout
      <4> QED BY <4>1, <4>2, <4>3, <2>1, <2>2, <2>6, Constants
    <3> QED BY <2>6, <3>1, <3>2, <3>3 DEF Starts
  <2> QED BY <2>1, <2>2, <2>5, <2>6, <1>2, Constants DEF End
<1> QED BY <1>3, <1>4, <1>5 DEF Starts

\* Every block lies so that MaxBlocks bounds its number.
LEMMA BlockNumber ==
  /\ MaxBlocks = heap_max_size \div 8
  /\ \A a \in Nat : \A i \in Nat :
       a <= heap_start + heap_max_size - 8 /\ a >= heap_start + 8 * i => i <= MaxBlocks - 1
  /\ heap_start + 8 * (MaxBlocks + 1) > heap_start + heap_max_size
BY Constants DEF MaxBlocks, BLOCK_MIN_SIZE, BLOCK_META_SIZE, BLOCK_HEADER_SIZE,
                 BLOCK_FOOTER_SIZE

\* The walk meets every block and ends behind the last mapped word.
LEMMA WalkMeets ==
  ASSUME NEW flag \in BOOLEAN, NEW hp, NEW size, NEW busy, NEW off, NEW n, NEW L,
         Shape(flag, hp, size, busy, off, n, L)
  PROVE  /\ WalkAt(hp)[MaxBlocks + 1] = End(hp.mapped)
         /\ { a \in { WalkAt(hp)[i] : i \in 0 .. MaxBlocks } :
                a < heap_start + hp.mapped /\ GapAt(hp, a) = {} } = DOMAIN size
<1> DEFINE at == WalkAt(hp)
           S(x) == Starts(hp.mapped, hp.gaps, size, x)
           W(x) == WalkOn(hp, x)
           e == End(hp.mapped)
<1>0. Layout(hp.mapped, hp.gaps, size)
  BY DEF Shape
<1>1. S(heap_start) /\ S(e) /\ \A b \in DOMAIN size : S(b)
  BY <1>0 DEF Layout, Starts
<1>2. at[0] = heap_start /\ \A i \in Nat : at[i+1] = W(at[i])
  <2>1. \A i \in Nat : i + 1 \in Nat /\ i + 1 # 0 /\ (i + 1) - 1 = i
    OBVIOUS
  <2> QED BY WalkIs, <2>1
<1>3. \A a : S(a) => /\ a \in Nat /\ a >= heap_start /\ a <= e
                     /\ S(W(a))
                     /\ a = e => W(a) = a
                     /\ a # e => a <= e - 8 /\ W(a) >= a + 8
                     /\ a # e => \A x : S(x) /\ a < x => W(a) <= x
  BY WalkSteps
<1>4. e \in Nat /\ e <= heap_start + heap_max_size /\ e = heap_start + hp.mapped /\ e >= heap_start
  BY <1>0, BlockWords, Constants DEF End
<1>b. \A b \in DOMAIN size : b < e
  BY <1>0, BlockWords, <1>4
<1>m. MaxBlocks \in Nat /\ heap_start \in Nat /\ heap_max_size \in Nat
  BY Constants
<1> HIDE DEF at, S, W, e
<1>5. \A i \in Nat : S(at[i]) /\ (at[i] = e \/ at[i] >= heap_start + 8 * i)
  <2> DEFINE Bad == {i \in Nat : ~ (S(at[i]) /\ (at[i] = e \/ at[i] >= heap_start + 8 * i))}
  <2> SUFFICES ASSUME Bad # {} PROVE FALSE
    OBVIOUS
  <2>1. PICK i \in Bad : \A j \in Bad : i <= j
    <3>1. Bad \subseteq Nat
      OBVIOUS
    <3> HIDE DEF Bad
    <3> QED BY <3>1, LeastNumber
  <2>2. CASE i = 0
    BY <2>1, <2>2, <1>1, <1>2, <1>m
  <2>3. CASE i # 0
    <3>1. i - 1 \in Nat /\ i - 1 \notin Bad /\ (i - 1) + 1 = i
      BY <2>1, <2>3
    <3>2. S(at[i-1]) /\ (at[i-1] = e \/ at[i-1] >= heap_start + 8 * (i - 1))
      BY <3>1
    <3>3. at[i] = W(at[i-1])
      BY <3>1, <1>2
    <3>4. S(at[i])
      BY <3>2, <3>3, <1>3
    <3>5. at[i] = e \/ at[i] >= heap_start + 8 * i
      <4>1. CASE at[i-1] = e
        BY <3>2, <3>3, <4>1, <1>3
      <4>2. CASE at[i-1] # e
        <5>1. at[i] >= at[i-1] + 8 /\ at[i-1] \in Nat /\ at[i] \in Nat
          BY <3>2, <3>3, <3>4, <4>2, <1>3
        <5> QED BY <5>1, <3>1, <3>2, <4>2, <1>m
      <4> QED BY <4>1, <4>2
    <3> QED BY <2>1, <3>4, <3>5
  <2> QED BY <2>2, <2>3
<1>6. at[MaxBlocks + 1] = e
  <2>1. MaxBlocks + 1 \in Nat
    BY <1>m
  <2>2. S(at[MaxBlocks+1]) /\ (at[MaxBlocks+1] = e \/ at[MaxBlocks+1] >= heap_start + 8 * (MaxBlocks + 1))
    BY <2>1, <1>5
  <2> QED BY <2>2, <1>3, <1>4, <1>m, BlockNumber
<1>7. ASSUME NEW b \in DOMAIN size PROVE \E i \in 0 .. MaxBlocks : at[i] = b
  <2> DEFINE D == {d \in Nat : \E i \in Nat : at[i] <= b /\ d = b - at[i]}
  <2>1. S(b) /\ b \in Nat /\ b >= heap_start
    BY <1>1, <1>3
  <2>2. b - heap_start \in D
    <3>1. b - heap_start \in Nat
      BY <2>1, <1>m
    <3> QED BY <3>1, <2>1, <1>2
  <2>3. PICK d \in D : \A x \in D : d <= x
    <3>1. D \subseteq Nat
      OBVIOUS
    <3> HIDE DEF D
    <3> QED BY <3>1, <2>2, LeastNumber
  <2>4. PICK i \in Nat : at[i] <= b /\ d = b - at[i]
    BY <2>3
  <2>5. S(at[i]) /\ at[i] \in Nat
    BY <1>5, <1>3
  <2>6. at[i] = b
    <3> SUFFICES ASSUME at[i] # b PROVE FALSE
      OBVIOUS
    <3>1. at[i] < b /\ at[i] # e
      BY <2>1, <2>4, <2>5, <1>3
    <3>2. at[i+1] <= b /\ at[i+1] >= at[i] + 8 /\ at[i+1] \in Nat
      BY <3>1, <2>1, <2>5, <1>2, <1>3
    <3>3. b - at[i+1] \in D
      <4>1. b - at[i+1] \in Nat /\ i + 1 \in Nat
        BY <3>2, <2>1
      <4> QED BY <4>1, <3>2
    <3>4. d <= b - at[i+1]
      BY <2>3, <3>3
    <3> QED BY <3>4, <3>2, <2>4, <2>5, <2>1
  <2>7. i <= MaxBlocks
    <3>1. b # e /\ b <= e - 8
      BY <1>b, <2>1, <1>3, <1>4
    <3>2. at[i] >= heap_start + 8 * i
      BY <1>5, <2>6, <3>1
    <3>3. i <= MaxBlocks - 1
      BY <3>1, <3>2, <2>6, <2>1, <1>4, <1>m, BlockNumber
    <3> QED BY <3>3, <1>m
  <2>8. i \in 0 .. MaxBlocks
    BY <2>7, <1>m
  <2> QED BY <2>6, <2>8
<1>8. ASSUME NEW i \in 0 .. MaxBlocks, at[i] < e, GapAt(hp, at[i]) = {}
      PROVE  at[i] \in DOMAIN size
  <2>1. i \in Nat
    BY <1>m
  <2>2. S(at[i]) /\ at[i] # e
    BY <2>1, <1>5, <1>8, <1>3, <1>4
  <2> QED BY <2>2, <1>8 DEF S, Starts, GapAt, e
<1>9. ASSUME NEW b \in DOMAIN size PROVE GapAt(hp, b) = {}
  BY NoGapAtBlock
<1>10. { a \in { at[i] : i \in 0 .. MaxBlocks } :
                a < e /\ GapAt(hp, a) = {} } = DOMAIN size
  BY <1>7, <1>8, <1>9, <1>b
<1> QED BY <1>6, <1>10, <1>4 DEF at, e

\* Along the next pointers the blocks of L follow each other.
LEMMA ChainMeets ==
  ASSUME NEW mem, NEW head, NEW n \in Nat, NEW L, Links(mem, head, n, L),
         \A i \in 1 .. n : L[i] # NULL
  PROVE  \A j \in Nat : ChainAt(mem, head)[j] = IF j < n THEN L[j + 1] ELSE NULL
<1> DEFINE Rec(w) == [i \in Nat |->
                        IF i = 0 THEN head
                        ELSE IF w[i - 1] = NULL THEN NULL ELSE blk_next_free(mem, w[i - 1])]
           w0 == [j \in Nat |-> IF j < n THEN L[j + 1] ELSE NULL]
           at == ChainAt(mem, head)
<1>1. at = CHOOSE w : w = Rec(w)
  BY DEF ChainAt
<1>2. \A j \in Nat : w0[j] = Rec(w0)[j]
  <2> SUFFICES ASSUME NEW j \in Nat PROVE w0[j] = Rec(w0)[j]
    OBVIOUS
  <2>1. CASE j = 0
    BY <2>1 DEF Links
  <2>2. CASE j # 0 /\ j - 1 >= n
    BY <2>2
  <2>3. CASE j # 0 /\ j - 1 < n
    <3>1. j - 1 \in Nat /\ (j - 1) + 1 = j /\ j \in 1 .. n
      BY <2>3
    <3>2. w0[j - 1] = L[j] /\ L[j] # NULL
      BY <3>1, <2>3
    <3>3. mem[L[j] + 2] = IF j = n THEN NULL ELSE L[j + 1]
      BY <3>1 DEF Links
    <3>4. Rec(w0)[j] = mem[L[j] + 2]
      BY <3>2, <2>3 DEF blk_next_free
    <3> QED BY <3>1, <3>3, <3>4
  <2> QED BY <2>1, <2>2, <2>3
<1>3. w0 = Rec(w0)
  <2>1. w0 = [j \in Nat |-> w0[j]] /\ Rec(w0) = [j \in Nat |-> Rec(w0)[j]]
    OBVIOUS
  <2> HIDE DEF w0, Rec
  <2> QED BY <2>1, <1>2
<1>4. at = Rec(at)
  <2> HIDE DEF w0, Rec, at
  <2> QED BY <1>1, <1>3
<1> HIDE DEF at
<1>5. at[0] = head
  BY <1>4
<1>6. \A j \in Nat : j # 0 =>
        at[j] = IF at[j - 1] = NULL THEN NULL ELSE mem[at[j - 1] + 2]
  BY <1>4 DEF blk_next_free
<1> DEFINE Bad == {j \in Nat : at[j] # IF j < n THEN L[j + 1] ELSE NULL}
<1> SUFFICES ASSUME Bad # {} PROVE FALSE
  BY DEF at
<1>7. PICK j \in Bad : \A k \in Bad : j <= k
  <2>1. Bad \subseteq Nat
    OBVIOUS
  <2> HIDE DEF Bad
  <2> QED BY <2>1, LeastNumber
<1>8. j # 0
  BY <1>5, <1>7 DEF Links
<1>9. j - 1 \in Nat /\ j - 1 \notin Bad /\ (j - 1) + 1 = j /\ j \in Nat
  BY <1>7, <1>8
<1>10. at[j - 1] = IF j - 1 < n THEN L[j] ELSE NULL
  BY <1>9
<1>11. at[j] = IF at[j - 1] = NULL THEN NULL ELSE mem[at[j - 1] + 2]
  BY <1>6, <1>8, <1>9
<1>12. CASE j - 1 >= n
  BY <1>7, <1>9, <1>10, <1>11, <1>12
<1>13. CASE j - 1 < n
  <2>1. j \in 1 .. n
    BY <1>9, <1>13
  <2>2. at[j] = IF j = n THEN NULL ELSE L[j + 1]
    BY <2>1, <1>10, <1>11, <1>13 DEF Links
  <2> QED BY <2>1, <2>2, <1>7
<1> QED BY <1>9, <1>12, <1>13

\* A list of distinct blocks is no longer than MaxBlocks.
LEMMA ChainBound ==
  ASSUME NEW mapped, NEW gaps, NEW size, Layout(mapped, gaps, size),
         NEW busy, NEW off, NEW n, NEW L, Offers(size, busy, off, n, L)
  PROVE  n <= MaxBlocks
<1> DEFINE f == [i \in 1 .. n |-> (L[i] - heap_start) \div 8]
<1>1. n \in Nat /\ heap_start \in Nat /\ heap_max_size \in Nat /\ MaxBlocks \in Nat
      /\ MaxBlocks = heap_max_size \div 8
  BY Constants, BlockNumber DEF Offers
<1>2. \A i \in 1 .. n : /\ L[i] \in Nat /\ L[i] >= heap_start
                        /\ L[i] <= heap_start + heap_max_size - 8
  BY BlockWords, <1>1 DEF Offers
<1>3. \A i \in 1 .. n : f[i] \in 0 .. MaxBlocks - 1
  BY <1>1, <1>2
<1>4. \A i, j \in 1 .. n : f[i] = f[j] => i = j
  <2> SUFFICES ASSUME NEW i \in 1 .. n, NEW j \in 1 .. n, f[i] = f[j], i # j PROVE FALSE
    OBVIOUS
  <2>1. L[i] # L[j] /\ L[i] \in DOMAIN size /\ L[j] \in DOMAIN size
    BY DEF Offers
  <2>2. L[i] + 8 <= L[j] \/ L[j] + 8 <= L[i]
    BY <2>1, BlockWords
  <2> QED BY <2>2, <1>1, <1>2
<1>5. f \in Injection(1 .. n, 0 .. MaxBlocks - 1)
  <2> HIDE DEF f
  <2>1. f = [i \in 1 .. n |-> f[i]]
    BY DEF f
  <2> QED BY <2>1, <1>3, <1>4 DEF Injection, IsInjective
<1>6. IsFiniteSet(0 .. MaxBlocks - 1) /\ Cardinality(0 .. MaxBlocks - 1) = MaxBlocks
  BY <1>1, FS_Interval
<1>7. Cardinality(1 .. n) <= MaxBlocks
  <2> HIDE DEF f
  <2> QED BY <1>5, <1>6, FS_Injection
<1>8. Cardinality(1 .. n) = n
  BY <1>1, FS_Interval
<1> QED BY <1>7, <1>8

\* first_fit and Seen follow the list L.
LEMMA ChainIs ==
  ASSUME NEW flag \in BOOLEAN, NEW hp, NEW size, NEW busy, NEW off, NEW n, NEW L,
         Shape(flag, hp, size, busy, off, n, L)
  PROVE  ChainFrom(hp.mem, hp.head, MaxBlocks + 1) = L
<1>1. /\ Layout(hp.mapped, hp.gaps, size) /\ Offers(size, busy, off, n, L)
      /\ Links(hp.mem, hp.head, n, L)
  BY DEF Shape
<1>2. n \in Nat /\ n <= MaxBlocks /\ MaxBlocks \in Nat
  <2>1. n <= MaxBlocks
    BY <1>1, ChainBound
  <2> QED BY <2>1, <1>1, Constants DEF Offers
<1>9. L = [i \in 1 .. n |-> L[i]]
  BY <1>1 DEF Offers
<1>3. \A i \in 1 .. n : L[i] # NULL
  BY <1>1, BlockWords DEF Offers
<1> DEFINE at == ChainAt(hp.mem, hp.head)
<1>4. \A j \in Nat : at[j] = IF j < n THEN L[j + 1] ELSE NULL
  <2>1. n \in Nat /\ Links(hp.mem, hp.head, n, L)
    BY <1>1, <1>2
  <2> QED BY <2>1, <1>3, ChainMeets
<1> HIDE DEF at
<1>5. { j \in 0 .. (MaxBlocks + 1) - 1 : at[j] # NULL } = 0 .. n - 1
  <2>1. ASSUME NEW j \in 0 .. (MaxBlocks + 1) - 1 PROVE at[j] # NULL <=> j < n
    <3>1. j \in Nat /\ j + 1 \in Nat
      BY <1>2
    <3>2. j < n => j + 1 \in 1 .. n
      BY <3>1, <1>2
    <3> QED BY <3>1, <3>2, <1>3, <1>4
  <2> QED BY <2>1, <1>2
<1>6. Cardinality(0 .. n - 1) = n
  BY <1>2, FS_Interval
<1>7. \A i \in 1 .. n : at[i - 1] = L[i]
  BY <1>2, <1>4
<1>8. ChainFrom(hp.mem, hp.head, MaxBlocks + 1) = [i \in 1 .. n |-> at[i - 1]]
  BY <1>5, <1>6 DEF ChainFrom, at
<1> QED BY <1>7, <1>8, <1>9

\* What Seen finds are the blocks of size.
LEMMA SeenIs ==
  ASSUME NEW flag \in BOOLEAN, NEW hp, NEW size, NEW busy, NEW n, NEW L,
         Shape(flag, hp, size, busy, {}, n, L)
  PROVE  Seen(hp) = [busy |-> busy, free |-> DOMAIN size \ busy,
                     end |-> End(hp.mapped), list |-> L]
<1>1. /\ Layout(hp.mapped, hp.gaps, size) /\ Offers(size, busy, {}, n, L)
      /\ Tags(flag, hp.mem, size, busy)
  BY DEF Shape
<1> DEFINE at == WalkAt(hp)
           blocks == { a \in { at[i] : i \in 0 .. MaxBlocks } :
                         a < heap_start + hp.mapped /\ GapAt(hp, a) = {} }
<1>2. blocks = DOMAIN size /\ at[MaxBlocks + 1] = End(hp.mapped)
  BY WalkMeets
<1>3. { b \in DOMAIN size : blk_is_alloc(hp.mem, b) } = busy
  <2>1. ASSUME NEW b \in DOMAIN size PROVE blk_is_alloc(hp.mem, b) <=> b \in busy
    <3>1. size[b] \in 8 .. heap_max_size
      BY <1>1, BlockWords, Constants
    <3> QED BY <3>1, <1>1, TaggedSays
  <2>2. busy \subseteq DOMAIN size
    BY <1>1 DEF Offers
  <2> QED BY <2>1, <2>2
<1>4. ChainFrom(hp.mem, hp.head, MaxBlocks + 1) = L
  BY ChainIs
<1>5. Seen(hp) = [busy |-> { b \in blocks : blk_is_alloc(hp.mem, b) },
                  free |-> blocks \ { b \in blocks : blk_is_alloc(hp.mem, b) },
                  end |-> at[MaxBlocks + 1],
                  list |-> ChainFrom(hp.mem, hp.head, MaxBlocks + 1)]
  BY DEF Seen
<1> HIDE DEF blocks, at
<1> QED BY <1>2, <1>3, <1>4, <1>5

\* first_fit returns a free block that is large enough, or NULL.
LEMMA FirstFits ==
  ASSUME NEW flag \in BOOLEAN, NEW hp, NEW size, NEW busy, NEW n, NEW L,
         Shape(flag, hp, size, busy, {}, n, L), NEW total,
         first_fit(hp, total) # NULL
  PROVE  \E i \in 1 .. n : first_fit(hp, total) = L[i] /\ size[L[i]] >= total
<1>1. /\ Layout(hp.mapped, hp.gaps, size) /\ Offers(size, busy, {}, n, L)
      /\ Tags(flag, hp.mem, size, busy)
  BY DEF Shape
<1> DEFINE list == ChainFrom(hp.mem, hp.head, MaxBlocks + 1)
           fits == { i \in DOMAIN list : blk_size(hp.mem, list[i]) >= total }
<1>2. list = L
  BY ChainIs
<1>3. first_fit(hp, total) = IF fits = {} THEN NULL
                             ELSE list[CHOOSE i \in fits : \A m \in fits : i <= m]
  BY DEF first_fit
<1> HIDE DEF list
<1>4. DOMAIN L = 1 .. n /\ n \in Nat
  BY <1>1 DEF Offers
<1>5. fits # {} /\ fits \subseteq Nat
  BY <1>2, <1>3, <1>4
<1>6. \E i \in fits : \A m \in fits : i <= m
  <2> HIDE DEF fits
  <2> QED BY <1>5, LeastNumber
<1>7. PICK i \in fits : first_fit(hp, total) = L[i]
  <2> DEFINE i == CHOOSE i \in fits : \A m \in fits : i <= m
  <2>1. i \in fits
    <3> HIDE DEF fits
    <3> QED BY <1>6
  <2> QED BY <2>1, <1>2, <1>3, <1>5
<1>8. i \in 1 .. n /\ L[i] \in DOMAIN size
  BY <1>2, <1>4, <1>1 DEF Offers
<1>9. size[L[i]] \in 8 .. heap_max_size
  BY <1>1, <1>8, BlockWords, Constants
<1>10. blk_size(hp.mem, L[i]) = size[L[i]]
  BY <1>1, <1>8, <1>9, TaggedSays
<1> QED BY <1>2, <1>7, <1>8, <1>10

-----------------------------------------------------------------------------
\* The words of the block at d that are not its links.
Fixed(size, d) == {d, d + 3} \cup d + 4 .. d + size[d] - 1

\* Words change in blocks only.
InBlocks(mem, mem2, size) ==
  \A a \in Words : mem2[a] # mem[a] => \E d \in DOMAIN size : d <= a /\ a < d + size[d]

\* The payload of a busy block keeps its words.
Untouched(mem, mem2, size, busy) ==
  \A b \in busy : \A a \in b + 4 .. b + size[b] - 3 : mem2[a] = mem[a]

\* A step of an operation: nothing but blocks and the head of the list changes.
Quiet(hp, hq) ==
  hq.mapped = hp.mapped /\ hq.gaps = hp.gaps /\ hq.frames = hp.frames

LEMMA LinkWords ==
  ASSUME NEW mapped, NEW gaps, NEW size, Layout(mapped, gaps, size)
  PROVE  /\ \A b \in DOMAIN size : /\ b + 1 \in Words /\ b + 2 \in Words
                                   /\ b + 1 \in Int /\ b + 2 \in Int
                                   /\ b <= b + 1 /\ b + 1 < b + size[b]
                                   /\ b <= b + 2 /\ b + 2 < b + size[b]
         /\ \A b, c \in DOMAIN size : b + 1 # c + 2
         /\ \A b, c \in DOMAIN size : b # c => b + 1 # c + 1 /\ b + 2 # c + 2
         /\ \A b, c \in DOMAIN size : \A a \in Fixed(size, c) : a # b + 1 /\ a # b + 2
         /\ \A b \in DOMAIN size : Fixed(size, b) \subseteq Words
<1>1. \A b \in DOMAIN size :
        /\ b \in Nat /\ b >= heap_start /\ size[b] \in Nat /\ size[b] >= 8
        /\ b + size[b] <= heap_start + heap_max_size
  BY BlockWords
<1>2. \A b, c \in DOMAIN size : b # c => b + size[b] <= c \/ c + size[c] <= b
  BY BlockWords
<1>3. ASSUME NEW b \in DOMAIN size
      PROVE  /\ b + 1 \in Words /\ b + 2 \in Words
             /\ b + 1 \in Int /\ b + 2 \in Int
             /\ b <= b + 1 /\ b + 1 < b + size[b]
             /\ b <= b + 2 /\ b + 2 < b + size[b]
  BY <1>1, Constants DEF Words
<1>4. ASSUME NEW b \in DOMAIN size, NEW c \in DOMAIN size
      PROVE  b + 1 # c + 2 /\ (b # c => b + 1 # c + 1 /\ b + 2 # c + 2)
  BY <1>1, <1>2
<1>5. ASSUME NEW b \in DOMAIN size, NEW c \in DOMAIN size, NEW a \in Fixed(size, c)
      PROVE  a # b + 1 /\ a # b + 2
  <2>1. b \in Nat /\ c \in Nat /\ size[b] \in Nat /\ size[c] \in Nat /\ size[b] >= 8 /\ size[c] >= 8
    BY <1>1
  <2>2. a \in Nat /\ a >= c /\ a < c + size[c] /\ a # c + 1 /\ a # c + 2
    BY <2>1 DEF Fixed
  <2>3. b = c \/ b + size[b] <= c \/ c + size[c] <= b
    BY <1>2
  <2> QED BY <2>1, <2>2, <2>3
<1>6. ASSUME NEW b \in DOMAIN size PROVE Fixed(size, b) \subseteq Words
  BY <1>1, Constants DEF Fixed, Words
<1> QED BY <1>3, <1>4, <1>5, <1>6

\* Blocks whose words other than the links stay keep their tags and payload.
LEMMA FixedKept ==
  ASSUME NEW mapped, NEW gaps, NEW size, Layout(mapped, gaps, size),
         NEW flag, NEW mem, NEW busy, busy \subseteq DOMAIN size, Tags(flag, mem, size, busy),
         NEW mem2, \A b \in DOMAIN size : \A a \in Fixed(size, b) : mem2[a] = mem[a]
  PROVE  Tags(flag, mem2, size, busy) /\ Untouched(mem, mem2, size, busy)
<1>1. \A b \in DOMAIN size : b \in Nat /\ size[b] \in Nat /\ size[b] >= 8
  BY BlockWords
<1>2. ASSUME NEW b \in DOMAIN size
      PROVE  Tagged(flag, mem2, b, size[b], b \in busy)
  <2>1. b \in Fixed(size, b) /\ b + 3 \in Fixed(size, b)
        /\ b + size[b] - 2 \in Fixed(size, b) /\ b + size[b] - 1 \in Fixed(size, b)
    BY <1>1 DEF Fixed
  <2>2. mem2[b] = mem[b] /\ mem2[b+3] = mem[b+3]
        /\ mem2[b + size[b] - 2] = mem[b + size[b] - 2]
        /\ mem2[b + size[b] - 1] = mem[b + size[b] - 1]
    BY <2>1
  <2> QED BY <2>2 DEF Tags, Tagged
<1>3. ASSUME NEW b \in busy, NEW a \in b + 4 .. b + size[b] - 3
      PROVE  mem2[a] = mem[a]
  BY <1>1 DEF Fixed
<1> QED BY <1>2, <1>3 DEF Tags, Untouched

\* Stores into blocks leave the blank words blank.
LEMMA BlankKept ==
  ASSUME NEW mapped, NEW gaps, NEW size, Layout(mapped, gaps, size),
         NEW mem, NEW mem2, Blank(mem, mapped, gaps), InBlocks(mem, mem2, size)
  PROVE  Blank(mem2, mapped, gaps)
<1>1. \A b \in DOMAIN size : b \in Nat /\ size[b] \in Nat /\ b + size[b] <= End(mapped)
  BY BlockWords DEF End
<1>2. mapped \in Nat /\ mapped <= heap_max_size /\ End(mapped) \in Nat
  BY BlockWords, Constants DEF End
<1>3. ASSUME NEW a \in Words, a >= End(mapped) PROVE mem2[a] = 0
  <2>1. a \in Nat
    BY Constants DEF Words
  <2> QED BY <2>1, <1>1, <1>2, <1>3 DEF Blank, InBlocks
<1>4. ASSUME NEW g \in gaps, NEW a \in heap_start + g[1] .. heap_start + g[2] - 1
      PROVE  mem2[a] = 0
  <2>1. g[1] \in Nat /\ g[2] \in Nat /\ g[1] + 8 <= g[2] /\ g[2] <= mapped
    BY DEF Layout
  <2>2. a \in Words /\ a \in Nat
    BY <2>1, <1>2, Constants DEF Words
  <2>3. \A b \in DOMAIN size : b + size[b] <= heap_start + g[1] \/ heap_start + g[2] <= b
    BY DEF Layout
  <2>4. mem[a] = 0
    BY DEF Blank
  <2> QED BY <2>1, <2>2, <2>3, <2>4, <1>1, Constants DEF InBlocks
<1> QED BY <1>3, <1>4 DEF Blank

-----------------------------------------------------------------------------
\* What list_remove stores: b leaves the list between p and x.
Removed(hp, hq, b, p, x) ==
  /\ IsHeap(hq) /\ Quiet(hp, hq)
  /\ hq.head = IF p = NULL THEN x ELSE hp.head
  /\ hq.mem[b + 1] = NULL /\ hq.mem[b + 2] = NULL
  /\ p # NULL /\ p + 2 \notin {b + 1, b + 2} /\ (x = NULL \/ x + 1 # p + 2) =>
       hq.mem[p + 2] = x
  /\ x # NULL /\ x + 1 \notin {b + 1, b + 2} => hq.mem[x + 1] = p
  /\ \A a \in Words :
       a \notin {b + 1, b + 2} /\ (p = NULL \/ a # p + 2) /\ (x = NULL \/ a # x + 1)
         => hq.mem[a] = hp.mem[a]

LEMMA RemoveWords ==
  ASSUME NEW hp, IsHeap(hp), NEW b \in Int, NEW p \in Int, NEW x \in Int,
         b + 1 \in Words, b + 2 \in Words, hp.mem[b + 1] = p, hp.mem[b + 2] = x,
         p = NULL \/ p + 2 \in Words, x = NULL \/ x + 1 \in Words,
         NEW hq, hq = list_remove(hp, b)
  PROVE  Removed(hp, hq, b, p, x)
<1> DEFINE m1 == set_next(hp.mem, p, x)
           m2 == set_prev(m1, x, p)
           m3 == [m2 EXCEPT ![b + 1] = NULL, ![b + 2] = NULL]
<1>1. hq = [hp EXCEPT !.mem = m3, !.head = IF p = NULL THEN x ELSE @]
  BY DEF list_remove, blk_prev_free, blk_next_free
<1>0. hp.mem \in [Words -> Int] /\ NULL = 0 /\ NULL \in Int
  BY Constants DEF IsHeap
<1>2. /\ m1 \in [Words -> Int]
      /\ p # NULL => m1[p + 2] = x
      /\ \A a \in Words : p = NULL \/ a # p + 2 => m1[a] = hp.mem[a]
  BY <1>0 DEF set_next
<1> HIDE DEF m1
<1>3. /\ m2 \in [Words -> Int]
      /\ x # NULL => m2[x + 1] = p
      /\ \A a \in Words : x = NULL \/ a # x + 1 => m2[a] = m1[a]
  BY <1>2 DEF set_prev
<1> HIDE DEF m2
<1>4. /\ m3 \in [Words -> Int]
      /\ m3[b + 1] = NULL /\ m3[b + 2] = NULL
      /\ \A a \in Words : a \notin {b + 1, b + 2} => m3[a] = m2[a]
  BY <1>3, <1>0
<1> HIDE DEF m3
<1>5. /\ hq = [mem |-> m3, mapped |-> hp.mapped, head |-> IF p = NULL THEN x ELSE hp.head,
               allocated |-> hp.allocated, frames |-> hp.frames, gaps |-> hp.gaps]
      /\ hp.frames \in Nat /\ hp.allocated \in Int
  BY <1>1 DEF IsHeap
<1>6. IsHeap(hq) /\ Quiet(hp, hq) /\ hq.mem = m3
      /\ hq.head = IF p = NULL THEN x ELSE hp.head
  BY <1>5, <1>4 DEF IsHeap, Quiet
<1> QED BY <1>2, <1>3, <1>4, <1>6 DEF Removed

\* What list_insert_head stores.
Inserted(hp, hq, b) ==
  /\ IsHeap(hq) /\ Quiet(hp, hq) /\ hq.head = b
  /\ hp.head = NULL \/ hp.head + 1 # b + 1 => hq.mem[b + 1] = NULL
  /\ hp.head = NULL \/ hp.head + 1 # b + 2 => hq.mem[b + 2] = hp.head
  /\ hp.head # NULL => hq.mem[hp.head + 1] = b
  /\ \A a \in Words :
       a \notin {b + 1, b + 2} /\ (hp.head = NULL \/ a # hp.head + 1)
         => hq.mem[a] = hp.mem[a]

LEMMA InsertWords ==
  ASSUME NEW hp, IsHeap(hp), NEW b \in Int, hp.head \in Int,
         b + 1 \in Words, b + 2 \in Words, hp.head = NULL \/ hp.head + 1 \in Words,
         NEW hq, hq = list_insert_head(hp, b)
  PROVE  Inserted(hp, hq, b)
<1> DEFINE m1 == [hp.mem EXCEPT ![b + 1] = NULL, ![b + 2] = hp.head]
           m2 == set_prev(m1, hp.head, b)
<1>1. hq = [hp EXCEPT !.mem = m2, !.head = b]
  BY DEF list_insert_head
<1>0. hp.mem \in [Words -> Int] /\ NULL = 0 /\ NULL \in Int /\ b + 1 # b + 2
  BY Constants DEF IsHeap
<1>2. /\ m1 \in [Words -> Int]
      /\ m1[b + 1] = NULL /\ m1[b + 2] = hp.head
      /\ \A a \in Words : a \notin {b + 1, b + 2} => m1[a] = hp.mem[a]
  BY <1>0
<1> HIDE DEF m1
<1>3. /\ m2 \in [Words -> Int]
      /\ hp.head # NULL => m2[hp.head + 1] = b
      /\ \A a \in Words : hp.head = NULL \/ a # hp.head + 1 => m2[a] = m1[a]
  BY <1>2 DEF set_prev
<1> HIDE DEF m2
<1>5. /\ hq = [mem |-> m2, mapped |-> hp.mapped, head |-> b,
               allocated |-> hp.allocated, frames |-> hp.frames, gaps |-> hp.gaps]
      /\ hp.frames \in Nat /\ hp.allocated \in Int
  BY <1>1 DEF IsHeap
<1>6. IsHeap(hq) /\ Quiet(hp, hq) /\ hq.mem = m2 /\ hq.head = b
  BY <1>5, <1>3 DEF IsHeap, Quiet
<1> QED BY <1>2, <1>3, <1>6 DEF Inserted

\* What set_block stores, for a free and for an allocated block.
StoredFree(mem, b, sz) == set_block(mem, b, sz, FALSE)

StoredBusy(mem, b, sz) == set_block(mem, b, sz, TRUE)

FreeTag(mem, b, sz) ==
  /\ mem[b] = sz /\ mem[b + 3] = MAGIC_VALUE
  /\ mem[b + sz - 2] = sz /\ mem[b + sz - 1] = MAGIC_VALUE

BusyTag(mem, b, sz) ==
  /\ mem[b] = sz + BLOCK_ALLOCATED /\ mem[b + 3] = MAGIC_VALUE
  /\ mem[b + sz - 2] = (IF FooterHoldsFlag THEN sz + BLOCK_ALLOCATED ELSE sz)
  /\ mem[b + sz - 1] = MAGIC_VALUE

LEMMA SetBlockFree ==
  ASSUME NEW mem \in [Words -> Int], NEW b \in Nat, NEW sz \in Nat,
         b >= heap_start, sz >= 8, b + sz <= heap_start + heap_max_size,
         NEW mem2, mem2 = StoredFree(mem, b, sz)
  PROVE  /\ mem2 \in [Words -> Int]
         /\ FreeTag(mem2, b, sz)
         /\ \A a \in Words : a \notin {b, b + 3, b + sz - 2, b + sz - 1} => mem2[a] = mem[a]
         /\ \A a \in Words : a < b \/ a >= b + sz => mem2[a] = mem[a]
<1>1. b \in Words /\ b + 3 \in Words /\ b + sz - 2 \in Words /\ b + sz - 1 \in Words
  BY Constants DEF Words
<1> DEFINE word == sz
           foot == sz
<1>2. word \in Int /\ foot \in Int /\ MAGIC_VALUE \in Int
  BY Constants
<1>3. mem2 = [mem EXCEPT ![b] = word, ![b + 3] = MAGIC_VALUE, ![b + sz - 2] = foot,
                         ![b + sz - 1] = MAGIC_VALUE]
  BY Constants DEF StoredFree, set_block
<1> HIDE DEF word, foot
<1>4. /\ mem2 \in [Words -> Int]
      /\ mem2[b] = word /\ mem2[b + 3] = MAGIC_VALUE /\ mem2[b + sz - 2] = foot
      /\ mem2[b + sz - 1] = MAGIC_VALUE
      /\ \A a \in Words : a \notin {b, b + 3, b + sz - 2, b + sz - 1} => mem2[a] = mem[a]
  BY <1>1, <1>2, <1>3
<1>5. ASSUME NEW a \in Words, a < b \/ a >= b + sz
      PROVE  a \notin {b, b + 3, b + sz - 2, b + sz - 1}
  BY <1>5, Constants DEF Words
<1> QED BY <1>4, <1>5 DEF FreeTag, word, foot

LEMMA SetBlockBusy ==
  ASSUME NEW mem \in [Words -> Int], NEW b \in Nat, NEW sz \in Nat,
         b >= heap_start, sz >= 8, b + sz <= heap_start + heap_max_size,
         NEW mem2, mem2 = StoredBusy(mem, b, sz)
  PROVE  /\ mem2 \in [Words -> Int]
         /\ BusyTag(mem2, b, sz)
         /\ \A a \in Words : a \notin {b, b + 3, b + sz - 2, b + sz - 1} => mem2[a] = mem[a]
         /\ \A a \in Words : a < b \/ a >= b + sz => mem2[a] = mem[a]
<1>1. b \in Words /\ b + 3 \in Words /\ b + sz - 2 \in Words /\ b + sz - 1 \in Words
  BY Constants DEF Words
<1> DEFINE word == sz + BLOCK_ALLOCATED
           foot == IF FooterHoldsFlag THEN sz + BLOCK_ALLOCATED ELSE sz
<1>2. word \in Int /\ foot \in Int /\ MAGIC_VALUE \in Int
  BY Constants
<1>3. mem2 = [mem EXCEPT ![b] = word, ![b + 3] = MAGIC_VALUE, ![b + sz - 2] = foot,
                         ![b + sz - 1] = MAGIC_VALUE]
  BY Constants DEF StoredBusy, set_block
<1> HIDE DEF word, foot
<1>4. /\ mem2 \in [Words -> Int]
      /\ mem2[b] = word /\ mem2[b + 3] = MAGIC_VALUE /\ mem2[b + sz - 2] = foot
      /\ mem2[b + sz - 1] = MAGIC_VALUE
      /\ \A a \in Words : a \notin {b, b + 3, b + sz - 2, b + sz - 1} => mem2[a] = mem[a]
  BY <1>1, <1>2, <1>3
<1>5. ASSUME NEW a \in Words, a < b \/ a >= b + sz
      PROVE  a \notin {b, b + 3, b + sz - 2, b + sz - 1}
  BY <1>5, Constants DEF Words
<1> QED BY <1>4, <1>5 DEF BusyTag, word, foot

-----------------------------------------------------------------------------
\* The list without its block i, and with b before its first block.
Without(n, L, i) == [j \in 1 .. n - 1 |-> IF j < i THEN L[j] ELSE L[j + 1]]

Before(n, L, b) == [j \in 1 .. n + 1 |-> IF j = 1 THEN b ELSE L[j - 1]]

\* A change of the links that keeps within blocks leaves the rest as it is.
LEMMA Relinked ==
  ASSUME NEW flag \in BOOLEAN, NEW hp, NEW size, NEW busy, NEW off, NEW n, NEW L,
         Shape(flag, hp, size, busy, off, n, L), NEW hq, IsHeap(hq), Quiet(hp, hq),
         \A a \in Words : hq.mem[a] # hp.mem[a] =>
            \E b \in DOMAIN size : a = b + 1 \/ a = b + 2,
         NEW off2, NEW n2, NEW L2, Offers(size, busy, off2, n2, L2),
         Links(hq.mem, hq.head, n2, L2)
  PROVE  /\ Shape(flag, hq, size, busy, off2, n2, L2)
         /\ Untouched(hp.mem, hq.mem, size, busy)
<1>1. /\ Layout(hp.mapped, hp.gaps, size) /\ Tags(flag, hp.mem, size, busy)
      /\ Blank(hp.mem, hp.mapped, hp.gaps) /\ busy \subseteq DOMAIN size
      /\ size = [b \in DOMAIN size |-> size[b]]
  BY DEF Shape, Offers
<1>2. \A b \in DOMAIN size : \A a \in Fixed(size, b) : hq.mem[a] = hp.mem[a]
  <2> SUFFICES ASSUME NEW b \in DOMAIN size, NEW a \in Fixed(size, b),
                      hq.mem[a] # hp.mem[a]
               PROVE  FALSE
    OBVIOUS
  <2>1. a \in Words
    BY <1>1, LinkWords
  <2>2. PICK c \in DOMAIN size : a = c + 1 \/ a = c + 2
    BY <2>1
  <2> QED BY <2>2, <1>1, LinkWords
<1>3. Tags(flag, hq.mem, size, busy) /\ Untouched(hp.mem, hq.mem, size, busy)
  BY <1>1, <1>2, FixedKept
<1>4. InBlocks(hp.mem, hq.mem, size)
  <2> SUFFICES ASSUME NEW a \in Words, hq.mem[a] # hp.mem[a]
               PROVE  \E d \in DOMAIN size : d <= a /\ a < d + size[d]
    BY DEF InBlocks
  <2>1. PICK c \in DOMAIN size : a = c + 1 \/ a = c + 2
    OBVIOUS
  <2> QED BY <2>1, <1>1, LinkWords
<1>5. Blank(hq.mem, hp.mapped, hp.gaps)
  BY <1>1, <1>4, BlankKept
<1> QED BY <1>1, <1>3, <1>5 DEF Shape, Quiet

\* list_remove takes block i out of the list.
LEMMA Unlink ==
  ASSUME NEW flag \in BOOLEAN, NEW hp, NEW size, NEW busy, NEW off, NEW n, NEW L,
         Shape(flag, hp, size, busy, off, n, L), NEW i \in 1 .. n,
         NEW hq, hq = list_remove(hp, L[i])
  PROVE  /\ Shape(flag, hq, size, busy, off \cup {L[i]}, n - 1, Without(n, L, i))
         /\ Untouched(hp.mem, hq.mem, size, busy) /\ Quiet(hp, hq)
<1> DEFINE b == L[i]
           p == IF i = 1 THEN NULL ELSE L[i - 1]
           x == IF i = n THEN NULL ELSE L[i + 1]
           L2 == Without(n, L, i)
<1>1. /\ IsHeap(hp) /\ Layout(hp.mapped, hp.gaps, size)
      /\ Offers(size, busy, off, n, L) /\ Links(hp.mem, hp.head, n, L)
  BY DEF Shape
<1>2. n \in Nat /\ i \in Nat /\ i >= 1 /\ i <= n
  BY <1>1 DEF Offers
<1>3. b \in DOMAIN size /\ hp.mem[b + 1] = p /\ hp.mem[b + 2] = x
  BY <1>1 DEF Offers, Links
<1>4. /\ i # 1 => i - 1 \in 1 .. n /\ p = L[i - 1] /\ p \in DOMAIN size /\ p # b /\ p # NULL
      /\ i # n => i + 1 \in 1 .. n /\ x = L[i + 1] /\ x \in DOMAIN size /\ x # b /\ x # NULL
      /\ i = 1 => p = NULL
      /\ i = n => x = NULL
  <2>1. i # 1 => i - 1 \in 1 .. n /\ L[i - 1] # L[i]
    BY <1>1, <1>2 DEF Offers
  <2>2. i # n => i + 1 \in 1 .. n /\ L[i + 1] # L[i]
    BY <1>1, <1>2 DEF Offers
  <2>3. \A j \in 1 .. n : L[j] \in DOMAIN size /\ L[j] # NULL
    BY <1>1, BlockWords DEF Offers
  <2> QED BY <2>1, <2>2, <2>3
<1>5. i # 1 /\ i # n => p # x
  <2>1. i # 1 /\ i # n => i - 1 \in 1 .. n /\ i + 1 \in 1 .. n /\ i - 1 # i + 1
    BY <1>2
  <2> QED BY <2>1, <1>1, <1>4 DEF Offers
<1>n. \A j, k \in 1 .. n : j # k => L[j] # L[k]
  BY <1>1 DEF Offers
<1>m. \A j \in 1 .. n : L[j] \in DOMAIN size
  BY <1>1 DEF Offers
<1>k. \A j \in 1 .. n : /\ hp.mem[L[j] + 1] = IF j = 1 THEN NULL ELSE L[j - 1]
                        /\ hp.mem[L[j] + 2] = IF j = n THEN NULL ELSE L[j + 1]
  BY <1>1 DEF Links
<1>h. hp.head = L[1]
  BY <1>1, <1>2 DEF Links
<1> HIDE DEF p, x, b
<1>6. /\ \A c \in DOMAIN size : c + 1 \in Words /\ c + 2 \in Words /\ c \in Int
      /\ \A c, d \in DOMAIN size : c + 1 # d + 2
      /\ \A c, d \in DOMAIN size : c # d => c + 1 # d + 1 /\ c + 2 # d + 2
  BY <1>1, LinkWords, BlockWords
<1>7. p \in Int /\ x \in Int /\ b \in Int /\ (p = NULL \/ p + 2 \in Words)
      /\ (x = NULL \/ x + 1 \in Words) /\ b + 1 \in Words /\ b + 2 \in Words
  BY <1>3, <1>4, <1>6, Constants
<1>8. hq = list_remove(hp, b)
  BY DEF b
<1>9. /\ IsHeap(hq) /\ Quiet(hp, hq)
      /\ hq.head = IF p = NULL THEN x ELSE hp.head
      /\ p # NULL /\ p + 2 \notin {b + 1, b + 2} /\ (x = NULL \/ x + 1 # p + 2) =>
           hq.mem[p + 2] = x
      /\ x # NULL /\ x + 1 \notin {b + 1, b + 2} => hq.mem[x + 1] = p
      /\ \A a \in Words :
           a \notin {b + 1, b + 2} /\ (p = NULL \/ a # p + 2) /\ (x = NULL \/ a # x + 1)
             => hq.mem[a] = hp.mem[a]
  <2>1. Removed(hp, hq, b, p, x)
    BY <1>1, <1>3, <1>7, <1>8, RemoveWords
  <2> QED BY <2>1 DEF Removed
<1>10. i # 1 => hq.mem[p + 2] = x
  BY <1>9, <1>4, <1>3, <1>6
<1>11. i # n => hq.mem[x + 1] = p
  BY <1>9, <1>4, <1>3, <1>6
<1>12. \A j \in 1 .. n : j # i /\ (i = n \/ j # i + 1) => hq.mem[L[j] + 1] = hp.mem[L[j] + 1]
  <2> SUFFICES ASSUME NEW j \in 1 .. n, j # i, i = n \/ j # i + 1
               PROVE  hq.mem[L[j] + 1] = hp.mem[L[j] + 1]
    OBVIOUS
  <2>1. L[j] \in DOMAIN size /\ L[j] # b
    BY <1>m, <1>n DEF b
  <2>2. x = NULL \/ L[j] # x
    BY <1>4, <1>n
  <2>3. L[j] + 1 \in Words /\ L[j] + 1 \notin {b + 1, b + 2}
        /\ (p = NULL \/ L[j] + 1 # p + 2) /\ (x = NULL \/ L[j] + 1 # x + 1)
    BY <2>1, <2>2, <1>3, <1>4, <1>6
  <2> QED BY <2>3, <1>9
<1>13. \A j \in 1 .. n : j # i /\ (i = 1 \/ j # i - 1) => hq.mem[L[j] + 2] = hp.mem[L[j] + 2]
  <2> SUFFICES ASSUME NEW j \in 1 .. n, j # i, i = 1 \/ j # i - 1
               PROVE  hq.mem[L[j] + 2] = hp.mem[L[j] + 2]
    OBVIOUS
  <2>1. L[j] \in DOMAIN size /\ L[j] # b
    BY <1>m, <1>n DEF b
  <2>2. p = NULL \/ L[j] # p
    BY <1>4, <1>n
  <2>3. L[j] + 2 \in Words /\ L[j] + 2 \notin {b + 1, b + 2}
        /\ (p = NULL \/ L[j] + 2 # p + 2) /\ (x = NULL \/ L[j] + 2 # x + 1)
    BY <2>1, <2>2, <1>3, <1>4, <1>6
  <2> QED BY <2>3, <1>9
<1>14. Offers(size, busy, off \cup {b}, n - 1, L2)
  <2>1. \A j \in 1 .. n - 1 : L2[j] = IF j < i THEN L[j] ELSE L[j + 1]
    BY DEF Without
  <2>2. L2 = [j \in 1 .. n - 1 |-> L2[j]]
    BY DEF Without
  <2>3. \A j \in 1 .. n - 1 : \E k \in 1 .. n : k # i /\ L2[j] = L[k]
                                /\ k = (IF j < i THEN j ELSE j + 1)
    BY <2>1, <1>2
  <2>4. \A j \in 1 .. n - 1 : L2[j] \in DOMAIN size /\ L2[j] \notin busy /\ L2[j] \notin off
                              /\ L2[j] # b
    BY <2>3, <1>1, <1>n DEF Offers, b
  <2>5. \A j, k \in 1 .. n - 1 : L2[j] = L2[k] => j = k
    <3> SUFFICES ASSUME NEW j \in 1 .. n - 1, NEW k \in 1 .. n - 1, L2[j] = L2[k], j # k
                 PROVE  FALSE
      OBVIOUS
    <3> DEFINE j2 == IF j < i THEN j ELSE j + 1
               k2 == IF k < i THEN k ELSE k + 1
    <3>1. j2 \in 1 .. n /\ k2 \in 1 .. n /\ j2 # k2
      BY <1>2
    <3>2. L2[j] = L[j2] /\ L2[k] = L[k2]
      BY <2>1
    <3> HIDE DEF j2, k2
    <3> QED BY <3>1, <3>2, <1>n
  <2>6. ASSUME NEW c \in DOMAIN size, c \notin busy, c \notin off, c # b
        PROVE  \E j \in 1 .. n - 1 : L2[j] = c
    <3>1. PICK k \in 1 .. n : L[k] = c
      BY <1>1, <2>6 DEF Offers
    <3>2. k # i
      BY <3>1, <2>6 DEF b
    <3>3. CASE k < i
      BY <3>1, <3>3, <2>1, <1>2
    <3>4. CASE k > i
      <4>1. k - 1 \in 1 .. n - 1 /\ ~ (k - 1 < i) /\ (k - 1) + 1 = k
        BY <3>4, <1>2
      <4> QED BY <4>1, <3>1, <2>1
    <3> QED BY <3>2, <3>3, <3>4, <1>2
  <2>7. b \notin busy
    BY <1>1 DEF Offers, b
  <2> HIDE DEF L2
  <2>8. n - 1 \in Nat
    BY <1>2
  <2> QED BY <2>2, <2>4, <2>5, <2>6, <2>7, <2>8, <1>1, <1>3 DEF Offers
<1>15. Links(hq.mem, hq.head, n - 1, L2)
  <2>1. \A j \in 1 .. n - 1 : L2[j] = IF j < i THEN L[j] ELSE L[j + 1]
    BY DEF Without
  <2> HIDE DEF L2
  <2>2. hq.head = IF n - 1 = 0 THEN NULL ELSE L2[1]
    <3>1. CASE i # 1
      BY <3>1, <2>1, <1>2, <1>4, <1>9, <1>h
    <3>2. CASE i = 1
      BY <3>2, <2>1, <1>2, <1>4, <1>9
    <3> QED BY <3>1, <3>2
  <2>3. ASSUME NEW j \in 1 .. n - 1, j < i
        PROVE  /\ hq.mem[L2[j] + 1] = IF j = 1 THEN NULL ELSE L2[j - 1]
               /\ hq.mem[L2[j] + 2] = IF j = n - 1 THEN NULL ELSE L2[j + 1]
    <3>1. L2[j] = L[j] /\ j \in 1 .. n /\ j # i /\ (i = n \/ j # i + 1) /\ j # n
      BY <2>1, <2>3, <1>2
    <3>2. hq.mem[L[j] + 1] = IF j = 1 THEN NULL ELSE L[j - 1]
      BY <3>1, <1>12, <1>k
    <3>3. j # 1 => j - 1 \in 1 .. n - 1 /\ j - 1 < i
      BY <2>3, <1>2
    <3>4. j # 1 => L2[j - 1] = L[j - 1]
      BY <3>3, <2>1
    <3>5. CASE j = i - 1
      <4>1. i # 1 /\ p = L[j] /\ hq.mem[L[j] + 2] = x
        BY <3>5, <1>4, <1>10, <1>2
      <4>2. j + 1 = i /\ (j = n - 1 <=> i = n) /\ (i # n => j + 1 \in 1 .. n - 1)
        BY <3>5, <1>2
      <4>3. i # n => L2[j + 1] = L[i + 1]
        BY <4>2, <2>1, <1>2
      <4> QED BY <4>1, <4>2, <4>3, <1>4, <3>1, <3>2, <3>4
    <3>6. CASE j # i - 1
      <4>1. hq.mem[L[j] + 2] = L[j + 1]
        BY <3>1, <3>6, <1>13, <1>k
      <4>2. j # n - 1 /\ j + 1 \in 1 .. n - 1 /\ j + 1 < i
        BY <2>3, <3>6, <1>2
      <4>3. L2[j + 1] = L[j + 1]
        BY <4>2, <2>1
      <4> QED BY <4>1, <4>2, <4>3, <3>1, <3>2, <3>4
    <3> QED BY <3>5, <3>6
  <2>4. ASSUME NEW j \in 1 .. n - 1, ~ (j < i)
        PROVE  /\ hq.mem[L2[j] + 1] = IF j = 1 THEN NULL ELSE L2[j - 1]
               /\ hq.mem[L2[j] + 2] = IF j = n - 1 THEN NULL ELSE L2[j + 1]
    <3> DEFINE k == j + 1
    <3>1. L2[j] = L[k] /\ k \in 1 .. n /\ k # i /\ (i = 1 \/ k # i - 1) /\ k # 1
          /\ k - 1 = j /\ (k = n <=> j = n - 1)
      BY <2>1, <2>4, <1>2
    <3>2. hq.mem[L[k] + 2] = IF k = n THEN NULL ELSE L[k + 1]
      BY <3>1, <1>13, <1>k
    <3>3. j # n - 1 => j + 1 \in 1 .. n - 1 /\ ~ (j + 1 < i)
      BY <2>4, <1>2
    <3>4. j # n - 1 => L2[j + 1] = L[k + 1]
      BY <3>3, <2>1
    <3> HIDE DEF k
    <3>5. CASE j = i
      <4>1. i # n /\ k = i + 1
        BY <3>5, <1>2 DEF k
      <4>2. x = L[k] /\ hq.mem[L[k] + 1] = p
        BY <4>1, <1>4, <1>11
      <4>3. j # 1 => L2[j - 1] = L[i - 1]
        <5>1. j # 1 => j - 1 \in 1 .. n - 1 /\ j - 1 < i
          BY <3>5, <1>2
        <5> QED BY <5>1, <2>1, <3>5
      <4> QED BY <4>2, <4>3, <3>1, <3>2, <3>4, <3>5, <1>4
    <3>6. CASE j # i
      <4>1. j # 1 /\ j - 1 \in 1 .. n - 1 /\ ~ (j - 1 < i) /\ (j - 1) + 1 = j
        BY <3>6, <2>4, <1>2
      <4>2. L2[j - 1] = L[j]
        BY <4>1, <2>1
      <4>3. i = n \/ k # i + 1
        BY <3>6, <1>2 DEF k
      <4>4. hq.mem[L[k] + 1] = L[k - 1]
        BY <4>3, <3>1, <1>12, <1>k
      <4> QED BY <4>1, <4>2, <4>4, <3>1, <3>2, <3>4
    <3> QED BY <3>5, <3>6
  <2> QED BY <2>2, <2>3, <2>4 DEF Links
<1>16. \A a \in Words : hq.mem[a] # hp.mem[a] =>
            \E c \in DOMAIN size : a = c + 1 \/ a = c + 2
  BY <1>9, <1>3, <1>4
<1>17. /\ Shape(flag, hq, size, busy, off \cup {b}, n - 1, L2)
       /\ Untouched(hp.mem, hq.mem, size, busy)
  <2> HIDE DEF L2
  <2> QED BY <1>9, <1>14, <1>15, <1>16, Relinked
<1> QED BY <1>9, <1>17 DEF b

\* list_insert_head puts a block that was off the list in front of it.
LEMMA Push ==
  ASSUME NEW flag \in BOOLEAN, NEW hp, NEW size, NEW busy, NEW off, NEW n, NEW L,
         Shape(flag, hp, size, busy, off, n, L), NEW b \in off,
         NEW hq, hq = list_insert_head(hp, b)
  PROVE  /\ Shape(flag, hq, size, busy, off \ {b}, n + 1, Before(n, L, b))
         /\ Untouched(hp.mem, hq.mem, size, busy) /\ Quiet(hp, hq)
<1> DEFINE L2 == Before(n, L, b)
<1>1. /\ IsHeap(hp) /\ Layout(hp.mapped, hp.gaps, size)
      /\ Offers(size, busy, off, n, L) /\ Links(hp.mem, hp.head, n, L)
  BY DEF Shape
<1>2. /\ n \in Nat /\ b \in DOMAIN size
      /\ \A j \in 1 .. n : L[j] \in DOMAIN size /\ L[j] # b
      /\ \A j, k \in 1 .. n : L[j] = L[k] => j = k
  BY <1>1 DEF Offers
<1>3. /\ hp.head = IF n = 0 THEN NULL ELSE L[1]
      /\ \A j \in 1 .. n : /\ hp.mem[L[j] + 1] = IF j = 1 THEN NULL ELSE L[j - 1]
                           /\ hp.mem[L[j] + 2] = IF j = n THEN NULL ELSE L[j + 1]
  BY <1>1 DEF Links
<1>4. /\ \A c \in DOMAIN size : c + 1 \in Words /\ c + 2 \in Words /\ c \in Int /\ c # NULL
      /\ \A c, d \in DOMAIN size : c + 1 # d + 2
      /\ \A c, d \in DOMAIN size : c # d => c + 1 # d + 1 /\ c + 2 # d + 2
  BY <1>1, LinkWords, BlockWords
<1>5. n # 0 => hp.head = L[1] /\ 1 \in 1 .. n /\ hp.head \in DOMAIN size /\ hp.head # b
               /\ hp.head # NULL
  BY <1>2, <1>3, <1>4
<1>6. hp.head \in Int /\ (hp.head = NULL \/ hp.head + 1 \in Words) /\ b \in Int
      /\ b + 1 \in Words /\ b + 2 \in Words
  BY <1>2, <1>3, <1>4, <1>5, Constants
<1>7. /\ IsHeap(hq) /\ Quiet(hp, hq) /\ hq.head = b
      /\ hp.head = NULL \/ hp.head + 1 # b + 1 => hq.mem[b + 1] = NULL
      /\ hp.head = NULL \/ hp.head + 1 # b + 2 => hq.mem[b + 2] = hp.head
      /\ hp.head # NULL => hq.mem[hp.head + 1] = b
      /\ \A a \in Words :
           a \notin {b + 1, b + 2} /\ (hp.head = NULL \/ a # hp.head + 1)
             => hq.mem[a] = hp.mem[a]
  <2>1. Inserted(hp, hq, b)
    BY <1>1, <1>6, InsertWords
  <2> QED BY <2>1 DEF Inserted
<1>8. hq.mem[b + 1] = NULL /\ hq.mem[b + 2] = hp.head
  BY <1>2, <1>3, <1>4, <1>5, <1>7
<1>9. n # 0 => hq.mem[L[1] + 1] = b
  BY <1>5, <1>7
<1>10. \A j \in 1 .. n : hq.mem[L[j] + 2] = hp.mem[L[j] + 2]
  <2> SUFFICES ASSUME NEW j \in 1 .. n PROVE hq.mem[L[j] + 2] = hp.mem[L[j] + 2]
    OBVIOUS
  <2>1. L[j] + 2 \in Words /\ L[j] + 2 \notin {b + 1, b + 2}
        /\ (hp.head = NULL \/ L[j] + 2 # hp.head + 1)
    BY <1>2, <1>3, <1>4, <1>5
  <2> QED BY <2>1, <1>7
<1>11. \A j \in 1 .. n : j # 1 => hq.mem[L[j] + 1] = hp.mem[L[j] + 1]
  <2> SUFFICES ASSUME NEW j \in 1 .. n, j # 1 PROVE hq.mem[L[j] + 1] = hp.mem[L[j] + 1]
    OBVIOUS
  <2>1. n # 0 /\ L[j] # L[1] /\ hp.head = L[1] /\ hp.head \in DOMAIN size
    BY <1>2, <1>5
  <2>2. L[j] + 1 \in Words /\ L[j] + 1 \notin {b + 1, b + 2} /\ L[j] + 1 # hp.head + 1
    BY <2>1, <1>2, <1>4
  <2> QED BY <2>2, <1>7
<1>12. /\ L2 = [j \in 1 .. n + 1 |-> L2[j]]
       /\ L2[1] = b /\ \A j \in 1 .. n + 1 : j # 1 => L2[j] = L[j - 1] /\ j - 1 \in 1 .. n
       /\ \A j \in 1 .. n : L2[j + 1] = L[j]
  BY <1>2 DEF Before
<1> HIDE DEF L2
<1>13. Offers(size, busy, off \ {b}, n + 1, L2)
  <2>1. \A j \in 1 .. n + 1 :
          L2[j] \in DOMAIN size /\ L2[j] \notin busy /\ L2[j] \notin off \ {b}
    <3> SUFFICES ASSUME NEW j \in 1 .. n + 1
                 PROVE  L2[j] \in DOMAIN size /\ L2[j] \notin busy /\ L2[j] \notin off \ {b}
      OBVIOUS
    <3>1. CASE j = 1
      BY <3>1, <1>1, <1>12 DEF Offers
    <3>2. CASE j # 1
      BY <3>2, <1>1, <1>12 DEF Offers
    <3> QED BY <3>1, <3>2
  <2>2. \A j, k \in 1 .. n + 1 : L2[j] = L2[k] => j = k
    <3> SUFFICES ASSUME NEW j \in 1 .. n + 1, NEW k \in 1 .. n + 1, L2[j] = L2[k]
                 PROVE  j = k
      OBVIOUS
    <3>1. CASE j = 1 \/ k = 1
      BY <3>1, <1>12, <1>2
    <3>2. CASE j # 1 /\ k # 1
      <4>1. j - 1 = k - 1
        BY <3>2, <1>12, <1>2
      <4> QED BY <4>1, <1>2
    <3> QED BY <3>1, <3>2
  <2>3. ASSUME NEW c \in DOMAIN size, c \notin busy, c \notin off \ {b}
        PROVE  \E j \in 1 .. n + 1 : L2[j] = c
    <3>1. CASE c = b
      <4>1. 1 \in 1 .. n + 1
        BY <1>2
      <4> QED BY <4>1, <3>1, <1>12
    <3>2. CASE c # b
      <4>1. PICK j \in 1 .. n : L[j] = c
        BY <3>2, <2>3, <1>1 DEF Offers
      <4>2. j + 1 \in 1 .. n + 1
        BY <1>2
      <4> QED BY <4>1, <4>2, <1>12
    <3> QED BY <3>1, <3>2
  <2>4. n + 1 \in Nat
    BY <1>2
  <2> QED BY <2>1, <2>2, <2>3, <2>4, <1>1, <1>12 DEF Offers
<1>14. Links(hq.mem, hq.head, n + 1, L2)
  <2>1. hq.head = IF n + 1 = 0 THEN NULL ELSE L2[1]
    BY <1>2, <1>7, <1>12
  <2>2. ASSUME NEW j \in 1 .. n + 1
        PROVE  /\ hq.mem[L2[j] + 1] = IF j = 1 THEN NULL ELSE L2[j - 1]
               /\ hq.mem[L2[j] + 2] = IF j = n + 1 THEN NULL ELSE L2[j + 1]
    <3>1. CASE j = 1
      <4>1. n # 0 => L2[2] = L[1] /\ hp.head = L[1]
        BY <1>12, <1>5, <1>2
      <4> QED BY <3>1, <4>1, <1>2, <1>3, <1>8, <1>12
    <3>2. CASE j # 1
      <4> DEFINE k == j - 1
      <4>1. k \in 1 .. n /\ L2[j] = L[k] /\ (k = n <=> j = n + 1) /\ j = k + 1
        BY <3>2, <1>2, <1>12
      <4> HIDE DEF k
      <4>2. hq.mem[L[k] + 2] = IF k = n THEN NULL ELSE L[k + 1]
        BY <4>1, <1>10, <1>3
      <4>3. k # n => L2[j + 1] = L[k + 1]
        <5>1. k # n => k + 1 \in 1 .. n
          BY <4>1, <1>2
        <5> QED BY <5>1, <4>1, <1>12
      <4>4. hq.mem[L[k] + 1] = L2[j - 1]
        <5>1. CASE k = 1
          <6>1. j - 1 = 1
            BY <5>1, <4>1
          <6> QED BY <6>1, <5>1, <4>1, <1>9, <1>12, <1>2
        <5>2. CASE k # 1
          <6>1. hq.mem[L[k] + 1] = L[k - 1] /\ k - 1 \in 1 .. n /\ j - 1 = (k - 1) + 1
            BY <5>2, <4>1, <1>11, <1>3, <1>2
          <6> QED BY <6>1, <1>12
        <5> QED BY <5>1, <5>2
      <4> QED BY <3>2, <4>1, <4>2, <4>3, <4>4
    <3> QED BY <3>1, <3>2
  <2> QED BY <2>1, <2>2 DEF Links
<1>15. \A a \in Words : hq.mem[a] # hp.mem[a] =>
            \E c \in DOMAIN size : a = c + 1 \/ a = c + 2
  BY <1>2, <1>3, <1>5, <1>7
<1>16. /\ Shape(flag, hq, size, busy, off \ {b}, n + 1, L2)
       /\ Untouched(hp.mem, hq.mem, size, busy)
  BY <1>7, <1>13, <1>14, <1>15, Relinked
<1> QED BY <1>7, <1>16 DEF L2

Retagged(mem, mem2, b, sz, busy, off, busy2, off2) ==
  \/ /\ mem2 = StoredBusy(mem, b, sz)
     /\ busy2 = busy \cup {b} /\ off2 = off \ {b}
  \/ /\ mem2 = StoredFree(mem, b, sz)
     /\ busy2 = busy \ {b} /\ off2 = off \cup {b}

\* set_block on a block that is not listed sets or clears its allocated bit.
LEMMA Retag ==
  ASSUME NEW hp, NEW size, NEW busy, NEW off, NEW n, NEW L, FooterHoldsFlag \in BOOLEAN,
         Shape(FooterHoldsFlag, hp, size, busy, off, n, L), NEW b \in busy \cup off,
         NEW hq, IsHeap(hq), Quiet(hp, hq), hq.head = hp.head, NEW busy2, NEW off2,
         Retagged(hp.mem, hq.mem, b, size[b], busy, off, busy2, off2)
  PROVE  /\ Shape(FooterHoldsFlag, hq, size, busy2, off2, n, L)
         /\ Untouched(hp.mem, hq.mem, size, busy)
<1>1. /\ IsHeap(hp) /\ Layout(hp.mapped, hp.gaps, size) /\ Tags(FooterHoldsFlag, hp.mem, size, busy)
      /\ Blank(hp.mem, hp.mapped, hp.gaps)
      /\ Offers(size, busy, off, n, L) /\ Links(hp.mem, hp.head, n, L)
      /\ size = [c \in DOMAIN size |-> size[c]]
  BY DEF Shape
<1>2. b \in DOMAIN size /\ busy \subseteq DOMAIN size
  BY <1>1 DEF Offers
<1>3. /\ \A c \in DOMAIN size : /\ c \in Nat /\ c >= heap_start /\ size[c] \in Nat /\ size[c] >= 8
                                /\ c + size[c] <= heap_start + heap_max_size
      /\ \A c, d \in DOMAIN size : c # d => c + size[c] <= d \/ d + size[d] <= c
  BY <1>1, BlockWords
<1> DEFINE sz == size[b]
<1>4. /\ b \in busy2 => BusyTag(hq.mem, b, sz)
      /\ b \notin busy2 => FreeTag(hq.mem, b, sz)
      /\ \A a \in Words : a \notin {b, b + 3, b + sz - 2, b + sz - 1} => hq.mem[a] = hp.mem[a]
      /\ \A a \in Words : a < b \/ a >= b + sz => hq.mem[a] = hp.mem[a]
  <2>1. hp.mem \in [Words -> Int]
    BY <1>1 DEF IsHeap
  <2>2. /\ b \in Nat /\ sz \in Nat /\ b >= heap_start /\ sz >= 8
        /\ b + sz <= heap_start + heap_max_size
    BY <1>2, <1>3
  <2>3. CASE hq.mem = StoredBusy(hp.mem, b, sz) /\ b \in busy2
    BY <2>1, <2>2, <2>3, SetBlockBusy
  <2>4. CASE hq.mem = StoredFree(hp.mem, b, sz) /\ b \notin busy2
    BY <2>1, <2>2, <2>4, SetBlockFree
  <2> QED BY <2>3, <2>4 DEF Retagged
<1>5. ASSUME NEW c \in DOMAIN size, c # b, NEW a \in c .. c + size[c] - 1
      PROVE  hq.mem[a] = hp.mem[a]
  <2>1. a \in Words
    BY <1>3, Constants DEF Words
  <2>2. a < b \/ a >= b + sz
    BY <1>2, <1>3, <1>5
  <2> QED BY <2>1, <2>2, <1>4
<1>6. Tags(FooterHoldsFlag, hq.mem, size, busy2)
  <2> SUFFICES ASSUME NEW c \in DOMAIN size
               PROVE  Tagged(FooterHoldsFlag, hq.mem, c, size[c], c \in busy2)
    BY DEF Tags
  <2>1. CASE c = b
    <3>1. sz \in Nat
      BY <1>2, <1>3
    <3> QED BY <3>1, <2>1, <1>4 DEF Tagged, HeaderWord, BusyTag, FreeTag
  <2>2. CASE c # b
    <3>1. (c \in busy2) = (c \in busy)
      BY <2>2 DEF Retagged
    <3>2. c \in Nat /\ size[c] \in Nat /\ size[c] >= 8
      BY <1>3
    <3>3. /\ c \in c .. c + size[c] - 1 /\ c + 3 \in c .. c + size[c] - 1
          /\ c + size[c] - 2 \in c .. c + size[c] - 1 /\ c + size[c] - 1 \in c .. c + size[c] - 1
      BY <3>2
    <3>4. /\ hq.mem[c] = hp.mem[c] /\ hq.mem[c + 3] = hp.mem[c + 3]
          /\ hq.mem[c + size[c] - 2] = hp.mem[c + size[c] - 2]
          /\ hq.mem[c + size[c] - 1] = hp.mem[c + size[c] - 1]
      BY <3>3, <2>2, <1>5
    <3>5. Tagged(FooterHoldsFlag, hp.mem, c, size[c], c \in busy)
      BY <1>1 DEF Tags
    <3> QED BY <3>1, <3>4, <3>5 DEF Tagged, HeaderWord
  <2> QED BY <2>1, <2>2
<1>7. InBlocks(hp.mem, hq.mem, size)
  <2> SUFFICES ASSUME NEW a \in Words, hq.mem[a] # hp.mem[a]
               PROVE  b <= a /\ a < b + size[b]
    BY <1>2 DEF InBlocks
  <2>1. a \in Nat
    BY Constants DEF Words
  <2> QED BY <2>1, <1>2, <1>3, <1>4
<1>8. Blank(hq.mem, hp.mapped, hp.gaps)
  BY <1>1, <1>7, BlankKept
<1>9. Links(hq.mem, hq.head, n, L)
  <2>1. \A j \in 1 .. n : L[j] \in DOMAIN size /\ L[j] # b
    BY <1>1 DEF Offers
  <2>2. ASSUME NEW j \in 1 .. n
        PROVE  hq.mem[L[j] + 1] = hp.mem[L[j] + 1] /\ hq.mem[L[j] + 2] = hp.mem[L[j] + 2]
    <3> DEFINE c == L[j]
    <3>1. c \in DOMAIN size /\ c # b /\ c \in Nat /\ size[c] \in Nat /\ size[c] >= 8
      BY <2>1, <1>3
    <3> HIDE DEF c
    <3>2. c + 1 \in c .. c + size[c] - 1 /\ c + 2 \in c .. c + size[c] - 1
      BY <3>1
    <3>3. hq.mem[c + 1] = hp.mem[c + 1] /\ hq.mem[c + 2] = hp.mem[c + 2]
      BY <3>1, <3>2, <1>5
    <3> QED BY <3>3 DEF c
  <2> QED BY <2>2, <1>1 DEF Links
<1>10. Offers(size, busy2, off2, n, L)
  BY <1>1, <1>2 DEF Offers, Retagged
<1>11. Untouched(hp.mem, hq.mem, size, busy)
  <2> SUFFICES ASSUME NEW c \in busy, NEW a \in c + 4 .. c + size[c] - 3
               PROVE  hq.mem[a] = hp.mem[a]
    BY DEF Untouched
  <2>1. c \in DOMAIN size /\ c \in Nat /\ size[c] \in Nat /\ size[c] >= 8
    BY <1>2, <1>3
  <2>2. CASE c # b
    <3>1. a \in c .. c + size[c] - 1
      BY <2>1
    <3> QED BY <2>1, <2>2, <3>1, <1>5
  <2>3. CASE c = b
    <3>1. a \in Words /\ a \notin {b, b + 3, b + sz - 2, b + sz - 1}
      BY <2>1, <2>3, <1>3, Constants DEF Words
    <3> QED BY <3>1, <1>4
  <2> QED BY <2>2, <2>3
<1> QED BY <1>1, <1>6, <1>8, <1>9, <1>10, <1>11 DEF Shape, Quiet

-----------------------------------------------------------------------------
\* The blocks with one more of m words at b; with block b cut after t words;
\* with block b and the one behind it made one.
Plus(size, b, m) == [c \in DOMAIN size \cup {b} |-> IF c = b THEN m ELSE size[c]]

Cut(size, b, t) == [c \in DOMAIN size \cup {b + t} |->
                      IF c = b THEN t ELSE IF c = b + t THEN size[b] - t ELSE size[c]]

Joined(size, b) == [c \in DOMAIN size \ {b + size[b]} |->
                      IF c = b THEN size[b] + size[b + size[b]] ELSE size[c]]

LEMMA PlusLayout ==
  ASSUME NEW mapped, NEW gaps, NEW size, Layout(mapped, gaps, size),
         NEW m \in Nat, m >= 8, m % 2 = 0, mapped + m <= heap_max_size
  PROVE  /\ Layout(mapped + m, gaps, Plus(size, End(mapped), m))
         /\ End(mapped) \notin DOMAIN size
<1> DEFINE e == End(mapped)
           size2 == Plus(size, e, m)
<1>1. /\ mapped \in Nat /\ e \in Nat /\ e = heap_start + mapped /\ End(mapped + m) = e + m
      /\ heap_start \in Nat /\ heap_max_size \in Nat /\ mapped + m \in 0 .. heap_max_size
  BY BlockWords, Constants DEF End
<1>2. \A b \in DOMAIN size : /\ b \in Nat /\ b \in Words /\ size[b] \in Nat /\ b + size[b] <= e
                             /\ size[b] \in 8 .. heap_max_size /\ size[b] % 2 = 0
                             /\ b < e /\ b >= heap_start
  <2>1. \A b \in DOMAIN size : /\ b \in Nat /\ size[b] \in Nat /\ size[b] >= 8
                               /\ b + size[b] <= heap_start + mapped /\ b >= heap_start
    BY BlockWords
  <2> QED BY <2>1, <1>1 DEF Layout
<1>3. e \notin DOMAIN size
  BY <1>1, <1>2
<1>4. DOMAIN size2 = DOMAIN size \cup {e} /\ size2[e] = m
      /\ \A b \in DOMAIN size : size2[b] = size[b] /\ b # e
  BY <1>3 DEF Plus
<1>5. e \in Words
  BY <1>1 DEF Words
<1> HIDE DEF size2, e
<1>6. \A g \in gaps : /\ g[1] \in Nat /\ g[2] \in Nat /\ g[1] + 8 <= g[2] /\ g[2] <= mapped
                      /\ g = <<g[1], g[2]>>
  BY DEF Layout
<1>7. \A a : Starts(mapped, gaps, size, a) => Starts(mapped + m, gaps, size2, a)
  BY <1>4 DEF Starts, e
<1>8. Starts(mapped + m, gaps, size2, e + m)
  BY <1>1 DEF Starts
<1>9. \A b \in DOMAIN size2 : Starts(mapped + m, gaps, size2, b + size2[b])
  BY <1>4, <1>7, <1>8 DEF Layout
<1>10. \A g \in gaps : Starts(mapped + m, gaps, size2, heap_start + g[2])
  BY <1>7 DEF Layout
<1>11. Starts(mapped + m, gaps, size2, heap_start)
  BY <1>7 DEF Layout
<1>12. \A b, c \in DOMAIN size2 : b < c => b + size2[b] <= c
  <2> SUFFICES ASSUME NEW b \in DOMAIN size2, NEW c \in DOMAIN size2, b < c
               PROVE  b + size2[b] <= c
    OBVIOUS
  <2>1. CASE b \in DOMAIN size /\ c \in DOMAIN size
    BY <2>1, <1>4 DEF Layout
  <2>2. CASE b = e
    BY <2>2, <1>1, <1>2, <1>4
  <2>3. CASE b \in DOMAIN size /\ c = e
    BY <2>3, <1>2, <1>4
  <2> QED BY <2>1, <2>2, <2>3, <1>4
<1>13. \A b \in DOMAIN size2 : /\ size2[b] \in 8 .. heap_max_size /\ size2[b] % 2 = 0
                               /\ b + size2[b] <= End(mapped + m)
  BY <1>1, <1>2, <1>4
<1>14. \A g \in gaps : \A b \in DOMAIN size2 :
         b + size2[b] <= heap_start + g[1] \/ heap_start + g[2] <= b
  <2> SUFFICES ASSUME NEW g \in gaps, NEW b \in DOMAIN size2
               PROVE  b + size2[b] <= heap_start + g[1] \/ heap_start + g[2] <= b
    OBVIOUS
  <2>1. CASE b \in DOMAIN size
    BY <2>1, <1>4 DEF Layout
  <2>2. CASE b = e
    BY <2>2, <1>1, <1>6
  <2> QED BY <2>1, <2>2, <1>4
<1>15. \A g \in gaps : g[2] <= mapped + m
  BY <1>1, <1>6
<1>16. \A f, g \in gaps : f # g => f[2] <= g[1] \/ g[2] <= f[1]
  BY DEF Layout
<1>17. DOMAIN size2 \subseteq Words
  BY <1>2, <1>4, <1>5
<1>18. Layout(mapped + m, gaps, size2)
  BY <1>1, <1>6, <1>9, <1>10, <1>11, <1>12, <1>13, <1>14, <1>15, <1>16, <1>17 DEF Layout
<1> QED BY <1>18, <1>3 DEF size2, e

LEMMA GapLayout ==
  ASSUME NEW mapped, NEW gaps, NEW size, Layout(mapped, gaps, size),
         NEW m \in Nat, m >= 8, mapped + m <= heap_max_size
  PROVE  Layout(mapped + m, gaps \cup {<<mapped, mapped + m>>}, size)
<1> DEFINE e == End(mapped)
           new == <<mapped, mapped + m>>
           gaps2 == gaps \cup {new}
<1>1. /\ mapped \in Nat /\ e \in Nat /\ e = heap_start + mapped /\ End(mapped + m) = e + m
      /\ heap_start \in Nat /\ heap_max_size \in Nat /\ mapped + m \in 0 .. heap_max_size
      /\ mapped + m \in Nat
  BY BlockWords, Constants DEF End
<1>2. \A b \in DOMAIN size : b \in Nat /\ size[b] \in Nat /\ b + size[b] <= e
  BY BlockWords, <1>1
<1>3. new[1] = mapped /\ new[2] = mapped + m /\ new = <<new[1], new[2]>>
  OBVIOUS
<1> HIDE DEF e, new
<1>6. \A g \in gaps : /\ g[1] \in Nat /\ g[2] \in Nat /\ g[1] + 8 <= g[2] /\ g[2] <= mapped
                      /\ g = <<g[1], g[2]>>
  BY DEF Layout
<1>7. \A a : Starts(mapped, gaps, size, a) => Starts(mapped + m, gaps2, size, a)
  BY <1>3, <1>1 DEF Starts, e
<1>8. Starts(mapped + m, gaps2, size, heap_start + new[2])
  BY <1>1, <1>3 DEF Starts
<1>9. \A b \in DOMAIN size : Starts(mapped + m, gaps2, size, b + size[b])
  BY <1>7 DEF Layout
<1>10. \A g \in gaps2 : Starts(mapped + m, gaps2, size, heap_start + g[2])
  BY <1>7, <1>8 DEF Layout
<1>11. Starts(mapped + m, gaps2, size, heap_start)
  BY <1>7 DEF Layout
<1>12. \A g \in gaps2 : /\ g[1] \in Nat /\ g[2] \in Nat /\ g[1] + 8 <= g[2] /\ g[2] <= mapped + m
                        /\ g = <<g[1], g[2]>>
  BY <1>1, <1>3, <1>6
<1>13. \A b \in DOMAIN size : b + size[b] <= End(mapped + m)
  BY <1>1, <1>2
<1>14. \A g \in gaps2 : \A b \in DOMAIN size :
         b + size[b] <= heap_start + g[1] \/ heap_start + g[2] <= b
  BY <1>1, <1>2, <1>3 DEF Layout
<1>16. \A f, g \in gaps2 : f # g => f[2] <= g[1] \/ g[2] <= f[1]
  BY <1>3, <1>6 DEF Layout
<1>18. Layout(mapped + m, gaps2, size)
  <2> HIDE DEF gaps2
  <2> QED BY <1>1, <1>9, <1>10, <1>11, <1>12, <1>13, <1>14, <1>16 DEF Layout
<1> QED BY <1>18 DEF new

LEMMA CutLayout ==
  ASSUME NEW mapped, NEW gaps, NEW size, Layout(mapped, gaps, size),
         NEW b \in DOMAIN size, NEW t \in Nat, t >= 8, t % 2 = 0, size[b] >= t + 8
  PROVE  /\ Layout(mapped, gaps, Cut(size, b, t))
         /\ b + t \notin DOMAIN size
<1> DEFINE r == b + t
           size2 == Cut(size, b, t)
<1>1. mapped \in Nat /\ End(mapped) \in Nat /\ heap_start \in Nat /\ heap_max_size \in Nat
  BY BlockWords, Constants DEF End
<1>2. /\ \A c \in DOMAIN size : /\ c \in Nat /\ c \in Words /\ size[c] \in Nat /\ size[c] >= 8
                                /\ c + size[c] <= End(mapped)
                                /\ size[c] \in 8 .. heap_max_size /\ size[c] % 2 = 0
      /\ \A c, d \in DOMAIN size : c < d => c + size[c] <= d
      /\ \A c, d \in DOMAIN size : c # d => c + size[c] <= d \/ d + size[d] <= c
  BY BlockWords DEF Layout
<1>3. r \notin DOMAIN size /\ r \in Nat /\ r # b /\ r > b /\ r + 8 <= b + size[b]
  <2>1. r \in Nat /\ r > b /\ r + 8 <= b + size[b]
    BY <1>2
  <2> HIDE DEF r
  <2> QED BY <2>1, <1>2
<1>4. /\ DOMAIN size2 = DOMAIN size \cup {r} /\ size2[b] = t /\ size2[r] = size[b] - t
      /\ \A c \in DOMAIN size : c # b => size2[c] = size[c]
  BY <1>3 DEF Cut
<1>5. r \in Words
  <2>1. \A i \in 0 .. size[b] - 1 : b + i \in Words
    BY BlockWords
  <2> QED BY <2>1, <1>2
<1>r. r + (size[b] - t) = b + size[b] /\ r = b + t
  BY <1>2
<1> HIDE DEF size2, r
<1>7. \A a : Starts(mapped, gaps, size, a) => Starts(mapped, gaps, size2, a)
  BY <1>4 DEF Starts
<1>8. Starts(mapped, gaps, size2, r)
  BY <1>4 DEF Starts
<1>9. \A c \in DOMAIN size2 : Starts(mapped, gaps, size2, c + size2[c])
  <2> SUFFICES ASSUME NEW c \in DOMAIN size2
               PROVE  Starts(mapped, gaps, size2, c + size2[c])
    OBVIOUS
  <2>1. CASE c = b
    BY <2>1, <1>4, <1>8, <1>r
  <2>2. CASE c = r
    <3>1. c + size2[c] = b + size[b]
      BY <2>2, <1>4, <1>r
    <3>2. Starts(mapped, gaps, size, b + size[b])
      BY DEF Layout
    <3> QED BY <3>1, <3>2, <1>7
  <2>3. CASE c # b /\ c # r
    <3>1. c \in DOMAIN size /\ size2[c] = size[c]
      BY <2>3, <1>4
    <3>2. Starts(mapped, gaps, size, c + size[c])
      BY <3>1 DEF Layout
    <3> QED BY <3>1, <3>2, <1>7
  <2> QED BY <2>1, <2>2, <2>3
<1>10. \A g \in gaps : Starts(mapped, gaps, size2, heap_start + g[2])
  BY <1>7 DEF Layout
<1>11. Starts(mapped, gaps, size2, heap_start)
  BY <1>7 DEF Layout
<1>12. \A c, d \in DOMAIN size2 : c < d => c + size2[c] <= d
  <2> SUFFICES ASSUME NEW c \in DOMAIN size2, NEW d \in DOMAIN size2, c < d
               PROVE  c + size2[c] <= d
    OBVIOUS
  <2>1. CASE c = b /\ d = r
    BY <2>1, <1>3, <1>4, <1>r
  <2>2. CASE c = r /\ d = b
    BY <2>2, <1>3, <1>2
  <2>3. CASE c = b /\ d # r
    BY <2>3, <1>2, <1>4
  <2>4. CASE c = r /\ d # b
    <3>1. d \in DOMAIN size /\ d # r
      BY <2>4, <1>3, <1>4
    <3>2. b < d
      BY <2>4, <3>1, <1>2, <1>3
    <3> QED BY <3>1, <3>2, <2>4, <1>2, <1>4, <1>r
  <2>5. CASE c # b /\ c # r /\ d = r
    <3>1. c \in DOMAIN size /\ c # b /\ size2[c] = size[c]
      BY <2>5, <1>4
    <3>2. c + size[c] <= b \/ b + size[b] <= c
      BY <3>1, <1>2
    <3> QED BY <3>1, <3>2, <2>5, <1>2, <1>3
  <2>6. CASE c # b /\ c # r /\ d # r
    BY <2>6, <1>2, <1>4
  <2> QED BY <2>1, <2>2, <2>3, <2>4, <2>5, <2>6, <1>3
<1>13. \A c \in DOMAIN size2 : /\ size2[c] \in 8 .. heap_max_size /\ size2[c] % 2 = 0
                               /\ c + size2[c] <= End(mapped)
  <2> SUFFICES ASSUME NEW c \in DOMAIN size2
               PROVE  /\ size2[c] \in 8 .. heap_max_size /\ size2[c] % 2 = 0
                      /\ c + size2[c] <= End(mapped)
    OBVIOUS
  <2>1. CASE c = b
    BY <2>1, <1>1, <1>2, <1>4
  <2>2. CASE c = r
    <3>1. size[b] - t \in 8 .. heap_max_size /\ (size[b] - t) % 2 = 0
      BY <1>2, <1>1
    <3> QED BY <3>1, <2>2, <1>2, <1>4, <1>r
  <2>3. CASE c # b /\ c # r
    BY <2>3, <1>2, <1>4
  <2> QED BY <2>1, <2>2, <2>3
<1>14. \A g \in gaps : \A c \in DOMAIN size2 :
         c + size2[c] <= heap_start + g[1] \/ heap_start + g[2] <= c
  <2> SUFFICES ASSUME NEW g \in gaps, NEW c \in DOMAIN size2
               PROVE  c + size2[c] <= heap_start + g[1] \/ heap_start + g[2] <= c
    OBVIOUS
  <2>0. /\ \A d \in DOMAIN size : d + size[d] <= heap_start + g[1] \/ heap_start + g[2] <= d
        /\ g[1] \in Nat /\ g[2] \in Nat
    BY DEF Layout
  <2>1. CASE c = b
    BY <2>0, <2>1, <1>1, <1>2, <1>4
  <2>2. CASE c = r
    BY <2>0, <2>2, <1>1, <1>2, <1>3, <1>4, <1>r
  <2>3. CASE c # b /\ c # r
    BY <2>0, <2>3, <1>4
  <2> QED BY <2>1, <2>2, <2>3
<1>17. DOMAIN size2 \subseteq Words
  BY <1>2, <1>4, <1>5
<1>18. Layout(mapped, gaps, size2)
  BY <1>9, <1>10, <1>11, <1>12, <1>13, <1>14, <1>17 DEF Layout
<1> QED BY <1>18, <1>3 DEF size2, r

LEMMA JoinLayout ==
  ASSUME NEW mapped, NEW gaps, NEW size, Layout(mapped, gaps, size),
         NEW b \in DOMAIN size, b + size[b] \in DOMAIN size
  PROVE  Layout(mapped, gaps, Joined(size, b))
<1> DEFINE r == b + size[b]
           size2 == Joined(size, b)
<1>1. mapped \in Nat /\ End(mapped) \in Nat /\ heap_start \in Nat /\ heap_max_size \in Nat
      /\ mapped <= heap_max_size /\ End(mapped) = heap_start + mapped
  BY BlockWords, Constants DEF End
<1>2. /\ \A c \in DOMAIN size : /\ c \in Nat /\ c \in Words /\ size[c] \in Nat /\ size[c] >= 8
                                /\ c + size[c] <= End(mapped) /\ c >= heap_start
                                /\ size[c] \in 8 .. heap_max_size /\ size[c] % 2 = 0
      /\ \A c, d \in DOMAIN size : c < d => c + size[c] <= d
  BY BlockWords DEF Layout
<1>3. r \in DOMAIN size /\ r \in Nat /\ r # b /\ r > b
  BY <1>2
<1>r. r = b + size[b]
  OBVIOUS
<1>4. /\ DOMAIN size2 = DOMAIN size \ {r} /\ size2[b] = size[b] + size[r] /\ b \in DOMAIN size2
      /\ \A c \in DOMAIN size2 : c # b => size2[c] = size[c]
  BY <1>3 DEF Joined
<1> HIDE DEF size2, r
<1>5. b + size2[b] = r + size[r]
  BY <1>r, <1>2, <1>3, <1>4
<1>6. \A g \in gaps : g[1] \in Nat /\ g[2] \in Nat /\ g[1] + 8 <= g[2]
  BY DEF Layout
<1>7. \A a : Starts(mapped, gaps, size, a) /\ a # r => Starts(mapped, gaps, size2, a)
  BY <1>4 DEF Starts
<1>8. \A c \in DOMAIN size2 : Starts(mapped, gaps, size2, c + size2[c])
  <2> SUFFICES ASSUME NEW c \in DOMAIN size2
               PROVE  Starts(mapped, gaps, size2, c + size2[c])
    OBVIOUS
  <2>1. CASE c = b
    <3>1. Starts(mapped, gaps, size, r + size[r]) /\ r + size[r] # r
      BY <1>2, <1>3 DEF Layout
    <3> QED BY <3>1, <2>1, <1>5, <1>7
  <2>2. CASE c # b
    <3>1. c \in DOMAIN size /\ c # r /\ size2[c] = size[c]
      BY <2>2, <1>4
    <3>2. Starts(mapped, gaps, size, c + size[c])
      BY <3>1 DEF Layout
    <3>3. c + size[c] # r
      BY <3>1, <2>2, <1>2, <1>r
    <3> QED BY <3>1, <3>2, <3>3, <1>7
  <2> QED BY <2>1, <2>2
<1>9. \A g \in gaps : Starts(mapped, gaps, size2, heap_start + g[2])
  <2> SUFFICES ASSUME NEW g \in gaps PROVE Starts(mapped, gaps, size2, heap_start + g[2])
    OBVIOUS
  <2>1. Starts(mapped, gaps, size, heap_start + g[2])
    BY DEF Layout
  <2>2. b + size[b] <= heap_start + g[1] \/ heap_start + g[2] <= b
    BY DEF Layout
  <2>3. heap_start + g[2] # r
    BY <2>2, <1>1, <1>2, <1>6, <1>r
  <2> QED BY <2>1, <2>3, <1>7
<1>10. Starts(mapped, gaps, size2, heap_start)
  BY <1>2, <1>3, <1>7 DEF Layout
<1>11. \A c, d \in DOMAIN size2 : c < d => c + size2[c] <= d
  <2> SUFFICES ASSUME NEW c \in DOMAIN size2, NEW d \in DOMAIN size2, c < d
               PROVE  c + size2[c] <= d
    OBVIOUS
  <2>0. c \in DOMAIN size /\ d \in DOMAIN size /\ d # r
    BY <1>4
  <2>1. CASE c = b
    <3>1. r <= d
      BY <2>0, <2>1, <1>2, <1>r
    <3>2. r < d
      BY <3>1, <2>0, <1>2, <1>3
    <3>3. r + size[r] <= d
      BY <3>2, <2>0, <1>2, <1>3
    <3> QED BY <3>3, <2>1, <1>5
  <2>2. CASE c # b
    BY <2>0, <2>2, <1>2, <1>4
  <2> QED BY <2>1, <2>2
<1>12. \A c \in DOMAIN size2 : /\ size2[c] \in 8 .. heap_max_size /\ size2[c] % 2 = 0
                               /\ c + size2[c] <= End(mapped)
  <2> SUFFICES ASSUME NEW c \in DOMAIN size2
               PROVE  /\ size2[c] \in 8 .. heap_max_size /\ size2[c] % 2 = 0
                      /\ c + size2[c] <= End(mapped)
    OBVIOUS
  <2>1. CASE c = b
    <3>1. b + size2[b] <= End(mapped)
      BY <1>2, <1>3, <1>5
    <3>2. size2[b] \in Nat /\ size2[b] >= 8 /\ size2[b] % 2 = 0
      BY <1>2, <1>3, <1>4
    <3>3. size2[b] <= heap_max_size
      BY <3>1, <3>2, <1>1, <1>2
    <3> QED BY <3>1, <3>2, <3>3, <2>1, <1>1
  <2>2. CASE c # b
    BY <2>2, <1>2, <1>4
  <2> QED BY <2>1, <2>2
<1>13. \A g \in gaps : \A c \in DOMAIN size2 :
         c + size2[c] <= heap_start + g[1] \/ heap_start + g[2] <= c
  <2> SUFFICES ASSUME NEW g \in gaps, NEW c \in DOMAIN size2
               PROVE  c + size2[c] <= heap_start + g[1] \/ heap_start + g[2] <= c
    OBVIOUS
  <2>0. \A d \in DOMAIN size : d + size[d] <= heap_start + g[1] \/ heap_start + g[2] <= d
    BY DEF Layout
  <2>1. CASE c = b
    <3>1. \/ b + size[b] <= heap_start + g[1]
          \/ heap_start + g[2] <= b
      BY <2>0
    <3>2. \/ r + size[r] <= heap_start + g[1]
          \/ heap_start + g[2] <= r
      BY <2>0, <1>3
    <3> QED BY <3>1, <3>2, <2>1, <1>1, <1>2, <1>3, <1>5, <1>6, <1>r
  <2>2. CASE c # b
    BY <2>0, <2>2, <1>4
  <2> QED BY <2>1, <2>2
<1>14. DOMAIN size2 \subseteq Words
  BY <1>2, <1>4
<1>15. Layout(mapped, gaps, size2)
  BY <1>8, <1>9, <1>10, <1>11, <1>12, <1>13, <1>14 DEF Layout
<1> QED BY <1>15 DEF size2

\* The blocks other than b, and their words, are as they were.
SameBlocks(size, size2, b) ==
  \A c \in DOMAIN size2 : c # b => c \in DOMAIN size /\ size2[c] = size[c]

SameWords(mem, mem2, size2, b) ==
  \A c \in DOMAIN size2 : c # b => \A a \in c .. c + size2[c] - 1 : mem2[a] = mem[a]

\* One block is stored anew; the others and the list are as they were.
LEMMA Rebuilt ==
  ASSUME NEW flag, NEW hp, NEW size, NEW busy, NEW off, NEW n, NEW L,
         Shape(flag, hp, size, busy, off, n, L),
         NEW hq, IsHeap(hq), hq.head = hp.head,
         NEW size2, size2 = [c \in DOMAIN size2 |-> size2[c]],
         Layout(hq.mapped, hq.gaps, size2), Blank(hq.mem, hq.mapped, hq.gaps),
         NEW off2, Offers(size2, busy, off2, n, L), NEW b \in off2,
         FreeTag(hq.mem, b, size2[b]),
         SameBlocks(size, size2, b), SameWords(hp.mem, hq.mem, size2, b)
  PROVE  /\ Shape(flag, hq, size2, busy, off2, n, L)
         /\ Untouched(hp.mem, hq.mem, size, busy)
<1>1. Tags(flag, hp.mem, size, busy) /\ Links(hp.mem, hp.head, n, L)
  BY DEF Shape
<1>2. \A c \in DOMAIN size2 : c \in Nat /\ size2[c] \in Nat /\ size2[c] >= 8
  BY BlockWords
<1>3. Tags(flag, hq.mem, size2, busy)
  <2> SUFFICES ASSUME NEW c \in DOMAIN size2
               PROVE  Tagged(flag, hq.mem, c, size2[c], c \in busy)
    BY DEF Tags
  <2>1. CASE c = b
    <3>1. b \notin busy
      BY DEF Offers
    <3>2. size2[b] \in Nat
      BY <2>1, <1>2
    <3> QED BY <3>1, <3>2, <2>1 DEF Tagged, HeaderWord, FreeTag
  <2>2. CASE c # b
    <3>1. c \in Nat /\ size2[c] \in Nat /\ size2[c] >= 8
      BY <1>2
    <3>2. /\ c \in c .. c + size2[c] - 1 /\ c + 3 \in c .. c + size2[c] - 1
          /\ c + size2[c] - 2 \in c .. c + size2[c] - 1
          /\ c + size2[c] - 1 \in c .. c + size2[c] - 1
      BY <3>1
    <3>3. /\ hq.mem[c] = hp.mem[c] /\ hq.mem[c + 3] = hp.mem[c + 3]
          /\ hq.mem[c + size2[c] - 2] = hp.mem[c + size2[c] - 2]
          /\ hq.mem[c + size2[c] - 1] = hp.mem[c + size2[c] - 1]
      BY <3>2, <2>2 DEF SameWords
    <3>4. Tagged(flag, hp.mem, c, size2[c], c \in busy)
      BY <2>2, <1>1 DEF Tags, SameBlocks
    <3> QED BY <3>3, <3>4 DEF Tagged
  <2> QED BY <2>1, <2>2
<1>4. Links(hq.mem, hq.head, n, L)
  <2>1. \A j \in 1 .. n : L[j] \in DOMAIN size2 /\ L[j] # b
    BY DEF Offers
  <2>2. ASSUME NEW j \in 1 .. n
        PROVE  hq.mem[L[j] + 1] = hp.mem[L[j] + 1] /\ hq.mem[L[j] + 2] = hp.mem[L[j] + 2]
    <3> DEFINE c == L[j]
    <3>1. c \in DOMAIN size2 /\ c # b /\ c \in Nat /\ size2[c] \in Nat /\ size2[c] >= 8
      BY <2>1, <1>2
    <3> HIDE DEF c
    <3>2. c + 1 \in c .. c + size2[c] - 1 /\ c + 2 \in c .. c + size2[c] - 1
      BY <3>1
    <3>3. hq.mem[c + 1] = hp.mem[c + 1] /\ hq.mem[c + 2] = hp.mem[c + 2]
      BY <3>1, <3>2 DEF SameWords
    <3> QED BY <3>3 DEF c
  <2> QED BY <2>2, <1>1 DEF Links
<1>5. Untouched(hp.mem, hq.mem, size, busy)
  <2> SUFFICES ASSUME NEW c \in busy, NEW a \in c + 4 .. c + size[c] - 3
               PROVE  hq.mem[a] = hp.mem[a]
    BY DEF Untouched
  <2>1. c \in DOMAIN size2 /\ c # b
    BY DEF Offers
  <2>2. size2[c] = size[c] /\ c \in Nat /\ size2[c] \in Nat /\ size2[c] >= 8
    BY <2>1, <1>2 DEF SameBlocks
  <2>3. a \in c .. c + size2[c] - 1
    BY <2>2
  <2> QED BY <2>1, <2>3 DEF SameWords
<1> QED BY <1>3, <1>4, <1>5 DEF Shape

\* Newly mapped words become a block that is not listed yet.
LEMMA Extend ==
  ASSUME FooterHoldsFlag \in BOOLEAN,
         NEW hp, NEW size, NEW busy, NEW off, NEW n, NEW L,
         Shape(FooterHoldsFlag, hp, size, busy, off, n, L),
         NEW m \in Nat, m >= 8, m % 2 = 0, hp.mapped + m <= heap_max_size,
         NEW hq, IsHeap(hq), hq.head = hp.head, hq.mapped = hp.mapped + m, hq.gaps = hp.gaps,
         NEW e, e = End(hp.mapped), hq.mem = StoredFree(hp.mem, e, m)
  PROVE  /\ Shape(FooterHoldsFlag, hq, Plus(size, e, m), busy, off \cup {e}, n, L)
         /\ Untouched(hp.mem, hq.mem, size, busy)
         /\ e \notin DOMAIN size
<1> DEFINE size2 == Plus(size, e, m)
<1>1. /\ IsHeap(hp) /\ Layout(hp.mapped, hp.gaps, size)
      /\ Blank(hp.mem, hp.mapped, hp.gaps)
      /\ Offers(size, busy, off, n, L)
  BY DEF Shape
<1>2. Layout(hq.mapped, hq.gaps, size2) /\ e \notin DOMAIN size
  BY <1>1, PlusLayout
<1>3. /\ hp.mapped \in Nat /\ e \in Nat /\ e >= heap_start /\ e = heap_start + hp.mapped
      /\ e + m <= heap_start + heap_max_size
      /\ heap_start \in Nat /\ heap_max_size \in Nat
  BY <1>1, BlockWords, Constants DEF End
<1>4. /\ FreeTag(hq.mem, e, m)
      /\ \A a \in Words : a < e \/ a >= e + m => hq.mem[a] = hp.mem[a]
  <2>1. hp.mem \in [Words -> Int]
    BY <1>1 DEF IsHeap
  <2> QED BY <2>1, <1>3, SetBlockFree
<1>5. /\ DOMAIN size2 = DOMAIN size \cup {e} /\ size2[e] = m
      /\ \A c \in DOMAIN size2 : c # e => c \in DOMAIN size /\ size2[c] = size[c]
      /\ size2 = [c \in DOMAIN size2 |-> size2[c]]
  BY <1>2 DEF Plus
<1> HIDE DEF size2
<1>6. Offers(size2, busy, off \cup {e}, n, L)
  BY <1>1, <1>2, <1>5 DEF Offers
<1>7. ASSUME NEW c \in DOMAIN size2, c # e, NEW a \in c .. c + size2[c] - 1
      PROVE  hq.mem[a] = hp.mem[a]
  <2>1. c \in DOMAIN size /\ size2[c] = size[c]
    BY <1>5, <1>7
  <2>2. c \in Nat /\ size[c] \in Nat /\ c >= heap_start /\ c + size[c] <= e
    BY <2>1, <1>1, <1>3, BlockWords
  <2>3. a \in Words /\ a < e
    BY <2>1, <2>2, <1>3 DEF Words
  <2> QED BY <2>3, <1>4
<1>8. Blank(hq.mem, hq.mapped, hq.gaps)
  <2>1. ASSUME NEW a \in Words, a >= End(hq.mapped) PROVE hq.mem[a] = 0
    <3>1. a \in Nat /\ a >= e + m /\ a >= End(hp.mapped)
      BY <2>1, <1>3 DEF Words, End
    <3> QED BY <3>1, <1>1, <1>4 DEF Blank
  <2>2. ASSUME NEW g \in hp.gaps, NEW a \in heap_start + g[1] .. heap_start + g[2] - 1
        PROVE  hq.mem[a] = 0
    <3>1. g[1] \in Nat /\ g[2] \in Nat /\ g[2] <= hp.mapped
      BY <1>1 DEF Layout
    <3>2. a \in Words /\ a < e
      BY <3>1, <1>3 DEF Words
    <3> QED BY <3>2, <1>1, <1>4 DEF Blank
  <2> QED BY <2>1, <2>2 DEF Blank
<1>9. /\ Shape(FooterHoldsFlag, hq, size2, busy, off \cup {e}, n, L)
      /\ Untouched(hp.mem, hq.mem, size, busy)
  <2>1. e \in off \cup {e} /\ FreeTag(hq.mem, e, size2[e])
    BY <1>4, <1>5
  <2>2. SameBlocks(size, size2, e) /\ SameWords(hp.mem, hq.mem, size2, e)
    BY <1>5, <1>7 DEF SameBlocks, SameWords
  <2> QED BY <2>1, <2>2, <1>2, <1>5, <1>6, <1>8, Rebuilt
<1> QED BY <1>9, <1>2 DEF size2

\* Pages mapped in vain become a gap.
LEMMA Lose ==
  ASSUME NEW flag, NEW hp, NEW size, NEW busy, NEW off, NEW n, NEW L,
         Shape(flag, hp, size, busy, off, n, L),
         NEW m \in Nat, m >= 8, hp.mapped + m <= heap_max_size,
         NEW hq, IsHeap(hq), hq.head = hp.head, hq.mem = hp.mem, hq.mapped = hp.mapped + m,
         hq.gaps = hp.gaps \cup {<<hp.mapped, hp.mapped + m>>}
  PROVE  Shape(flag, hq, size, busy, off, n, L)
<1>1. Layout(hp.mapped, hp.gaps, size) /\ Blank(hp.mem, hp.mapped, hp.gaps)
  BY DEF Shape
<1>2. Layout(hq.mapped, hq.gaps, size)
  BY <1>1, GapLayout
<1>3. /\ hp.mapped \in Nat /\ heap_start \in Nat /\ heap_max_size \in Nat
      /\ End(hp.mapped) = heap_start + hp.mapped
      /\ End(hq.mapped) = heap_start + hp.mapped + m
  BY <1>1, BlockWords, Constants DEF End
<1>4. ASSUME NEW a \in Words, a >= End(hq.mapped) PROVE hq.mem[a] = 0
  BY <1>1, <1>3, <1>4 DEF Blank, Words
<1>5. ASSUME NEW g \in hq.gaps, NEW a \in heap_start + g[1] .. heap_start + g[2] - 1
      PROVE  hq.mem[a] = 0
  <2>1. CASE g \in hp.gaps
    BY <2>1, <1>1 DEF Blank
  <2>2. CASE g = <<hp.mapped, hp.mapped + m>>
    <3>1. g[1] = hp.mapped /\ g[2] = hp.mapped + m
      BY <2>2
    <3>2. a \in Words /\ a >= End(hp.mapped)
      BY <3>1, <1>3 DEF Words
    <3> QED BY <3>2, <1>1 DEF Blank
  <2> QED BY <2>1, <2>2
<1>6. Blank(hq.mem, hq.mapped, hq.gaps)
  BY <1>4, <1>5 DEF Blank
<1> QED BY <1>2, <1>6 DEF Shape

\* Two blocks off the list that follow each other become one.
LEMMA Join ==
  ASSUME FooterHoldsFlag \in BOOLEAN,
         NEW hp, NEW size, NEW busy, NEW off, NEW n, NEW L,
         Shape(FooterHoldsFlag, hp, size, busy, off, n, L),
         NEW b \in off, NEW r \in off, r = b + size[b],
         NEW hq, IsHeap(hq), hq.head = hp.head, Quiet(hp, hq),
         hq.mem = StoredFree(hp.mem, b, size[b] + size[r])
  PROVE  /\ Shape(FooterHoldsFlag, hq, Joined(size, b), busy, off \ {r}, n, L)
         /\ Untouched(hp.mem, hq.mem, size, busy)
<1> DEFINE size2 == Joined(size, b)
           m == size[b] + size[r]
<1>1. /\ IsHeap(hp) /\ Layout(hp.mapped, hp.gaps, size)
      /\ Blank(hp.mem, hp.mapped, hp.gaps)
      /\ Offers(size, busy, off, n, L)
  BY DEF Shape
<1>2. b \in DOMAIN size /\ r \in DOMAIN size
  BY <1>1 DEF Offers
<1>3. Layout(hq.mapped, hq.gaps, size2)
  <2>1. Layout(hp.mapped, hp.gaps, size2)
    BY <1>1, <1>2, JoinLayout
  <2> QED BY <2>1 DEF Quiet
<1>4. /\ \A c \in DOMAIN size : /\ c \in Nat /\ c >= heap_start /\ size[c] \in Nat /\ size[c] >= 8
                                /\ c + size[c] <= heap_start + heap_max_size
      /\ \A c, d \in DOMAIN size : c # d => c + size[c] <= d \/ d + size[d] <= c
      /\ heap_start \in Nat /\ heap_max_size \in Nat
  BY <1>1, BlockWords, Constants
<1>5. m \in Nat /\ m >= 8 /\ b + m = r + size[r] /\ r > b
  BY <1>2, <1>4
<1>6. /\ FreeTag(hq.mem, b, m)
      /\ \A a \in Words : a < b \/ a >= b + m => hq.mem[a] = hp.mem[a]
  <2>1. hp.mem \in [Words -> Int]
    BY <1>1 DEF IsHeap
  <2>2. b \in Nat /\ b >= heap_start /\ b + m <= heap_start + heap_max_size
    BY <1>2, <1>4, <1>5
  <2> HIDE DEF m
  <2>3. hq.mem = StoredFree(hp.mem, b, m)
    BY DEF m
  <2> QED BY <2>1, <2>2, <2>3, <1>5, SetBlockFree
<1>7. /\ DOMAIN size2 = DOMAIN size \ {r} /\ size2[b] = m /\ b \in DOMAIN size2
      /\ \A c \in DOMAIN size2 : c # b => c \in DOMAIN size /\ size2[c] = size[c]
      /\ size2 = [c \in DOMAIN size2 |-> size2[c]]
  <2>1. DOMAIN size2 = DOMAIN size \ {b + size[b]} /\ size2 = [c \in DOMAIN size2 |-> size2[c]]
    BY DEF Joined
  <2>2. b \in DOMAIN size2 /\ size2[b] = size[b] + size[b + size[b]]
    <3>1. b # b + size[b]
      BY <1>2, <1>4
    <3> QED BY <3>1, <1>2 DEF Joined
  <2>3. \A c \in DOMAIN size2 : c # b => c \in DOMAIN size /\ size2[c] = size[c]
    BY DEF Joined
  <2> QED BY <2>1, <2>2, <2>3
<1> HIDE DEF size2, m
<1>8. Offers(size2, busy, off \ {r}, n, L)
  BY <1>1, <1>2, <1>7 DEF Offers
<1>9. ASSUME NEW c \in DOMAIN size2, c # b, NEW a \in c .. c + size2[c] - 1
      PROVE  hq.mem[a] = hp.mem[a]
  <2>1. c \in DOMAIN size /\ size2[c] = size[c] /\ c # r
    BY <1>7, <1>9
  <2>2. c \in Nat /\ size[c] \in Nat /\ c >= heap_start /\ c + size[c] <= heap_start + heap_max_size
        /\ b \in Nat /\ size[b] \in Nat /\ r \in Nat /\ size[r] \in Nat
    BY <2>1, <1>2, <1>4
  <2>3. (c + size[c] <= b \/ b + size[b] <= c) /\ (c + size[c] <= r \/ r + size[r] <= c)
    BY <2>1, <1>2, <1>4, <1>9
  <2>4. a \in Words /\ (a < b \/ a >= b + m)
    <3>1. a \in Nat /\ a >= c /\ a < c + size[c]
      BY <2>1, <2>2
    <3>2. a < b \/ a >= b + m
      BY <3>1, <2>1, <2>2, <2>3, <1>5, <1>4
    <3> QED BY <3>1, <3>2, <2>2, <1>4 DEF Words
  <2> QED BY <2>4, <1>6
<1>10. InBlocks(hp.mem, hq.mem, size)
  <2> SUFFICES ASSUME NEW a \in Words, hq.mem[a] # hp.mem[a]
               PROVE  \E d \in DOMAIN size : d <= a /\ a < d + size[d]
    BY DEF InBlocks
  <2>1. a \in Nat /\ b <= a /\ a < b + m
    <3>1. ~ (a < b) /\ ~ (a >= b + m)
      BY <1>6
    <3>2. a \in Nat /\ b \in Nat /\ m \in Nat
      BY <1>2, <1>4, <1>5 DEF Words
    <3> QED BY <3>1, <3>2
  <2>2. (b <= a /\ a < b + size[b]) \/ (r <= a /\ a < r + size[r])
    BY <2>1, <1>2, <1>4, <1>5
  <2> QED BY <2>2, <1>2
<1>11. Blank(hq.mem, hq.mapped, hq.gaps)
  <2>1. Blank(hq.mem, hp.mapped, hp.gaps)
    BY <1>1, <1>10, BlankKept
  <2> QED BY <2>1 DEF Quiet
<1>12. /\ Shape(FooterHoldsFlag, hq, size2, busy, off \ {r}, n, L)
       /\ Untouched(hp.mem, hq.mem, size, busy)
  <2>1. b \in off \ {r} /\ FreeTag(hq.mem, b, size2[b])
    BY <1>6, <1>7, <1>2, <1>4, <1>5
  <2>2. SameBlocks(size, size2, b) /\ SameWords(hp.mem, hq.mem, size2, b)
    BY <1>7, <1>9 DEF SameBlocks, SameWords
  <2> QED BY <2>1, <2>2, <1>3, <1>7, <1>8, <1>11, Rebuilt
<1> QED BY <1>12 DEF size2

\* Stores into the payload of a busy block.
LEMMA Store ==
  ASSUME NEW flag, NEW hp, NEW size, NEW busy, NEW off, NEW n, NEW L,
         Shape(flag, hp, size, busy, off, n, L), NEW b \in busy,
         NEW hq, IsHeap(hq), Quiet(hp, hq), hq.head = hp.head,
         \A a \in Words : a < b + 4 \/ a > b + size[b] - 3 => hq.mem[a] = hp.mem[a]
  PROVE  /\ Shape(flag, hq, size, busy, off, n, L)
         /\ Untouched(hp.mem, hq.mem, size, busy \ {b})
<1>1. /\ Layout(hp.mapped, hp.gaps, size) /\ Tags(flag, hp.mem, size, busy)
      /\ Blank(hp.mem, hp.mapped, hp.gaps)
      /\ Offers(size, busy, off, n, L) /\ Links(hp.mem, hp.head, n, L)
      /\ size = [c \in DOMAIN size |-> size[c]]
  BY DEF Shape
<1>2. b \in DOMAIN size /\ busy \subseteq DOMAIN size
  BY <1>1 DEF Offers
<1>3. /\ \A c \in DOMAIN size : /\ c \in Nat /\ c >= heap_start /\ size[c] \in Nat /\ size[c] >= 8
                                /\ c + size[c] <= heap_start + heap_max_size
      /\ \A c, d \in DOMAIN size : c # d => c + size[c] <= d \/ d + size[d] <= c
      /\ heap_start \in Nat /\ heap_max_size \in Nat
  BY <1>1, BlockWords, Constants
<1>5. ASSUME NEW c \in DOMAIN size, NEW a \in c .. c + size[c] - 1,
             c # b \/ a < c + 4 \/ a > c + size[c] - 3
      PROVE  hq.mem[a] = hp.mem[a]
  <2>0. c \in Nat /\ size[c] \in Nat /\ b \in Nat /\ size[b] \in Nat /\ size[b] >= 8
    BY <1>2, <1>3
  <2>1. a \in Words
    BY <1>3, <2>0 DEF Words
  <2>2. a < b + 4 \/ a > b + size[b] - 3
    <3>1. CASE c = b
      BY <3>1, <1>5
    <3>2. CASE c # b
      <4>1. c + size[c] <= b \/ b + size[b] <= c
        BY <3>2, <1>2, <1>3
      <4> QED BY <4>1, <2>0
    <3> QED BY <3>1, <3>2
  <2> QED BY <2>1, <2>2
<1>6. Tags(flag, hq.mem, size, busy)
  <2> SUFFICES ASSUME NEW c \in DOMAIN size
               PROVE  Tagged(flag, hq.mem, c, size[c], c \in busy)
    BY DEF Tags
  <2>1. c \in Nat /\ size[c] \in Nat /\ size[c] >= 8
    BY <1>3
  <2>2. /\ c \in c .. c + size[c] - 1 /\ c < c + 4
        /\ c + 3 \in c .. c + size[c] - 1 /\ c + 3 < c + 4
        /\ c + size[c] - 2 \in c .. c + size[c] - 1 /\ c + size[c] - 2 > c + size[c] - 3
        /\ c + size[c] - 1 \in c .. c + size[c] - 1 /\ c + size[c] - 1 > c + size[c] - 3
    BY <2>1
  <2>3. /\ hq.mem[c] = hp.mem[c] /\ hq.mem[c + 3] = hp.mem[c + 3]
        /\ hq.mem[c + size[c] - 2] = hp.mem[c + size[c] - 2]
        /\ hq.mem[c + size[c] - 1] = hp.mem[c + size[c] - 1]
    BY <2>2, <1>5
  <2>4. Tagged(flag, hp.mem, c, size[c], c \in busy)
    BY <1>1 DEF Tags
  <2> QED BY <2>3, <2>4 DEF Tagged
<1>7. InBlocks(hp.mem, hq.mem, size)
  <2> SUFFICES ASSUME NEW a \in Words, hq.mem[a] # hp.mem[a]
               PROVE  b <= a /\ a < b + size[b]
    BY <1>2 DEF InBlocks
  <2>1. a \in Nat
    BY <1>3 DEF Words
  <2> QED BY <2>1, <1>2, <1>3
<1>8. Blank(hq.mem, hp.mapped, hp.gaps)
  BY <1>1, <1>7, BlankKept
<1>9. Links(hq.mem, hq.head, n, L)
  <2>1. \A j \in 1 .. n : L[j] \in DOMAIN size
    BY <1>1 DEF Offers
  <2>2. ASSUME NEW j \in 1 .. n
        PROVE  hq.mem[L[j] + 1] = hp.mem[L[j] + 1] /\ hq.mem[L[j] + 2] = hp.mem[L[j] + 2]
    <3> DEFINE c == L[j]
    <3>1. c \in DOMAIN size /\ c \in Nat /\ size[c] \in Nat /\ size[c] >= 8
      BY <2>1, <1>3
    <3> HIDE DEF c
    <3>2. /\ c + 1 \in c .. c + size[c] - 1 /\ c + 2 \in c .. c + size[c] - 1
          /\ c + 1 < c + 4 /\ c + 2 < c + 4
      BY <3>1
    <3>3. hq.mem[c + 1] = hp.mem[c + 1] /\ hq.mem[c + 2] = hp.mem[c + 2]
      BY <3>1, <3>2, <1>5
    <3> QED BY <3>3 DEF c
  <2> QED BY <2>2, <1>1 DEF Links
<1>10. Untouched(hp.mem, hq.mem, size, busy \ {b})
  <2> SUFFICES ASSUME NEW c \in busy \ {b}, NEW a \in c + 4 .. c + size[c] - 3
               PROVE  hq.mem[a] = hp.mem[a]
    BY DEF Untouched
  <2>1. c \in DOMAIN size /\ c \in Nat /\ size[c] \in Nat /\ size[c] >= 8
    BY <1>2, <1>3
  <2>2. a \in c .. c + size[c] - 1
    BY <2>1
  <2> QED BY <2>1, <2>2, <1>5
<1> QED BY <1>1, <1>6, <1>8, <1>9, <1>10 DEF Shape, Quiet

-----------------------------------------------------------------------------
\* What take_block stores when it cuts b after t of its sz words: the rest r
\* takes the place of b between p and x.
Carved(mem, mem2, b, sz, t, p, x) ==
  /\ mem2 \in [Words -> Int]
  /\ BusyTag(mem2, b, t) /\ FreeTag(mem2, b + t, sz - t)
  /\ mem2[b + t + 1] = p /\ mem2[b + t + 2] = x
  /\ p # NULL => mem2[p + 2] = b + t
  /\ x # NULL => mem2[x + 1] = b + t
  /\ \A a \in Words :
       (a < b \/ a >= b + sz) /\ (p = NULL \/ a # p + 2) /\ (x = NULL \/ a # x + 1)
         => mem2[a] = mem[a]

LEMMA CutWords ==
  ASSUME NEW mem \in [Words -> Int], NEW b \in Nat, NEW sz \in Nat, NEW t \in Nat,
         b >= heap_start, t >= 8, sz >= t + 8, b + sz <= heap_start + heap_max_size,
         NEW r, r = b + t,
         NEW p \in Int, NEW x \in Int, p = NULL \/ x = NULL \/ p + 2 # x + 1,
         p = NULL \/ (p + 2 \in Words /\ (p + 2 < b \/ p + 2 >= b + sz)),
         x = NULL \/ (x + 1 \in Words /\ (x + 1 < b \/ x + 1 >= b + sz)),
         NEW m1, m1 = StoredFree(mem, r, sz - t),
         NEW m2, m2 = set_next(m1, p, r),
         NEW m3, m3 = set_prev(m2, x, r),
         NEW m4, m4 = set_prev(m3, r, p),
         NEW m5, m5 = set_next(m4, r, x),
         NEW mem2, mem2 = StoredBusy(m5, b, t)
  PROVE  Carved(mem, mem2, b, sz, t, p, x)
<1>0. /\ r \in Nat /\ r >= heap_start /\ sz - t \in Nat /\ sz - t >= 8 /\ r # NULL
      /\ r + (sz - t) <= heap_start + heap_max_size /\ r + (sz - t) = b + sz
      /\ b + t <= heap_start + heap_max_size
      /\ heap_start \in Nat /\ heap_max_size \in Nat
  BY Constants
<1>w. r + 1 \in Words /\ r + 2 \in Words /\ r + 1 \in Int /\ r + 2 \in Int
  BY <1>0 DEF Words
<1>1. /\ m1 \in [Words -> Int] /\ FreeTag(m1, r, sz - t)
      /\ \A a \in Words : a < r \/ a >= r + (sz - t) => m1[a] = mem[a]
  <2> DEFINE q == sz - t
  <2>1. q \in Nat /\ q >= 8 /\ r + q <= heap_start + heap_max_size /\ m1 = StoredFree(mem, r, q)
    BY <1>0
  <2> HIDE DEF q
  <2>2. /\ m1 \in [Words -> Int] /\ FreeTag(m1, r, q)
        /\ \A a \in Words : a < r \/ a >= r + q => m1[a] = mem[a]
    BY <2>1, <1>0, SetBlockFree
  <2> QED BY <2>2 DEF q
<1>2. /\ m2 \in [Words -> Int]
      /\ p # NULL => m2[p + 2] = r
      /\ \A a \in Words : p = NULL \/ a # p + 2 => m2[a] = m1[a]
  BY <1>0, <1>1 DEF set_next
<1>3. /\ m3 \in [Words -> Int]
      /\ x # NULL => m3[x + 1] = r
      /\ \A a \in Words : x = NULL \/ a # x + 1 => m3[a] = m2[a]
  BY <1>0, <1>2 DEF set_prev
<1>4. /\ m4 \in [Words -> Int] /\ m4[r + 1] = p
      /\ \A a \in Words : a # r + 1 => m4[a] = m3[a]
  BY <1>0, <1>3, <1>w DEF set_prev
<1>5. /\ m5 \in [Words -> Int] /\ m5[r + 2] = x
      /\ \A a \in Words : a # r + 2 => m5[a] = m4[a]
  BY <1>0, <1>4, <1>w DEF set_next
<1>6. /\ mem2 \in [Words -> Int] /\ BusyTag(mem2, b, t)
      /\ \A a \in Words : a < b \/ a >= b + t => mem2[a] = m5[a]
  BY <1>0, <1>5, SetBlockBusy
<1>7. ASSUME NEW a \in Words, a >= r, a < b + sz, a # r + 1, a # r + 2
      PROVE  mem2[a] = m1[a]
  <2>1. a \in Nat /\ a >= b + t
    BY <1>0, <1>7 DEF Words
  <2>2. (p = NULL \/ a # p + 2) /\ (x = NULL \/ a # x + 1)
    BY <2>1, <1>7, <1>0
  <2> QED BY <2>1, <2>2, <1>7, <1>2, <1>3, <1>4, <1>5, <1>6
<1>8. FreeTag(mem2, r, sz - t)
  <2> DEFINE q == sz - t
  <2>1. q \in Nat /\ q >= 8 /\ r + q = b + sz
    BY <1>0
  <2> HIDE DEF q
  <2>2. r \in Words /\ r + 3 \in Words /\ r + q - 2 \in Words /\ r + q - 1 \in Words
    BY <2>1, <1>0 DEF Words
  <2>3. /\ mem2[r] = m1[r] /\ mem2[r + 3] = m1[r + 3]
        /\ mem2[r + q - 2] = m1[r + q - 2] /\ mem2[r + q - 1] = m1[r + q - 1]
    <3>1. r >= r /\ r < b + sz /\ r # r + 1 /\ r # r + 2
      BY <2>1, <1>0
    <3>2. r + 3 >= r /\ r + 3 < b + sz /\ r + 3 # r + 1 /\ r + 3 # r + 2
      BY <2>1, <1>0
    <3>3. r + q - 2 >= r /\ r + q - 2 < b + sz /\ r + q - 2 # r + 1 /\ r + q - 2 # r + 2
      BY <2>1, <1>0
    <3>4. r + q - 1 >= r /\ r + q - 1 < b + sz /\ r + q - 1 # r + 1 /\ r + q - 1 # r + 2
      BY <2>1, <1>0
    <3> QED BY <3>1, <3>2, <3>3, <3>4, <2>2, <1>7
  <2>4. FreeTag(m1, r, q)
    BY <1>1 DEF q
  <2>5. FreeTag(mem2, r, q)
    BY <2>3, <2>4 DEF FreeTag
  <2> QED BY <2>5 DEF q
<1>9. mem2[r + 1] = p /\ mem2[r + 2] = x
  <2>1. r + 1 >= b + t /\ r + 2 >= b + t /\ r + 1 # r + 2
    BY <1>0
  <2>2. mem2[r + 1] = m5[r + 1] /\ mem2[r + 2] = m5[r + 2]
    BY <2>1, <1>w, <1>6
  <2>3. m5[r + 1] = m4[r + 1]
    BY <2>1, <1>w, <1>5
  <2> QED BY <2>2, <2>3, <1>4, <1>5
<1>10. ASSUME NEW a \in Words, a < b \/ a >= b + sz PROVE mem2[a] = m3[a]
  <2>1. a \in Nat /\ (a < b \/ a >= b + t) /\ a # r + 1 /\ a # r + 2
    BY <1>0, <1>10 DEF Words
  <2> QED BY <2>1, <1>4, <1>5, <1>6
<1>11. p # NULL => mem2[p + 2] = r
  BY <1>10, <1>2, <1>3
<1>12. x # NULL => mem2[x + 1] = r
  BY <1>10, <1>3
<1>13. ASSUME NEW a \in Words, a < b \/ a >= b + sz, p = NULL \/ a # p + 2, x = NULL \/ a # x + 1
       PROVE  mem2[a] = mem[a]
  <2>1. a < r \/ a >= r + (sz - t)
    BY <1>0, <1>13 DEF Words
  <2> QED BY <2>1, <1>10, <1>13, <1>1, <1>2, <1>3
<1> QED BY <1>6, <1>8, <1>9, <1>11, <1>12, <1>13 DEF Carved

LEMMA Carve ==
  ASSUME FooterHoldsFlag \in BOOLEAN,
         NEW hp, NEW size, NEW busy, NEW off, NEW n, NEW L,
         Shape(FooterHoldsFlag, hp, size, busy, off, n, L),
         NEW i \in 1 .. n, NEW b, b = L[i],
         NEW t \in Nat, t >= 8, t % 2 = 0, size[b] >= t + 8,
         NEW p, p = (IF i = 1 THEN NULL ELSE L[i - 1]),
         NEW x, x = (IF i = n THEN NULL ELSE L[i + 1]),
         NEW hq, IsHeap(hq), Quiet(hp, hq),
         hq.head = (IF p = NULL THEN b + t ELSE hp.head),
         Carved(hp.mem, hq.mem, b, size[b], t, p, x)
  PROVE  /\ Shape(FooterHoldsFlag, hq, Cut(size, b, t), busy \cup {b}, off, n,
                  [L EXCEPT ![i] = b + t])
         /\ Untouched(hp.mem, hq.mem, size, busy)
<1> DEFINE r == b + t
           size2 == Cut(size, b, t)
           busy2 == busy \cup {b}
           L2 == [L EXCEPT ![i] = r]
<1>1. /\ IsHeap(hp) /\ Layout(hp.mapped, hp.gaps, size) /\ Tags(FooterHoldsFlag, hp.mem, size, busy)
      /\ Blank(hp.mem, hp.mapped, hp.gaps)
      /\ Offers(size, busy, off, n, L) /\ Links(hp.mem, hp.head, n, L)
  BY DEF Shape
<1>2. /\ n \in Nat /\ b \in DOMAIN size /\ L = [j \in 1 .. n |-> L[j]]
      /\ \A j \in 1 .. n : L[j] \in DOMAIN size /\ L[j] \notin busy /\ L[j] \notin off
      /\ \A j, k \in 1 .. n : j # k => L[j] # L[k]
      /\ busy \subseteq DOMAIN size /\ off \subseteq DOMAIN size
  BY <1>1 DEF Offers
<1>3. /\ \A c \in DOMAIN size : /\ c \in Nat /\ c >= heap_start /\ size[c] \in Nat /\ size[c] >= 8
                                /\ c + size[c] <= heap_start + heap_max_size /\ c # NULL
      /\ \A c, d \in DOMAIN size : c # d => c + size[c] <= d \/ d + size[d] <= c
      /\ heap_start \in Nat /\ heap_max_size \in Nat
  BY <1>1, BlockWords, Constants
<1>4. Layout(hp.mapped, hp.gaps, size2) /\ r \notin DOMAIN size
  BY <1>1, <1>2, CutLayout
<1>5. r \in Nat /\ r > b /\ r + 8 <= b + size[b] /\ r # b /\ b \in Nat /\ size[b] \in Nat
  BY <1>2, <1>3
<1>r. r + (size[b] - t) = b + size[b] /\ size[b] - t \in Nat /\ size[b] - t >= 8
  BY <1>5
<1>6. /\ DOMAIN size2 = DOMAIN size \cup {r} /\ size2[b] = t /\ size2[r] = size[b] - t
      /\ \A c \in DOMAIN size : c # b => size2[c] = size[c]
      /\ size2 = [c \in DOMAIN size2 |-> size2[c]]
  BY <1>2, <1>4, <1>5 DEF Cut
<1>7. /\ L2 = [j \in 1 .. n |-> L2[j]] /\ L2[i] = r
      /\ \A j \in 1 .. n : j # i => L2[j] = L[j]
  BY <1>2
<1>8. /\ BusyTag(hq.mem, b, t) /\ FreeTag(hq.mem, r, size[b] - t)
      /\ hq.mem[r + 1] = p /\ hq.mem[r + 2] = x
      /\ p # NULL => hq.mem[p + 2] = r
      /\ x # NULL => hq.mem[x + 1] = r
      /\ \A a \in Words :
           (a < b \/ a >= b + size[b]) /\ (p = NULL \/ a # p + 2) /\ (x = NULL \/ a # x + 1)
             => hq.mem[a] = hp.mem[a]
  BY DEF Carved
<1> HIDE DEF r, size2, L2
<1>9. /\ i # 1 => i - 1 \in 1 .. n /\ p = L[i - 1] /\ p \in DOMAIN size /\ p # b /\ p # NULL
      /\ i # n => i + 1 \in 1 .. n /\ x = L[i + 1] /\ x \in DOMAIN size /\ x # b /\ x # NULL
      /\ i = 1 => p = NULL
      /\ i = n => x = NULL
  <2>1. i # 1 => i - 1 \in 1 .. n /\ i - 1 # i
    BY <1>2
  <2>2. i # n => i + 1 \in 1 .. n /\ i + 1 # i
    BY <1>2
  <2> QED BY <2>1, <2>2, <1>2, <1>3
<1>10. /\ \A c \in DOMAIN size : c + 1 \in Words /\ c + 2 \in Words
       /\ \A c, d \in DOMAIN size : c + 1 # d + 2
       /\ \A c, d \in DOMAIN size : c # d => c + 1 # d + 1 /\ c + 2 # d + 2
       /\ \A c, d \in DOMAIN size : \A a \in Fixed(size, d) : a # c + 1 /\ a # c + 2
       /\ \A d \in DOMAIN size : Fixed(size, d) \subseteq Words
  BY <1>1, LinkWords
\* The words of the other blocks that are not links.
<1>11. ASSUME NEW c \in DOMAIN size, c # b, NEW a \in Fixed(size, c)
       PROVE  hq.mem[a] = hp.mem[a]
  <2>1. a \in Words
    BY <1>10
  <2>2. c \in Nat /\ size[c] \in Nat /\ size[c] >= 8 /\ (c + size[c] <= b \/ b + size[b] <= c)
    BY <1>2, <1>3, <1>11
  <2>3. a \in Nat /\ c <= a /\ a < c + size[c]
    BY <2>2 DEF Fixed
  <2>4. a < b \/ a >= b + size[b]
    BY <2>2, <2>3, <1>5
  <2>5. (p = NULL \/ a # p + 2) /\ (x = NULL \/ a # x + 1)
    BY <1>9, <1>10
  <2> QED BY <2>1, <2>4, <2>5, <1>8
<1>12. Tags(FooterHoldsFlag, hq.mem, size2, busy2)
  <2> SUFFICES ASSUME NEW c \in DOMAIN size2
               PROVE  Tagged(FooterHoldsFlag, hq.mem, c, size2[c], c \in busy2)
    BY DEF Tags
  <2>1. CASE c = b
    BY <2>1, <1>6, <1>8 DEF Tagged, HeaderWord, BusyTag
  <2>2. CASE c = r
    <3>1. c \notin busy2
      BY <2>2, <1>2, <1>4, <1>5
    <3> DEFINE q == size[b] - t
    <3>2. q \in Nat /\ size2[c] = q /\ FreeTag(hq.mem, c, q)
      BY <2>2, <1>r, <1>6, <1>8
    <3> HIDE DEF q
    <3> QED BY <3>1, <3>2 DEF Tagged, HeaderWord, FreeTag
  <2>3. CASE c # b /\ c # r
    <3>1. c \in DOMAIN size /\ size2[c] = size[c] /\ (c \in busy2) = (c \in busy)
      BY <2>3, <1>6
    <3>2. c \in Nat /\ size[c] \in Nat /\ size[c] >= 8
      BY <3>1, <1>3
    <3>3. c \in Fixed(size, c) /\ c + 3 \in Fixed(size, c)
          /\ c + size[c] - 2 \in Fixed(size, c) /\ c + size[c] - 1 \in Fixed(size, c)
      BY <3>2 DEF Fixed
    <3>4. /\ hq.mem[c] = hp.mem[c] /\ hq.mem[c + 3] = hp.mem[c + 3]
          /\ hq.mem[c + size[c] - 2] = hp.mem[c + size[c] - 2]
          /\ hq.mem[c + size[c] - 1] = hp.mem[c + size[c] - 1]
      BY <3>1, <3>3, <2>3, <1>11
    <3>5. Tagged(FooterHoldsFlag, hp.mem, c, size[c], c \in busy)
      BY <3>1, <1>1 DEF Tags
    <3> QED BY <3>1, <3>4, <3>5 DEF Tagged, HeaderWord
  <2> QED BY <2>1, <2>2, <2>3
<1>13. InBlocks(hp.mem, hq.mem, size)
  <2> SUFFICES ASSUME NEW a \in Words, hq.mem[a] # hp.mem[a]
               PROVE  \E d \in DOMAIN size : d <= a /\ a < d + size[d]
    BY DEF InBlocks
  <2>1. a \in Nat
    BY <1>3 DEF Words
  <2>2. CASE b <= a /\ a < b + size[b]
    BY <2>2, <1>2
  <2>3. CASE p # NULL /\ a = p + 2
    <3>1. p \in DOMAIN size /\ p \in Nat /\ size[p] \in Nat /\ size[p] >= 8
      BY <2>3, <1>9, <1>3
    <3> QED BY <3>1, <2>3
  <2>4. CASE x # NULL /\ a = x + 1
    <3>1. x \in DOMAIN size /\ x \in Nat /\ size[x] \in Nat /\ size[x] >= 8
      BY <2>4, <1>9, <1>3
    <3> QED BY <3>1, <2>4
  <2>5. (~ (a < b) /\ ~ (a >= b + size[b])) \/ (p # NULL /\ a = p + 2) \/ (x # NULL /\ a = x + 1)
    BY <1>8
  <2> QED BY <2>1, <2>2, <2>3, <2>4, <2>5, <1>5
<1>14. Blank(hq.mem, hp.mapped, hp.gaps)
  BY <1>1, <1>13, BlankKept
<1>15. Offers(size2, busy2, off, n, L2)
  <2>1. \A j \in 1 .. n : L2[j] \in DOMAIN size2 /\ L2[j] \notin busy2 /\ L2[j] \notin off
    <3> SUFFICES ASSUME NEW j \in 1 .. n
                 PROVE  L2[j] \in DOMAIN size2 /\ L2[j] \notin busy2 /\ L2[j] \notin off
      OBVIOUS
    <3>1. CASE j = i
      BY <3>1, <1>2, <1>4, <1>5, <1>6, <1>7
    <3>2. CASE j # i
      BY <3>2, <1>2, <1>6, <1>7
    <3> QED BY <3>1, <3>2
  <2>2. \A j, k \in 1 .. n : L2[j] = L2[k] => j = k
    BY <1>2, <1>4, <1>7
  <2>3. ASSUME NEW c \in DOMAIN size2, c \notin busy2, c \notin off
        PROVE  \E j \in 1 .. n : L2[j] = c
    <3>1. CASE c = r
      BY <3>1, <1>7
    <3>2. CASE c # r
      <4>1. PICK j \in 1 .. n : L[j] = c
        BY <3>2, <2>3, <1>1, <1>6 DEF Offers
      <4>2. j # i
        BY <4>1, <2>3
      <4> QED BY <4>1, <4>2, <1>7
    <3> QED BY <3>1, <3>2
  <2>4. busy2 \subseteq DOMAIN size2 /\ off \subseteq DOMAIN size2 /\ busy2 \cap off = {}
    BY <1>1, <1>2, <1>6 DEF Offers
  <2> QED BY <2>1, <2>2, <2>3, <2>4, <1>2, <1>7 DEF Offers
<1>16. \A j \in 1 .. n : j # i /\ (i = n \/ j # i + 1) => hq.mem[L[j] + 1] = hp.mem[L[j] + 1]
  <2> SUFFICES ASSUME NEW j \in 1 .. n, j # i, i = n \/ j # i + 1
               PROVE  hq.mem[L[j] + 1] = hp.mem[L[j] + 1]
    OBVIOUS
  <2> DEFINE c == L[j]
  <2>1. c \in DOMAIN size /\ c # b /\ (x = NULL \/ c # x)
    BY <1>2, <1>9
  <2> HIDE DEF c
  <2>2. c + 1 \in Words /\ (p = NULL \/ c + 1 # p + 2) /\ (x = NULL \/ c + 1 # x + 1)
    BY <2>1, <1>9, <1>10
  <2>3. c \in Nat /\ size[c] \in Nat /\ size[c] >= 8 /\ (c + size[c] <= b \/ b + size[b] <= c)
    BY <2>1, <1>2, <1>3
  <2>4. c + 1 < b \/ c + 1 >= b + size[b]
    BY <2>3, <1>5
  <2>5. hq.mem[c + 1] = hp.mem[c + 1]
    BY <2>2, <2>4, <1>8
  <2> QED BY <2>5 DEF c
<1>17. \A j \in 1 .. n : j # i /\ (i = 1 \/ j # i - 1) => hq.mem[L[j] + 2] = hp.mem[L[j] + 2]
  <2> SUFFICES ASSUME NEW j \in 1 .. n, j # i, i = 1 \/ j # i - 1
               PROVE  hq.mem[L[j] + 2] = hp.mem[L[j] + 2]
    OBVIOUS
  <2> DEFINE c == L[j]
  <2>1. c \in DOMAIN size /\ c # b /\ (p = NULL \/ c # p)
    BY <1>2, <1>9
  <2> HIDE DEF c
  <2>2. c + 2 \in Words /\ (p = NULL \/ c + 2 # p + 2) /\ (x = NULL \/ c + 2 # x + 1)
    BY <2>1, <1>9, <1>10
  <2>3. c \in Nat /\ size[c] \in Nat /\ size[c] >= 8 /\ (c + size[c] <= b \/ b + size[b] <= c)
    BY <2>1, <1>2, <1>3
  <2>4. c + 2 < b \/ c + 2 >= b + size[b]
    BY <2>3, <1>5
  <2>5. hq.mem[c + 2] = hp.mem[c + 2]
    BY <2>2, <2>4, <1>8
  <2> QED BY <2>5 DEF c
<1>k. \A j \in 1 .. n : /\ hp.mem[L[j] + 1] = IF j = 1 THEN NULL ELSE L[j - 1]
                        /\ hp.mem[L[j] + 2] = IF j = n THEN NULL ELSE L[j + 1]
  BY <1>1 DEF Links
<1>18. Links(hq.mem, hq.head, n, L2)
  <2>1. hq.head = IF n = 0 THEN NULL ELSE L2[1]
    <3>1. n # 0 /\ 1 \in 1 .. n /\ hp.head = L[1]
      BY <1>1, <1>2 DEF Links
    <3> QED BY <3>1, <1>7, <1>9 DEF r
  <2>2. ASSUME NEW j \in 1 .. n
        PROVE  hq.mem[L2[j] + 1] = IF j = 1 THEN NULL ELSE L2[j - 1]
    <3>1. j # 1 => j - 1 \in 1 .. n
      BY <1>2
    <3>2. CASE j = i
      <4>1. i # 1 => L2[i - 1] = L[i - 1]
        BY <1>7, <1>9, <1>2
      <4> QED BY <4>1, <3>2, <1>7, <1>8, <1>9
    <3>3. CASE i # n /\ j = i + 1
      <4>1. L2[j] = x /\ x # NULL /\ hq.mem[x + 1] = r /\ j - 1 = i /\ j # 1
        BY <3>3, <1>2, <1>7, <1>8, <1>9
      <4> QED BY <4>1, <1>7
    <3>4. CASE j # i /\ (i = n \/ j # i + 1)
      <4>1. hq.mem[L[j] + 1] = IF j = 1 THEN NULL ELSE L[j - 1]
        BY <3>4, <1>16, <1>k
      <4>2. j # 1 => j - 1 # i
        BY <3>4, <1>2
      <4> QED BY <4>1, <4>2, <3>1, <3>4, <1>7
    <3> QED BY <3>2, <3>3, <3>4
  <2>3. ASSUME NEW j \in 1 .. n
        PROVE  hq.mem[L2[j] + 2] = IF j = n THEN NULL ELSE L2[j + 1]
    <3>1. j # n => j + 1 \in 1 .. n
      BY <1>2
    <3>2. CASE j = i
      <4>1. i # n => L2[i + 1] = L[i + 1]
        BY <1>7, <1>9, <1>2
      <4> QED BY <4>1, <3>2, <1>7, <1>8, <1>9
    <3>3. CASE i # 1 /\ j = i - 1
      <4>1. L2[j] = p /\ p # NULL /\ hq.mem[p + 2] = r /\ j + 1 = i /\ j # n
        BY <3>3, <1>2, <1>7, <1>8, <1>9
      <4> QED BY <4>1, <1>7
    <3>4. CASE j # i /\ (i = 1 \/ j # i - 1)
      <4>1. hq.mem[L[j] + 2] = IF j = n THEN NULL ELSE L[j + 1]
        BY <3>4, <1>17, <1>k
      <4>2. j # n => j + 1 # i
        BY <3>4, <1>2
      <4> QED BY <4>1, <4>2, <3>1, <3>4, <1>7
    <3> QED BY <3>2, <3>3, <3>4
  <2> QED BY <2>1, <2>2, <2>3 DEF Links
<1>19. Untouched(hp.mem, hq.mem, size, busy)
  <2> SUFFICES ASSUME NEW c \in busy, NEW a \in c + 4 .. c + size[c] - 3
               PROVE  hq.mem[a] = hp.mem[a]
    BY DEF Untouched
  <2>1. c \in DOMAIN size /\ c # b /\ c \in Nat /\ size[c] \in Nat
    BY <1>2, <1>3
  <2>2. a \in Fixed(size, c)
    BY <2>1 DEF Fixed
  <2> QED BY <2>1, <2>2, <1>11
<1>20. Shape(FooterHoldsFlag, hq, size2, busy2, off, n, L2)
  BY <1>4, <1>6, <1>12, <1>14, <1>15, <1>18 DEF Shape, Quiet
<1> QED BY <1>19, <1>20 DEF size2, L2, r

-----------------------------------------------------------------------------
\* take_block makes b allocated: its first t words or, when the rest could not
\* hold a block, all of it.
LEMMA Take ==
  ASSUME FooterHoldsFlag \in BOOLEAN,
         NEW hp, NEW size, NEW busy, NEW n, NEW L,
         Shape(FooterHoldsFlag, hp, size, busy, {}, n, L),
         NEW i \in 1 .. n, NEW b, b = L[i],
         NEW t \in Nat, t >= 8, t % 2 = 0,
         NEW hq, hq = take_block(hp, b, t)
  PROVE  /\ Untouched(hp.mem, hq.mem, size, busy) /\ Quiet(hp, hq)
         /\ size[b] >= t + 8 =>
              Shape(FooterHoldsFlag, hq, Cut(size, b, t), busy \cup {b}, {}, n,
                    [L EXCEPT ![i] = b + t])
         /\ ~ (size[b] >= t + 8) =>
              Shape(FooterHoldsFlag, hq, size, busy \cup {b}, {}, n - 1, Without(n, L, i))
<1> DEFINE sz == size[b]
           p == IF i = 1 THEN NULL ELSE L[i - 1]
           x == IF i = n THEN NULL ELSE L[i + 1]
<1>1. /\ IsHeap(hp) /\ Layout(hp.mapped, hp.gaps, size) /\ Tags(FooterHoldsFlag, hp.mem, size, busy)
      /\ Offers(size, busy, {}, n, L) /\ Links(hp.mem, hp.head, n, L)
  BY DEF Shape
<1>2. /\ n \in Nat /\ b \in DOMAIN size /\ b \notin busy
      /\ \A j \in 1 .. n : L[j] \in DOMAIN size
      /\ \A j, k \in 1 .. n : j # k => L[j] # L[k]
  BY <1>1 DEF Offers
<1>3. /\ \A c \in DOMAIN size : /\ c \in Nat /\ c >= heap_start /\ size[c] \in Nat /\ size[c] >= 8
                                /\ size[c] <= heap_max_size
                                /\ c + size[c] <= heap_start + heap_max_size /\ c # NULL
      /\ \A c, d \in DOMAIN size : c # d => c + size[c] <= d \/ d + size[d] <= c
      /\ heap_start \in Nat /\ heap_max_size \in Nat
  BY <1>1, BlockWords, Constants
<1>4. blk_size(hp.mem, b) = sz
  <2>1. size[b] \in 8 .. heap_max_size
    BY <1>2, <1>3
  <2> QED BY <2>1, <1>1, <1>2, TaggedSays
<1>5. blk_prev_free(hp.mem, b) = p /\ blk_next_free(hp.mem, b) = x
  BY <1>1 DEF Links, blk_prev_free, blk_next_free
<1>6. CASE sz >= t + 8
  <2> DEFINE r == b + t
             m1 == StoredFree(hp.mem, r, sz - t)
             m2 == set_next(m1, p, r)
             m3 == set_prev(m2, x, r)
             m4 == set_prev(m3, r, p)
             m5 == set_next(m4, r, x)
             mem2 == StoredBusy(m5, b, t)
  <2>1. hq = [hp EXCEPT !.mem = mem2, !.head = IF p = NULL THEN r ELSE @]
    BY <1>4, <1>5, <1>6 DEF take_block, StoredFree, StoredBusy, BLOCK_MIN_SIZE,
         BLOCK_META_SIZE, BLOCK_HEADER_SIZE, BLOCK_FOOTER_SIZE
  <2>2. /\ i # 1 => p \in DOMAIN size /\ p # b
        /\ i # n => x \in DOMAIN size /\ x # b
        /\ i = 1 => p = NULL
        /\ i = n => x = NULL
    <3>1. i # 1 => i - 1 \in 1 .. n /\ i - 1 # i
      BY <1>2
    <3>2. i # n => i + 1 \in 1 .. n /\ i + 1 # i
      BY <1>2
    <3> QED BY <3>1, <3>2, <1>2
  <2> HIDE DEF p, x
  <2>3. p = NULL \/ (p \in DOMAIN size /\ p # b /\ p \in Nat /\ size[p] \in Nat /\ size[p] >= 8)
    BY <2>2, <1>3
  <2>4. x = NULL \/ (x \in DOMAIN size /\ x # b /\ x \in Nat /\ size[x] \in Nat /\ size[x] >= 8)
    BY <2>2, <1>3
  <2>5. p = NULL \/ (p + 2 \in Words /\ (p + 2 < b \/ p + 2 >= b + sz))
    <3>1. CASE p # NULL
      <4>1. p + size[p] <= b \/ b + size[b] <= p
        BY <3>1, <2>3, <1>2, <1>3
      <4>2. p + 2 \in Words
        BY <3>1, <2>3, <1>1, LinkWords
      <4> QED BY <4>1, <4>2, <3>1, <2>3, <1>2, <1>3
    <3> QED BY <3>1
  <2>6. x = NULL \/ (x + 1 \in Words /\ (x + 1 < b \/ x + 1 >= b + sz))
    <3>1. CASE x # NULL
      <4>1. x + size[x] <= b \/ b + size[b] <= x
        BY <3>1, <2>4, <1>2, <1>3
      <4>2. x + 1 \in Words
        BY <3>1, <2>4, <1>1, LinkWords
      <4> QED BY <4>1, <4>2, <3>1, <2>4, <1>2, <1>3
    <3> QED BY <3>1
  <2>7. p = NULL \/ x = NULL \/ p + 2 # x + 1
    BY <2>3, <2>4, <1>1, LinkWords
  <2>8. p \in Int /\ x \in Int /\ NULL \in Int
    BY <2>3, <2>4, Constants
  <2>9. Carved(hp.mem, mem2, b, sz, t, p, x)
    <3>1. hp.mem \in [Words -> Int]
      BY <1>1 DEF IsHeap
    <3>2. b \in Nat /\ sz \in Nat /\ b >= heap_start /\ b + sz <= heap_start + heap_max_size
      BY <1>2, <1>3
    <3> HIDE DEF sz
    <3> QED BY <3>1, <3>2, <1>6, <2>5, <2>6, <2>7, <2>8, CutWords
  <2>10. mem2 \in [Words -> Int]
    BY <2>9 DEF Carved
  <2> HIDE DEF mem2
  <2>11. IsHeap(hq) /\ Quiet(hp, hq) /\ hq.mem = mem2
         /\ hq.head = IF p = NULL THEN b + t ELSE hp.head
    <3>1. /\ hq = [mem |-> mem2, mapped |-> hp.mapped, head |-> IF p = NULL THEN b + t ELSE hp.head,
                   allocated |-> hp.allocated, frames |-> hp.frames, gaps |-> hp.gaps]
          /\ hp.frames \in Nat /\ hp.allocated \in Int
      BY <2>1, <1>1 DEF IsHeap
    <3> QED BY <3>1, <2>10 DEF IsHeap, Quiet
  <2>12. /\ Shape(FooterHoldsFlag, hq, Cut(size, b, t), busy \cup {b}, {}, n,
                  [L EXCEPT ![i] = b + t])
         /\ Untouched(hp.mem, hq.mem, size, busy)
    <3>1. p = (IF i = 1 THEN NULL ELSE L[i - 1]) /\ x = (IF i = n THEN NULL ELSE L[i + 1])
      BY DEF p, x
    <3>2. Carved(hp.mem, hq.mem, b, size[b], t, p, x) /\ size[b] >= t + 8
      BY <2>9, <2>11, <1>6
    <3> QED BY <3>1, <3>2, <2>11, Carve
  <2> QED BY <2>11, <2>12, <1>6
<1>7. CASE ~ (sz >= t + 8)
  <2> DEFINE h1 == list_remove(hp, b)
  <2>1. hq = [h1 EXCEPT !.mem = StoredBusy(h1.mem, b, sz)]
    BY <1>4, <1>7 DEF take_block, StoredBusy, BLOCK_MIN_SIZE,
         BLOCK_META_SIZE, BLOCK_HEADER_SIZE, BLOCK_FOOTER_SIZE
  <2>2. /\ Shape(FooterHoldsFlag, h1, size, busy, {} \cup {b}, n - 1, Without(n, L, i))
        /\ Untouched(hp.mem, h1.mem, size, busy) /\ Quiet(hp, h1)
    BY Unlink
  <2> HIDE DEF h1
  <2>3. IsHeap(h1)
    BY <2>2 DEF Shape
  <2> DEFINE mem2 == StoredBusy(h1.mem, b, sz)
  <2>4. mem2 \in [Words -> Int]
    <3>1. h1.mem \in [Words -> Int]
      BY <2>3 DEF IsHeap
    <3>2. b \in Nat /\ sz \in Nat /\ b >= heap_start /\ sz >= 8 /\ b + sz <= heap_start + heap_max_size
      BY <1>2, <1>3
    <3> HIDE DEF sz
    <3> QED BY <3>1, <3>2, SetBlockBusy
  <2> HIDE DEF mem2
  <2>5. IsHeap(hq) /\ Quiet(h1, hq) /\ hq.mem = mem2 /\ hq.head = h1.head
    <3>1. /\ hq = [mem |-> mem2, mapped |-> h1.mapped, head |-> h1.head,
                   allocated |-> h1.allocated, frames |-> h1.frames, gaps |-> h1.gaps]
          /\ h1.frames \in Nat /\ h1.allocated \in Int
      BY <2>1, <2>3 DEF IsHeap, mem2
    <3> QED BY <3>1, <2>4 DEF IsHeap, Quiet
  <2>6. /\ Shape(FooterHoldsFlag, hq, size, busy \cup {b}, {}, n - 1, Without(n, L, i))
        /\ Untouched(h1.mem, hq.mem, size, busy)
    <3> DEFINE L2 == Without(n, L, i)
               n2 == n - 1
               off1 == {} \cup {b}
               busy2 == busy \cup {b}
               off2 == off1 \ {b}
    <3>1. off2 = {} /\ b \in busy \cup off1
      OBVIOUS
    <3>2. hq.mem = StoredBusy(h1.mem, b, size[b])
      BY <2>5 DEF mem2
    <3>3. Shape(FooterHoldsFlag, h1, size, busy, off1, n2, L2)
      BY <2>2
    <3>4. Retagged(h1.mem, hq.mem, b, size[b], busy, off1, busy2, off2)
      BY <3>2 DEF Retagged
    <3>6. b \in busy \cup off1
      OBVIOUS
    <3>7. IsHeap(hq) /\ Quiet(h1, hq) /\ hq.head = h1.head
      BY <2>5
    <3> HIDE DEF L2, n2, off1, busy2, off2
    <3>5. /\ Shape(FooterHoldsFlag, hq, size, busy2, off2, n2, L2)
          /\ Untouched(h1.mem, hq.mem, size, busy)
      BY <3>3, <3>4, <3>6, <3>7, Retag
    <3> QED BY <3>1, <3>5 DEF L2, n2, busy2
  <2>7. Untouched(hp.mem, hq.mem, size, busy)
    BY <2>2, <2>6 DEF Untouched
  <2>8. Quiet(hp, hq)
    BY <2>2, <2>5 DEF Quiet
  <2> QED BY <2>6, <2>7, <2>8, <1>7
<1> QED BY <1>6, <1>7

\* The size of a block for a request.
LEMMA TotalIs ==
  ASSUME NEW size \in Nat
  PROVE  /\ BlockTotal(size) \in Nat /\ BlockTotal(size) >= 8 /\ BlockTotal(size) % 2 = 0
         /\ BlockTotal(size) >= size + 6
<1> DEFINE q == (size + 7) \div 2
<1>1. q \in Nat /\ 2 * q >= size + 6
  OBVIOUS
<1>2. BlockTotal(size) = IF q * 2 < 8 THEN 8 ELSE q * 2
  BY DEF BlockTotal, BLOCK_MIN_SIZE, BLOCK_META_SIZE, BLOCK_HEADER_SIZE, BLOCK_FOOTER_SIZE,
         BLOCK_ALIGN
<1> HIDE DEF q
<1>3. (q * 2) % 2 = 0 /\ 8 % 2 = 0
  BY <1>1
<1> QED BY <1>1, <1>2, <1>3

\* A set of numbers has its Least in it.
LEMMA LeastIs ==
  ASSUME NEW T, T \subseteq Nat, T # {}
  PROVE  Least(T) \in T /\ \A y \in T : Least(T) <= y
<1>1. \E x \in T : \A y \in T : x <= y
  BY LeastNumber
<1> QED BY <1>1 DEF Least

\* A multiple of the page size.
PageMultiple(m) == \E q \in Nat : m = q * VMM_PAGE_SIZE

\* expand_to maps whole pages, as many as the region and the frames allow.
LEMMA Expand ==
  ASSUME NEW hp, IsHeap(hp), hp.mapped \in Nat, hp.mapped <= heap_max_size,
         NEW total \in Nat, total >= 8,
         NEW g, g = expand_to(hp, heap_start + hp.mapped + total),
         NEW m, m = g.hp.mapped - hp.mapped
  PROVE  /\ m \in Nat /\ (m = 0 \/ m >= 8) /\ m % 2 = 0 /\ hp.mapped + m <= heap_max_size
         /\ PageMultiple(m)
         /\ g.hp.mapped = hp.mapped + m
         /\ g.ok => m >= total
         /\ IsHeap(g.hp) /\ g.hp.mem = hp.mem /\ g.hp.head = hp.head /\ g.hp.gaps = hp.gaps
<1> DEFINE P == VMM_PAGE_SIZE
           wanted == ((heap_start + hp.mapped + total) - (heap_start + hp.mapped) + P - 1) \div P
           room == (heap_max_size - hp.mapped) \div P
           pages == Least({wanted, room, hp.frames})
<1>1. /\ g.ok = (pages = wanted)
      /\ g.hp = [hp EXCEPT !.mapped = @ + pages * P, !.frames = @ - pages]
  BY DEF expand_to
<1>2. P \in Nat /\ P >= 8 /\ P % 2 = 0 /\ heap_start \in Nat /\ heap_max_size \in Nat
  BY Constants
<1>3. hp.frames \in Nat
  BY DEF IsHeap
<1> HIDE DEF P
<1>4. ASSUME NEW a \in Nat
      PROVE  a \div P \in Nat /\ (a \div P) * P <= a /\ a < (a \div P) * P + P
  BY <1>2
<1> DEFINE w == total + P - 1
           f == heap_max_size - hp.mapped
<1>5. w \in Nat /\ f \in Nat /\ wanted = w \div P /\ room = f \div P
  BY <1>2 
<1> HIDE DEF w, f, wanted, room
<1>6. /\ wanted \in Nat /\ wanted * P <= w /\ w < wanted * P + P
      /\ room \in Nat /\ room * P <= f
  BY <1>4, <1>5
<1>7. pages \in Nat /\ pages <= room /\ pages <= hp.frames
  <2> DEFINE T == {wanted, room, hp.frames}
  <2>1. T \subseteq Nat /\ T # {} /\ room \in T /\ hp.frames \in T
    BY <1>3, <1>6
  <2>2. pages = Least(T)
    OBVIOUS
  <2> HIDE DEF T, pages
  <2> QED BY <2>1, <2>2, LeastIs
<1> HIDE DEF pages
<1>8. pages * P \in Nat /\ pages * P <= room * P /\ (pages = 0 => pages * P = 0)
      /\ (pages # 0 => pages * P >= P)
  BY <1>2, <1>6, <1>7
<1> DEFINE k == pages * P
<1>9. k % 2 = 0
  <2>1. PICK q \in Nat : P = 2 * q
    <3>1. P = 2 * (P \div 2) /\ P \div 2 \in Nat
      BY <1>2
    <3> QED BY <3>1
  <2>2. k = 2 * (pages * q) /\ pages * q \in Nat
    BY <2>1, <1>7
  <2> HIDE DEF k
  <2> DEFINE j == pages * q
  <2>3. j \in Nat /\ k = 2 * j
    BY <2>2
  <2> HIDE DEF j
  <2> QED BY <2>3
<1>10. PageMultiple(k)
  BY <1>7 DEF PageMultiple, P
<1>11. /\ g.hp = [mem |-> hp.mem, mapped |-> hp.mapped + k, head |-> hp.head,
                  allocated |-> hp.allocated, frames |-> hp.frames - pages, gaps |-> hp.gaps]
       /\ hp.mem \in [Words -> Int] /\ hp.allocated \in Int /\ hp.frames - pages \in Nat
  <2>1. g.hp = [hp EXCEPT !.mapped = hp.mapped + k, !.frames = hp.frames - pages]
    BY <1>1
  <2> HIDE DEF k
  <2>2. hp.frames - pages \in Nat
    BY <1>3, <1>7
  <2> QED BY <2>1, <2>2 DEF IsHeap
<1>12. g.ok => k >= total
  <2> SUFFICES ASSUME g.ok PROVE k >= total
    OBVIOUS
  <2>1. pages = wanted
    BY <1>1
  <2>2. w < k + P
    BY <2>1, <1>6
  <2> QED BY <2>2, <1>2, <1>8 DEF w
<1> HIDE DEF k
<1>13. k \in Nat /\ k <= f /\ (k = 0 \/ k >= 8)
  BY <1>2, <1>5, <1>6, <1>7, <1>8 DEF k
<1>14. m = k
  BY <1>11, <1>13
<1>15. hp.mapped + m <= heap_max_size
  BY <1>13, <1>14, <1>2 DEF f
<1>16. IsHeap(g.hp) /\ g.hp.mem = hp.mem /\ g.hp.head = hp.head /\ g.hp.gaps = hp.gaps
       /\ g.hp.mapped = hp.mapped + k
  BY <1>11 DEF IsHeap
<1> QED BY <1>9, <1>10, <1>12, <1>13, <1>14, <1>15, <1>16

LEMMA PagesAdd ==
  ASSUME NEW a, NEW b, PageMultiple(a), PageMultiple(b)
  PROVE  PageMultiple(a + b)
<1>1. PICK q \in Nat : a = q * VMM_PAGE_SIZE
  BY DEF PageMultiple
<1>2. PICK r \in Nat : b = r * VMM_PAGE_SIZE
  BY DEF PageMultiple
<1>3. q + r \in Nat /\ a + b = (q + r) * VMM_PAGE_SIZE
  BY <1>1, <1>2, Constants
<1> QED BY <1>3 DEF PageMultiple

\* heap_allocated_bytes is only counted.
LEMMA Reckon ==
  ASSUME NEW flag, NEW hp, NEW size, NEW busy, NEW off, NEW n, NEW L,
         Shape(flag, hp, size, busy, off, n, L),
         NEW x \in Int, NEW hq, hq = [hp EXCEPT !.allocated = x]
  PROVE  /\ Shape(flag, hq, size, busy, off, n, L)
         /\ hq.mem = hp.mem /\ hq.mapped = hp.mapped
<1>1. IsHeap(hp)
  BY DEF Shape
<1>2. hq = [mem |-> hp.mem, mapped |-> hp.mapped, head |-> hp.head,
            allocated |-> x, frames |-> hp.frames, gaps |-> hp.gaps]
  BY <1>1 DEF IsHeap
<1>3. IsHeap(hq) /\ hq.mem = hp.mem /\ hq.mapped = hp.mapped /\ hq.head = hp.head
      /\ hq.gaps = hp.gaps
  BY <1>1, <1>2 DEF IsHeap
<1> QED BY <1>3 DEF Shape

\* The blocks of size1, of which b is free: one block more than before when the
\* heap grew.
Source(mapped, size, mapped2, size1, b) ==
  \/ mapped2 = mapped /\ size1 = size /\ b \in DOMAIN size
  \/ \E m \in Nat : /\ m >= 8 /\ mapped + m <= heap_max_size /\ mapped2 = mapped + m
                    /\ b = End(mapped) /\ size1 = Plus(size, b, m)

\* The blocks of size2, once b was taken out of size1, whole or in part.
Taken(size1, size2, b) ==
  \/ size2 = size1
  \/ \E t \in Nat : t >= 8 /\ size1[b] >= t + 8 /\ size2 = Cut(size1, b, t)

\* kmalloc gave out block b for req words.
Provided(mapped, size, busy, mapped2, size2, b, req) ==
  /\ b \notin busy /\ b \in DOMAIN size2 /\ size2[b] >= req + 6
  /\ \E size1 : Source(mapped, size, mapped2, size1, b) /\ Taken(size1, size2, b)

\* The outcome r of kmalloc.
Refused(hp, size, busy, r) ==
  /\ r.ptr = NULL /\ r.hp.mapped \in Nat /\ r.hp.mapped >= hp.mapped
  /\ PageMultiple(r.hp.mapped)
  /\ Untouched(hp.mem, r.hp.mem, size, busy)
  /\ \E n, L : Shape(FooterHoldsFlag, r.hp, size, busy, {}, n, L)

Granted(hp, size, busy, req, r, size2, b) ==
  /\ r.ptr = b + 4 /\ b \in Nat /\ PageMultiple(r.hp.mapped)
  /\ Untouched(hp.mem, r.hp.mem, size, busy)
  /\ Provided(hp.mapped, size, busy, r.hp.mapped, size2, b, req)
  /\ \E n, L : Shape(FooterHoldsFlag, r.hp, size2, busy \cup {b}, {}, n, L)

\* A block that is long enough is granted.
LEMMA Grant ==
  ASSUME FooterHoldsFlag \in BOOLEAN,
         NEW hp, NEW size, NEW busy, NEW n, NEW L,
         Shape(FooterHoldsFlag, hp, size, busy, {}, n, L), PageMultiple(hp.mapped),
         NEW i \in 1 .. n, NEW b, b = L[i],
         NEW t \in Nat, t >= 8, t % 2 = 0, size[b] >= t, NEW req \in Nat, t >= req + 6,
         NEW mapped0, NEW size0, Source(mapped0, size0, hp.mapped, size, b),
         NEW hp0, hp0.mapped = mapped0, Untouched(hp0.mem, hp.mem, size0, busy),
         busy \subseteq DOMAIN size0, \A c \in busy : size0[c] = size[c],
         NEW r,
         r = [hp  |-> [take_block(hp, b, t) EXCEPT !.allocated = @ + t],
              ptr |-> b + BLOCK_HEADER_SIZE]
  PROVE  \E size2 : Granted(hp0, size0, busy, req, r, size2, b)
<1> DEFINE hq == take_block(hp, b, t)
           busy2 == busy \cup {b}
<1>1. /\ Untouched(hp.mem, hq.mem, size, busy) /\ Quiet(hp, hq)
      /\ size[b] >= t + 8 =>
           Shape(FooterHoldsFlag, hq, Cut(size, b, t), busy2, {}, n, [L EXCEPT ![i] = b + t])
      /\ ~ (size[b] >= t + 8) =>
           Shape(FooterHoldsFlag, hq, size, busy2, {}, n - 1, Without(n, L, i))
  BY Take
<1>2. r.ptr = b + 4 /\ r.hp = [hq EXCEPT !.allocated = hq.allocated + t]
  BY DEF BLOCK_HEADER_SIZE
<1> HIDE DEF hq
<1>3. /\ Layout(hp.mapped, hp.gaps, size) /\ Offers(size, busy, {}, n, L)
  BY DEF Shape
<1>4. b \in DOMAIN size /\ b \notin busy
  BY <1>3 DEF Offers
<1>5. b \in Nat /\ size[b] \in Nat
  BY <1>3, <1>4, BlockWords
<1>6. Untouched(hp0.mem, hq.mem, size0, busy)
  <2> SUFFICES ASSUME NEW c \in busy, NEW a \in c + 4 .. c + size0[c] - 3
               PROVE  hq.mem[a] = hp0.mem[a]
    BY DEF Untouched
  <2>1. hp.mem[a] = hp0.mem[a]
    BY DEF Untouched
  <2>2. hq.mem[a] = hp.mem[a]
    BY <1>1 DEF Untouched
  <2> QED BY <2>1, <2>2
<1>7. hq.mapped = hp.mapped
  BY <1>1 DEF Quiet
<1>8. CASE size[b] >= t + 8
  <2> DEFINE size2 == Cut(size, b, t)
             L2 == [L EXCEPT ![i] = b + t]
  <2>1. Shape(FooterHoldsFlag, hq, size2, busy2, {}, n, L2)
    BY <1>1, <1>8
  <2>2. size2[b] = t /\ b \in DOMAIN size2
    BY <1>4, <1>5 DEF Cut
  <2>3. Taken(size, size2, b)
    BY <1>8 DEF Taken
  <2> HIDE DEF size2, L2
  <2>4. hq.allocated + t \in Int
    BY <2>1 DEF Shape, IsHeap
  <2>5. /\ Shape(FooterHoldsFlag, r.hp, size2, busy2, {}, n, L2)
        /\ r.hp.mem = hq.mem /\ r.hp.mapped = hp.mapped
    BY <2>1, <2>4, <1>2, <1>7, Reckon
  <2>6. Provided(hp0.mapped, size0, busy, r.hp.mapped, size2, b, req)
    BY <2>2, <2>3, <2>5, <1>4 DEF Provided
  <2>7. Granted(hp0, size0, busy, req, r, size2, b)
    BY <2>5, <2>6, <1>2, <1>5, <1>6 DEF Granted
  <2> QED BY <2>7
<1>9. CASE ~ (size[b] >= t + 8)
  <2> DEFINE n2 == n - 1
             L2 == Without(n, L, i)
  <2>1. Shape(FooterHoldsFlag, hq, size, busy2, {}, n2, L2)
    BY <1>1, <1>9
  <2>3. Taken(size, size, b)
    BY DEF Taken
  <2> HIDE DEF n2, L2
  <2>4. hq.allocated + t \in Int
    BY <2>1 DEF Shape, IsHeap
  <2>5. /\ Shape(FooterHoldsFlag, r.hp, size, busy2, {}, n2, L2)
        /\ r.hp.mem = hq.mem /\ r.hp.mapped = hp.mapped
    BY <2>1, <2>4, <1>2, <1>7, Reckon
  <2>6. Provided(hp0.mapped, size0, busy, r.hp.mapped, size, b, req)
    BY <2>3, <2>5, <1>4, <1>5 DEF Provided
  <2>7. Granted(hp0, size0, busy, req, r, size, b)
    BY <2>5, <2>6, <1>2, <1>5, <1>6 DEF Granted
  <2> QED BY <2>7
<1> QED BY <1>8, <1>9

\* kmalloc refuses or grants.
LEMMA Kmallocs ==
  ASSUME FooterHoldsFlag \in BOOLEAN,
         NEW hp, NEW size, NEW busy, NEW n, NEW L,
         Shape(FooterHoldsFlag, hp, size, busy, {}, n, L), PageMultiple(hp.mapped),
         NEW req \in Nat, NEW r, r = kmalloc(hp, req)
  PROVE  \/ Refused(hp, size, busy, r)
         \/ \E size2, b : Granted(hp, size, busy, req, r, size2, b)
<1> DEFINE t == BlockTotal(req)
           found == first_fit(hp, t)
           e == heap_start + hp.mapped
           grown == expand_to(hp, e + t)
           m == grown.hp.mapped - hp.mapped
           fresh == [grown.hp EXCEPT !.mem = set_block(@, e, grown.hp.mapped - hp.mapped, FALSE)]
           lost == <<hp.mapped, grown.hp.mapped>>
<1>1. /\ IsHeap(hp) /\ Layout(hp.mapped, hp.gaps, size) /\ Offers(size, busy, {}, n, L)
  BY DEF Shape
<1>2. /\ hp.mapped \in Nat /\ hp.mapped <= heap_max_size
      /\ heap_start \in Nat /\ heap_max_size \in Nat /\ e \in Nat
  BY <1>1, BlockWords, Constants
<1>3. t \in Nat /\ t >= 8 /\ t % 2 = 0 /\ t >= req + 6
  BY TotalIs
<1>4. busy \subseteq DOMAIN size
  BY <1>1 DEF Offers
<1>5. Untouched(hp.mem, hp.mem, size, busy)
  BY DEF Untouched
<1> HIDE DEF t
<1>6. CASE req = 0 \/ req > HEAP_MAX_ALLOC
  <2>1. r = [hp |-> hp, ptr |-> NULL]
    BY <1>6 DEF kmalloc
  <2> QED BY <2>1, <1>2, <1>5 DEF Refused
<1>7. CASE ~ (req = 0 \/ req > HEAP_MAX_ALLOC) /\ found # NULL
  <2>1. r = [hp  |-> [take_block(hp, found, t) EXCEPT !.allocated = @ + t],
             ptr |-> found + BLOCK_HEADER_SIZE]
    BY <1>7 DEF kmalloc, t
  <2>2. PICK i \in 1 .. n : found = L[i] /\ size[L[i]] >= t
    BY <1>7, FirstFits
  <2>3. L[i] \in DOMAIN size
    BY <1>1 DEF Offers
  <2>4. Source(hp.mapped, size, hp.mapped, size, found)
    BY <2>2, <2>3 DEF Source
  <2>5. size[found] >= t
    BY <2>2
  <2>6. \A c \in busy : size[c] = size[c]
    OBVIOUS
  <2> HIDE DEF found
  <2>7. \E size2 : Granted(hp, size, busy, req, r, size2, found)
    BY <2>1, <2>2, <2>4, <2>5, <2>6, <1>3, <1>4, <1>5, Grant
  <2> QED BY <2>7
<1>8. /\ m \in Nat /\ (m = 0 \/ m >= 8) /\ m % 2 = 0 /\ hp.mapped + m <= heap_max_size
      /\ PageMultiple(m)
      /\ grown.hp.mapped = hp.mapped + m
      /\ grown.ok => m >= t
      /\ IsHeap(grown.hp) /\ grown.hp.mem = hp.mem /\ grown.hp.head = hp.head
      /\ grown.hp.gaps = hp.gaps
  BY <1>1, <1>2, <1>3, Expand
<1>9. CASE ~ (req = 0 \/ req > HEAP_MAX_ALLOC) /\ found = NULL /\ grown.ok
  <2> DEFINE hq == list_insert_head(fresh, e)
  <2>1. r = [hp  |-> [take_block(hq, e, t) EXCEPT !.allocated = @ + t],
             ptr |-> e + BLOCK_HEADER_SIZE]
    BY <1>9 DEF kmalloc, t
  <2>2. fresh = [grown.hp EXCEPT !.mem = StoredFree(hp.mem, e, m)]
    BY <1>8 DEF StoredFree
  <2>3. m >= 8 /\ m >= t
    BY <1>3, <1>8, <1>9
  <2> HIDE DEF fresh, grown, m, e
  <2>e. e = End(hp.mapped) /\ e >= heap_start /\ e + m <= heap_start + heap_max_size
    BY <1>2, <1>8 DEF End, e
  <2> DEFINE mem2 == StoredFree(hp.mem, e, m)
  <2>4. mem2 \in [Words -> Int]
    <3>1. hp.mem \in [Words -> Int]
      BY <1>1 DEF IsHeap
    <3> QED BY <3>1, <2>3, <2>e, <1>2, <1>8, SetBlockFree
  <2> HIDE DEF mem2
  <2>5. /\ fresh = [mem |-> mem2, mapped |-> grown.hp.mapped, head |-> grown.hp.head,
                    allocated |-> grown.hp.allocated, frames |-> grown.hp.frames,
                    gaps |-> grown.hp.gaps]
        /\ grown.hp.allocated \in Int /\ grown.hp.frames \in Nat
    BY <2>2, <1>8 DEF IsHeap, mem2
  <2>6. /\ IsHeap(fresh) /\ fresh.head = hp.head /\ fresh.mapped = hp.mapped + m
        /\ fresh.gaps = hp.gaps /\ fresh.mem = StoredFree(hp.mem, e, m)
    BY <2>4, <2>5, <1>8 DEF IsHeap, mem2
  <2> DEFINE size1 == Plus(size, e, m)
             off1 == {} \cup {e}
  <2>7. /\ Shape(FooterHoldsFlag, fresh, size1, busy, off1, n, L)
        /\ Untouched(hp.mem, fresh.mem, size, busy) /\ e \notin DOMAIN size
    BY <2>3, <2>6, <2>e, <1>8, Extend
  <2>8. size1[e] = m /\ \A c \in busy : size[c] = size1[c]
    BY <2>7, <1>4 DEF Plus
  <2>9. Source(hp.mapped, size, hp.mapped + m, size1, e)
    BY <2>3, <2>e, <1>8 DEF Source
  <2>10. e \in off1 /\ off1 \ {e} = {}
    OBVIOUS
  <2> HIDE DEF size1, off1
  <2> DEFINE L1 == Before(n, L, e)
             n1 == n + 1
  <2>11. /\ Shape(FooterHoldsFlag, hq, size1, busy, {}, n1, L1)
         /\ Untouched(fresh.mem, hq.mem, size1, busy) /\ Quiet(fresh, hq)
    <3>1. /\ Shape(FooterHoldsFlag, hq, size1, busy, off1 \ {e}, n1, L1)
          /\ Untouched(fresh.mem, hq.mem, size1, busy) /\ Quiet(fresh, hq)
      BY <2>7, <2>10, Push
    <3> QED BY <3>1, <2>10
  <2>12. 1 \in 1 .. n1 /\ e = L1[1]
    BY <1>1 DEF Before, Offers
  <2> HIDE DEF L1, n1, hq
  <2>13. hq.mapped = hp.mapped + m /\ PageMultiple(hq.mapped)
    BY <2>6, <2>11, <1>8, PagesAdd DEF Quiet
  <2>14. Untouched(hp.mem, hq.mem, size, busy)
    <3> SUFFICES ASSUME NEW c \in busy, NEW a \in c + 4 .. c + size[c] - 3
                 PROVE  hq.mem[a] = hp.mem[a]
      BY DEF Untouched
    <3>1. a \in c + 4 .. c + size1[c] - 3
      BY <2>8
    <3> QED BY <3>1, <2>7, <2>11 DEF Untouched
  <2>15. \E size2 : Granted(hp, size, busy, req, r, size2, e)
    <3>1. size1[e] >= t /\ Source(hp.mapped, size, hq.mapped, size1, e)
      BY <2>3, <2>8, <2>9, <2>13
    <3>2. PICK i \in 1 .. n1 : e = L1[i]
      BY <2>12
    <3>3. \A c \in busy : size[c] = size1[c]
      BY <2>8
    <3>4. Shape(FooterHoldsFlag, hq, size1, busy, {}, n1, L1) /\ PageMultiple(hq.mapped)
      BY <2>11, <2>13
    <3> QED BY <3>1, <3>2, <3>3, <3>4, <2>1, <2>14, <1>3, <1>4, Grant
  <2> QED BY <2>15
<1>10. CASE ~ (req = 0 \/ req > HEAP_MAX_ALLOC) /\ found = NULL /\ ~ grown.ok
  <2> DEFINE gaps2 == IF lost[1] = lost[2] THEN hp.gaps ELSE hp.gaps \cup {lost}
             hq == [grown.hp EXCEPT !.gaps = IF lost[1] = lost[2] THEN @ ELSE @ \cup {lost}]
  <2>1. r = [hp |-> hq, ptr |-> NULL]
    BY <1>10 DEF kmalloc, t
  <2>2. lost = <<hp.mapped, hp.mapped + m>> /\ lost[1] = hp.mapped /\ lost[2] = hp.mapped + m
    BY <1>8
  <2>3. hq = [grown.hp EXCEPT !.gaps = gaps2]
    BY <1>8
  <2> HIDE DEF gaps2, hq, lost, grown, m
  <2>4. /\ hq = [mem |-> hp.mem, mapped |-> hp.mapped + m, head |-> hp.head,
                 allocated |-> grown.hp.allocated, frames |-> grown.hp.frames,
                 gaps |-> gaps2]
        /\ grown.hp.allocated \in Int /\ grown.hp.frames \in Nat
    BY <2>3, <1>8 DEF IsHeap
  <2>5. IsHeap(hq) /\ hq.mem = hp.mem /\ hq.head = hp.head /\ hq.mapped = hp.mapped + m
        /\ hq.gaps = gaps2
    BY <2>4, <1>1 DEF IsHeap
  <2>6. CASE m = 0
    <3>1. hq.mapped = hp.mapped /\ hq.gaps = hp.gaps
      BY <2>2, <2>5, <2>6, <1>2 DEF gaps2
    <3>2. Shape(FooterHoldsFlag, hq, size, busy, {}, n, L)
      BY <3>1, <2>5 DEF Shape
    <3> QED BY <3>1, <3>2, <2>1, <2>5, <1>2, <1>5 DEF Refused
  <2>7. CASE m # 0
    <3>1. m >= 8 /\ hq.gaps = hp.gaps \cup {<<hp.mapped, hp.mapped + m>>}
      BY <2>2, <2>5, <2>7, <1>2, <1>8 DEF gaps2
    <3>2. Shape(FooterHoldsFlag, hq, size, busy, {}, n, L)
      BY <3>1, <2>5, <1>8, Lose
    <3>3. hq.mapped \in Nat /\ hq.mapped >= hp.mapped /\ PageMultiple(hq.mapped)
      BY <2>5, <1>2, <1>8, PagesAdd
    <3> QED BY <3>2, <3>3, <2>1, <2>5, <1>5 DEF Refused
  <2> QED BY <2>6, <2>7
<1> QED BY <1>6, <1>7, <1>9, <1>10

-----------------------------------------------------------------------------
(* kfree.                                                                  *)

\* With no gaps a block that is not the first one starts where another ends.
LEMMA PrevBlock ==
  ASSUME NEW mapped, NEW gaps, NEW size, Layout(mapped, gaps, size), gaps = {},
         NEW b \in DOMAIN size, b # heap_start
  PROVE  \E c \in DOMAIN size : c + size[c] = b
<1> DEFINE T == { b - c : c \in { d \in DOMAIN size : d < b } }
<1>1. /\ \A c \in DOMAIN size : /\ c \in Nat /\ c >= heap_start /\ size[c] \in Nat
                                /\ size[c] >= 8 /\ c + size[c] <= End(mapped)
      /\ \A c, d \in DOMAIN size : c < d => c + size[c] <= d
      /\ heap_start \in Nat /\ End(mapped) \in Nat
  BY BlockWords, Constants DEF Layout, End
<1>2. \A c \in DOMAIN size : c + size[c] = End(mapped) \/ c + size[c] \in DOMAIN size
  BY DEF Layout, Starts
<1>3. heap_start \in DOMAIN size
  <2>1. heap_start = End(mapped) \/ heap_start \in DOMAIN size
    BY DEF Layout, Starts
  <2> QED BY <2>1, <1>1
<1>4. T \subseteq Nat /\ T # {}
  BY <1>1, <1>3
<1>5. PICK x \in T : \A y \in T : x <= y
  BY <1>4, LeastNumber
<1>6. PICK c \in DOMAIN size : c < b /\ x = b - c
  BY <1>5
<1>7. c + size[c] <= b /\ c + size[c] # End(mapped)
  BY <1>1, <1>6
<1>8. c + size[c] \in DOMAIN size
  BY <1>2, <1>7
<1>9. ASSUME c + size[c] < b PROVE FALSE
  <2>1. b - (c + size[c]) \in T
    BY <1>8, <1>9
  <2> QED BY <2>1, <1>1, <1>5, <1>6
<1> QED BY <1>1, <1>6, <1>7, <1>9

\* A free block before b becomes one with it, and then one behind it.
JoinedPrev(size, busy, b, size1, lo) ==
  \/ size1 = size /\ lo = b
  \/ /\ lo \in DOMAIN size /\ lo \notin busy /\ lo + size[lo] = b
     /\ size1 = Joined(size, lo)

JoinedNext(size, busy, lo, size2) ==
  \/ size2 = size
  \/ /\ lo + size[lo] \in DOMAIN size /\ lo + size[lo] \notin busy
     /\ size2 = Joined(size, lo)

Abuts(size, b, r) == b \in DOMAIN size /\ r \in DOMAIN size /\ r = b + size[b]

LEMMA MergeStep ==
  ASSUME FooterHoldsFlag \in BOOLEAN,
         NEW hp, NEW size, NEW busy, NEW n, NEW L,
         NEW b, NEW r, NEW f \in {b, r}, NEW off, off = {b, r} \ {f},
         Shape(FooterHoldsFlag, hp, size, busy, off, n, L),
         Abuts(size, b, r), f \notin busy,
         NEW h1, h1 = list_remove(hp, f),
         NEW hq, hq = [h1 EXCEPT !.mem = StoredFree(h1.mem, b, size[b] + size[r])]
  PROVE  /\ \E n2, L2 : Shape(FooterHoldsFlag, hq, Joined(size, b), busy, {b}, n2, L2)
         /\ Untouched(hp.mem, hq.mem, size, busy) /\ Quiet(hp, hq)
<1>0. b \in DOMAIN size /\ r \in DOMAIN size /\ r = b + size[b]
  BY DEF Abuts
<1>1. /\ Layout(hp.mapped, hp.gaps, size) /\ Offers(size, busy, off, n, L)
  BY DEF Shape
<1>2. /\ b \in Nat /\ size[b] \in Nat /\ size[r] \in Nat /\ size[b] >= 8 /\ size[r] >= 8
      /\ b >= heap_start /\ r + size[r] <= heap_start + heap_max_size
  BY <1>0, <1>1, BlockWords
<1>3. b # r
  BY <1>0, <1>2
<1>4. f \notin off /\ f \in DOMAIN size /\ off \cup {f} = {b, r}
  BY <1>0
<1>5. PICK i \in 1 .. n : L[i] = f
  BY <1>1, <1>4 DEF Offers
<1> DEFINE n2 == n - 1
           L2 == Without(n, L, i)
           off1 == off \cup {f}
<1>6. Shape(FooterHoldsFlag, hp, size, busy, off, n, L) /\ h1 = list_remove(hp, L[i])
  BY <1>5
<1>7. /\ Shape(FooterHoldsFlag, h1, size, busy, off \cup {L[i]}, n2, L2)
      /\ Untouched(hp.mem, h1.mem, size, busy) /\ Quiet(hp, h1)
  BY <1>6, Unlink
<1>8. Shape(FooterHoldsFlag, h1, size, busy, off1, n2, L2)
  BY <1>5, <1>7
<1>9. b \in off1 /\ r \in off1 /\ off1 \ {r} = {b}
  BY <1>3, <1>4
<1> HIDE DEF n2, L2, off1
<1> DEFINE mem2 == StoredFree(h1.mem, b, size[b] + size[r])
<1>10. IsHeap(h1)
  BY <1>8 DEF Shape
<1>11. mem2 \in [Words -> Int]
  <2> DEFINE sz == size[b] + size[r]
  <2>1. h1.mem \in [Words -> Int]
    BY <1>10 DEF IsHeap
  <2>2. sz \in Nat /\ sz >= 8 /\ b + sz <= heap_start + heap_max_size
    BY <1>0, <1>2
  <2> HIDE DEF sz
  <2>3. StoredFree(h1.mem, b, sz) \in [Words -> Int]
    BY <2>1, <2>2, <1>2, SetBlockFree
  <2> QED BY <2>3 DEF sz
<1> HIDE DEF mem2
<1>12. IsHeap(hq) /\ Quiet(h1, hq) /\ hq.mem = mem2 /\ hq.head = h1.head
  <2>1. /\ hq = [mem |-> mem2, mapped |-> h1.mapped, head |-> h1.head,
                 allocated |-> h1.allocated, frames |-> h1.frames, gaps |-> h1.gaps]
        /\ h1.frames \in Nat /\ h1.allocated \in Int
    BY <1>10 DEF IsHeap, mem2
  <2>2. /\ hq.mem = mem2 /\ hq.mapped = h1.mapped /\ hq.head = h1.head
        /\ hq.allocated = h1.allocated /\ hq.frames = h1.frames /\ hq.gaps = h1.gaps
    BY <2>1
  <2>3. IsHeap(hq)
    BY <2>1, <2>2, <1>11 DEF IsHeap
  <2> QED BY <2>2, <2>3 DEF Quiet
<1>13. hq.mem = StoredFree(h1.mem, b, size[b] + size[r])
  BY <1>12 DEF mem2
<1>14. /\ Shape(FooterHoldsFlag, hq, Joined(size, b), busy, off1 \ {r}, n2, L2)
       /\ Untouched(h1.mem, hq.mem, size, busy)
  <2>1. b \in off1 /\ r \in off1
    BY <1>9
  <2>2. IsHeap(hq) /\ Quiet(h1, hq) /\ hq.head = h1.head
    BY <1>12
  <2>3. r = b + size[b]
    BY <1>0
  <2> HIDE DEF mem2
  <2> QED BY <1>8, <2>1, <2>2, <2>3, <1>13, Join
<1>15. Shape(FooterHoldsFlag, hq, Joined(size, b), busy, {b}, n2, L2)
  BY <1>9, <1>14
<1>16. Untouched(hp.mem, hq.mem, size, busy)
  BY <1>7, <1>14 DEF Untouched
<1>17. Quiet(hp, hq)
  BY <1>7, <1>12 DEF Quiet
<1> QED BY <1>15, <1>16, <1>17

\* merge_prev joins the block b with the free block before it.
LEMMA MergePrev ==
  ASSUME FooterHoldsFlag = TRUE,
         NEW hp, NEW size, NEW busy, NEW n, NEW L, NEW b,
         Shape(FooterHoldsFlag, hp, size, busy, {b}, n, L), hp.gaps = {},
         NEW m, m = merge_prev(hp, b)
  PROVE  \E size1, n1, L1 :
           /\ Shape(FooterHoldsFlag, m.hp, size1, busy, {m.b}, n1, L1)
           /\ JoinedPrev(size, busy, b, size1, m.b)
           /\ Untouched(hp.mem, m.hp.mem, size, busy) /\ Quiet(hp, m.hp)
<1> DEFINE prev == blk_prev_phys(hp.mem, b)
<1>1. /\ Layout(hp.mapped, hp.gaps, size) /\ Offers(size, busy, {b}, n, L)
      /\ Tags(FooterHoldsFlag, hp.mem, size, busy)
  BY DEF Shape
<1>2. b \in DOMAIN size /\ b \notin busy /\ busy \subseteq DOMAIN size
  BY <1>1 DEF Offers
<1>3. \A d \in DOMAIN size :
        /\ d \in Nat /\ size[d] \in Nat /\ size[d] >= 8 /\ size[d] <= heap_max_size
        /\ d # NULL /\ size[d] \in 8 .. heap_max_size
  BY <1>1, BlockWords DEF Layout
<1>4. CASE m = [hp |-> hp, b |-> b]
  <2>1. m.hp = hp /\ m.b = b
    BY <1>4
  <2>2. JoinedPrev(size, busy, b, size, m.b)
    BY <2>1 DEF JoinedPrev
  <2>3. Untouched(hp.mem, m.hp.mem, size, busy) /\ Quiet(hp, m.hp)
    BY <2>1 DEF Untouched, Quiet
  <2> QED BY <2>1, <2>2, <2>3
<1>5. CASE b = heap_start
  <2>1. prev = NULL
    BY <1>5 DEF blk_prev_phys
  <2>2. m = [hp |-> hp, b |-> b]
    BY <2>1 DEF merge_prev
  <2> QED BY <2>2, <1>4
<1>6. CASE b # heap_start
  <2>1. PICK c \in DOMAIN size : c + size[c] = b
    BY <1>1, <1>2, <1>6, PrevBlock
  <2>2. c \in Nat /\ size[c] \in Nat /\ size[c] >= 8 /\ size[c] <= heap_max_size /\ c # NULL
    BY <1>3
  <2>3. hp.mem[b - 2] = HeaderWord(size[c], c \in busy)
    <3>1. Tagged(FooterHoldsFlag, hp.mem, c, size[c], c \in busy)
      BY <1>1 DEF Tags
    <3>2. hp.mem[c + size[c] - 2] = HeaderWord(size[c], c \in busy)
      BY <3>1 DEF Tagged
    <3>3. c + size[c] - 2 = b - 2
      BY <2>1, <2>2
    <3> QED BY <3>2, <3>3
  <2>4. CASE c \in busy
    <3>1. hp.mem[b - 2] = size[c] + 2 * heap_max_size
      BY <2>3, <2>4, Constants DEF HeaderWord
    <3>2. hp.mem[b - 2] > heap_max_size
      BY <3>1, <2>2, Constants
    <3>3. prev = NULL
      BY <3>2 DEF blk_prev_phys
    <3>4. m = [hp |-> hp, b |-> b]
      BY <3>3 DEF merge_prev
    <3> QED BY <3>4, <1>4
  <2>5. CASE c \notin busy
    <3>1. hp.mem[b - 2] = size[c]
      BY <2>3, <2>5, <2>2 DEF HeaderWord
    <3>2. prev = c
      <4>1. ~ (b = heap_start \/ size[c] = 0 \/ size[c] > heap_max_size)
        BY <2>2, <1>6, Constants
      <4>2. prev = b - size[c]
        BY <3>1, <4>1 DEF blk_prev_phys
      <4> QED BY <4>2, <2>1, <2>2
    <3>3. blk_size(hp.mem, c) = size[c] /\ ~ blk_is_alloc(hp.mem, c)
      <4>1. /\ blk_size(hp.mem, c) = size[c] /\ (blk_is_alloc(hp.mem, c) <=> c \in busy)
            /\ blk_magic(hp.mem, c) = MAGIC_VALUE
        <5>1. size[c] \in 8 .. heap_max_size /\ c \in DOMAIN size
          BY <1>3
        <5>2. Tags(FooterHoldsFlag, hp.mem, size, busy)
          BY <1>1
        <5> QED BY <5>1, <5>2, TaggedSays
      <4> QED BY <4>1, <2>5
    <3>4. blk_size(hp.mem, b) = size[b]
      BY <1>1, <1>2, <1>3, TaggedSays
    <3> HIDE DEF prev
    <3> DEFINE h1 == list_remove(hp, c)
               hq == [h1 EXCEPT !.mem = StoredFree(h1.mem, c, size[c] + size[b])]
    <3>5. m = [hp |-> hq, b |-> c]
      BY <3>2, <3>3, <3>4, <2>2 DEF merge_prev, StoredFree, prev
    <3>6. {b} = {c, b} \ {c}
      BY <2>1, <2>2
    <3>7. /\ \E n2, L2 : Shape(FooterHoldsFlag, hq, Joined(size, c), busy, {c}, n2, L2)
          /\ Untouched(hp.mem, hq.mem, size, busy) /\ Quiet(hp, hq)
      <4>1. c \in {c, b}
        OBVIOUS
      <4>2. Abuts(size, c, b)
        BY <2>1, <1>2 DEF Abuts
      <4>3. FooterHoldsFlag \in BOOLEAN
        OBVIOUS
      <4> HIDE DEF h1
      <4>4. h1 = list_remove(hp, c)
        BY DEF h1
      <4>5. hq = [h1 EXCEPT !.mem = StoredFree(h1.mem, c, size[c] + size[b])]
        OBVIOUS
      <4> HIDE DEF hq
      <4> DEFINE off == {b}
      <4>6. off = {c, b} \ {c} /\ Shape(FooterHoldsFlag, hp, size, busy, off, n, L)
        BY <3>6
      <4>7. c \notin busy
        BY <2>5
      <4> HIDE DEF off
      <4> QED BY <4>1, <4>2, <4>3, <4>4, <4>5, <4>6, <4>7, MergeStep
    <3>8. m.hp = hq /\ m.b = c
      BY <3>5
    <3>9. JoinedPrev(size, busy, b, Joined(size, c), m.b)
      BY <3>8, <2>1, <2>5 DEF JoinedPrev
    <3> HIDE DEF hq
    <3> QED BY <3>7, <3>8, <3>9
  <2> QED BY <2>4, <2>5
<1> QED BY <1>5, <1>6

\* merge_next joins the block b with the free block behind it.
LEMMA MergeNext ==
  ASSUME FooterHoldsFlag = TRUE,
         NEW hp, NEW size, NEW busy, NEW n, NEW L, NEW b,
         Shape(FooterHoldsFlag, hp, size, busy, {b}, n, L), hp.gaps = {},
         NEW hq, hq = merge_next(hp, b)
  PROVE  \E size2, n2, L2 :
           /\ Shape(FooterHoldsFlag, hq, size2, busy, {b}, n2, L2)
           /\ JoinedNext(size, busy, b, size2)
           /\ Untouched(hp.mem, hq.mem, size, busy) /\ Quiet(hp, hq)
<1> DEFINE r == b + size[b]
<1>1. /\ Layout(hp.mapped, hp.gaps, size) /\ Offers(size, busy, {b}, n, L)
      /\ Tags(FooterHoldsFlag, hp.mem, size, busy)
  BY DEF Shape
<1>2. b \in DOMAIN size /\ b \notin busy /\ busy \subseteq DOMAIN size
  BY <1>1 DEF Offers
<1>3. \A d \in DOMAIN size :
        /\ d \in Nat /\ size[d] \in Nat /\ size[d] >= 8 /\ size[d] <= heap_max_size
        /\ d # NULL /\ size[d] \in 8 .. heap_max_size
        /\ d + size[d] <= heap_start + hp.mapped
  BY <1>1, BlockWords DEF Layout
<1>4. CASE hq = hp
  <2>1. JoinedNext(size, busy, b, size)
    BY DEF JoinedNext
  <2>2. Untouched(hp.mem, hq.mem, size, busy) /\ Quiet(hp, hq)
    BY <1>4 DEF Untouched, Quiet
  <2> QED BY <1>4, <2>1, <2>2
<1>5. blk_size(hp.mem, b) = size[b]
  BY <1>1, <1>2, <1>3, TaggedSays
<1>6. r = heap_start + hp.mapped \/ r \in DOMAIN size
  BY <1>1, <1>2 DEF Layout, Starts, End
<1>7. CASE r \notin DOMAIN size
  <2>1. r >= heap_start + hp.mapped
    BY <1>6, <1>7, <1>2, <1>3
  <2>2. hq = hp
    BY <2>1, <1>5 DEF merge_next
  <2> QED BY <2>2, <1>4
<1>8. CASE r \in DOMAIN size
  <2>1. ~ (r >= heap_start + hp.mapped)
    <3>1. heap_start + hp.mapped \in Nat
      BY <1>1, BlockWords, Constants
    <3> QED BY <3>1, <1>3, <1>8
  <2>2. blk_is_alloc(hp.mem, r) <=> r \in busy
    BY <1>1, <1>3, <1>8, TaggedSays
  <2>3. CASE r \in busy
    <3>1. hq = hp
      BY <2>2, <2>3, <1>5 DEF merge_next
    <3> QED BY <3>1, <1>4
  <2>4. CASE r \notin busy
    <3> DEFINE h1 == list_remove(hp, r)
               g == [h1 EXCEPT !.mem = StoredFree(h1.mem, b, size[b] + size[r])]
    <3>0. r # b /\ {b, r} \ {r} = {b}
      BY <1>2, <1>3
    <3>1. PICK i \in 1 .. n : L[i] = r
      BY <1>1, <1>8, <2>4, <3>0 DEF Offers
    <3>2. Shape(FooterHoldsFlag, h1, size, busy, {b} \cup {L[i]}, n - 1, Without(n, L, i))
      BY <3>1, Unlink
    <3>3. blk_size(h1.mem, r) = size[r]
      <4>1. Tags(FooterHoldsFlag, h1.mem, size, busy)
        BY <3>2 DEF Shape
      <4>2. size[r] \in 8 .. heap_max_size
        BY <1>3, <1>8
      <4> HIDE DEF h1, r
      <4> QED BY <4>1, <4>2, <1>8, TaggedSays
    <3>4. hq = g
      BY <3>3, <2>1, <2>2, <2>4, <1>5 DEF merge_next, StoredFree
    <3>5. /\ \E n2, L2 : Shape(FooterHoldsFlag, g, Joined(size, b), busy, {b}, n2, L2)
          /\ Untouched(hp.mem, g.mem, size, busy) /\ Quiet(hp, g)
      <4>1. {b} = {b, r} \ {r}
        BY <3>0
      <4>2. r \in {b, r}
        OBVIOUS
      <4>3. FooterHoldsFlag \in BOOLEAN
        OBVIOUS
      <4>4. Abuts(size, b, r)
        BY <1>2, <1>8 DEF Abuts
      <4> HIDE DEF h1
      <4>5. h1 = list_remove(hp, r)
        BY DEF h1
      <4>6. g = [h1 EXCEPT !.mem = StoredFree(h1.mem, b, size[b] + size[r])]
        OBVIOUS
      <4> HIDE DEF g, r
      <4>7. r \notin busy
        BY <2>4
      <4> DEFINE off == {b}
      <4>8. off = {b, r} \ {r} /\ Shape(FooterHoldsFlag, hp, size, busy, off, n, L)
        BY <4>1
      <4> HIDE DEF off
      <4> QED BY <4>2, <4>3, <4>4, <4>5, <4>6, <4>7, <4>8, MergeStep
    <3>6. JoinedNext(size, busy, b, Joined(size, b))
      BY <1>8, <2>4 DEF JoinedNext
    <3> HIDE DEF g
    <3> QED BY <3>4, <3>5, <3>6
  <2> QED BY <2>3, <2>4
<1> QED BY <1>7, <1>8

\* kfree gave block b back, joined with its free neighbours.
Freed(hp, size, busy, b, hq) ==
  /\ Quiet(hp, hq) /\ Untouched(hp.mem, hq.mem, size, busy \ {b})
  /\ \E lo, size1, size2, n, L :
       /\ JoinedPrev(size, busy \ {b}, b, size1, lo)
       /\ JoinedNext(size1, busy \ {b}, lo, size2)
       /\ Shape(FooterHoldsFlag, hq, size2, busy \ {b}, {}, n, L)

\* Joining does not change the blocks in use.
LEMMA JoinedKeeps ==
  ASSUME NEW size, NEW busy, NEW b, NEW size1, NEW lo, b \notin busy, busy \subseteq DOMAIN size,
         JoinedPrev(size, busy, b, size1, lo)
  PROVE  busy \subseteq DOMAIN size1 /\ \A c \in busy : size1[c] = size[c]
BY DEF JoinedPrev, Joined

\* kfree without the allocated bit in the footers does nothing; with it, it
\* gives the block back.
LEMMA Kfrees ==
  ASSUME FooterHoldsFlag \in BOOLEAN,
         NEW hp, NEW size, NEW busy, NEW n, NEW L,
         Shape(FooterHoldsFlag, hp, size, busy, {}, n, L),
         NEW b \in busy, NEW hq, hq = kfree(hp, b + 4)
  PROVE  /\ ~ FooterHoldsFlag => hq = hp
         /\ FooterHoldsFlag /\ hp.gaps = {} => Freed(hp, size, busy, b, hq)
<1> DEFINE sz == size[b]
           ptr == b + 4
           busy1 == busy \ {b}
<1>1. /\ IsHeap(hp) /\ Layout(hp.mapped, hp.gaps, size) /\ Offers(size, busy, {}, n, L)
      /\ Tags(FooterHoldsFlag, hp.mem, size, busy)
  BY DEF Shape
<1>2. b \in DOMAIN size /\ busy \subseteq DOMAIN size
  BY <1>1 DEF Offers
<1>3. /\ b \in Nat /\ sz \in Nat /\ sz >= 8 /\ sz <= heap_max_size /\ sz \in 8 .. heap_max_size
      /\ b >= heap_start /\ b + sz <= heap_start + hp.mapped
      /\ b + sz <= heap_start + heap_max_size
  BY <1>1, <1>2, BlockWords DEF Layout
<1>4. /\ ptr - BLOCK_HEADER_SIZE = b /\ ptr # NULL
  BY <1>3, Constants DEF BLOCK_HEADER_SIZE
<1>5. /\ blk_size(hp.mem, b) = sz /\ (blk_is_alloc(hp.mem, b) <=> b \in busy)
      /\ blk_magic(hp.mem, b) = MAGIC_VALUE
  BY <1>1, <1>2, <1>3, TaggedSays
<1>6. /\ hp.mem[b] = sz + BLOCK_ALLOCATED
      /\ hp.mem[b + sz - 2] = IF FooterHoldsFlag THEN sz + BLOCK_ALLOCATED ELSE sz
      /\ hp.mem[b + sz - 1] = MAGIC_VALUE
  <2>1. Tagged(FooterHoldsFlag, hp.mem, b, sz, b \in busy)
    BY <1>1, <1>2 DEF Tags
  <2> QED BY <2>1 DEF Tagged, HeaderWord
<1> HIDE DEF sz, ptr
<1>7. check_footer(hp.mem, b) <=> FooterHoldsFlag
  <2>1. sz # sz + BLOCK_ALLOCATED
    BY <1>3, Constants
  <2> QED BY <2>1, <1>5, <1>6 DEF check_footer
<1>8. CASE ~ FooterHoldsFlag
  <2>1. kfree(hp, ptr) = hp
    BY <1>4, <1>7, <1>8 DEF kfree
  <2> QED BY <2>1, <1>8 DEF ptr
<1>9. CASE FooterHoldsFlag /\ hp.gaps = {}
  <2> DEFINE hp1 == [hp EXCEPT !.allocated = @ - sz, !.mem = set_block(@, b, sz, FALSE)]
             m == merge_prev(hp1, b)
             hp2 == merge_next(m.hp, m.b)
  <2>1. hq = list_insert_head(hp2, m.b)
    <3>1. ~ (b < heap_start) /\ ~ (b >= heap_start + hp.mapped)
      <4>1. hp.mapped \in Nat
        BY <1>1, BlockWords
      <4> QED BY <4>1, <1>3, Constants
    <3>2. blk_magic(hp.mem, b) = MAGIC_VALUE /\ check_footer(hp.mem, b)
          /\ blk_is_alloc(hp.mem, b)
      BY <1>5, <1>7, <1>9
    <3>3. hq = kfree(hp, ptr)
      BY DEF ptr
    <3> QED BY <3>1, <3>2, <3>3, <1>4, <1>5 DEF kfree
  <2> DEFINE mem1 == StoredFree(hp.mem, b, sz)
  <2>2. mem1 \in [Words -> Int]
    <3>1. hp.mem \in [Words -> Int]
      BY <1>1 DEF IsHeap
    <3> QED BY <3>1, <1>3, SetBlockFree
  <2>3. hp1 = [hp EXCEPT !.allocated = @ - sz, !.mem = mem1]
    BY DEF StoredFree
  <2> HIDE DEF hp1, mem1
  <2>4. IsHeap(hp1) /\ Quiet(hp, hp1) /\ hp1.mem = mem1 /\ hp1.head = hp.head
    <3>1. /\ hp1 = [mem |-> mem1, mapped |-> hp.mapped, head |-> hp.head,
                   allocated |-> hp.allocated - sz, frames |-> hp.frames, gaps |-> hp.gaps]
          /\ hp.frames \in Nat /\ hp.allocated - sz \in Int
      <4>1. hp = [mem |-> hp.mem, mapped |-> hp.mapped, head |-> hp.head,
                  allocated |-> hp.allocated, frames |-> hp.frames, gaps |-> hp.gaps]
        BY <1>1 DEF IsHeap
      <4>2. hp.frames \in Nat /\ hp.allocated - sz \in Int
        BY <1>1, <1>3 DEF IsHeap
      <4>3. hp1 = [mem |-> mem1, mapped |-> hp.mapped, head |-> hp.head,
                   allocated |-> hp.allocated - sz, frames |-> hp.frames, gaps |-> hp.gaps]
        BY <4>1, <2>3
      <4> QED BY <4>2, <4>3
    <3>2. /\ hp1.mem = mem1 /\ hp1.mapped = hp.mapped /\ hp1.head = hp.head
          /\ hp1.allocated = hp.allocated - sz /\ hp1.frames = hp.frames /\ hp1.gaps = hp.gaps
      BY <3>1
    <3>3. IsHeap(hp1)
      BY <3>1, <3>2, <2>2 DEF IsHeap
    <3> QED BY <3>2, <3>3 DEF Quiet
  <2>5. /\ Shape(FooterHoldsFlag, hp1, size, busy1, {b}, n, L)
        /\ Untouched(hp.mem, hp1.mem, size, busy)
    <3> DEFINE off == {}
               off2 == off \cup {b}
    <3>1. Retagged(hp.mem, hp1.mem, b, size[b], busy, off, busy1, off2)
      <4>1. hp1.mem = StoredFree(hp.mem, b, size[b])
        BY <2>4 DEF mem1, sz
      <4> QED BY <4>1 DEF Retagged
    <3>2. b \in busy \cup off /\ off2 = {b}
      OBVIOUS
    <3>3. Shape(FooterHoldsFlag, hp, size, busy, off, n, L)
      OBVIOUS
    <3> HIDE DEF off, off2, busy1
    <3>4. /\ Shape(FooterHoldsFlag, hp1, size, busy1, off2, n, L)
          /\ Untouched(hp.mem, hp1.mem, size, busy)
      BY <3>1, <3>2, <3>3, <2>4, Retag
    <3> QED BY <3>2, <3>4
  <2> HIDE DEF busy1
  <2>6. hp1.gaps = {} /\ FooterHoldsFlag = TRUE
    BY <2>4, <1>9 DEF Quiet
  <2>7. PICK size1, n1, L1 :
          /\ Shape(FooterHoldsFlag, m.hp, size1, busy1, {m.b}, n1, L1)
          /\ JoinedPrev(size, busy1, b, size1, m.b)
          /\ Untouched(hp1.mem, m.hp.mem, size, busy1) /\ Quiet(hp1, m.hp)
    <3> HIDE DEF m
    <3>1. m = merge_prev(hp1, b)
      BY DEF m
    <3> QED BY <3>1, <2>5, <2>6, MergePrev
  <2> HIDE DEF m
  <2>8. m.hp.gaps = {}
    BY <2>6, <2>7 DEF Quiet
  <2>9. PICK size2, n2, L2 :
          /\ Shape(FooterHoldsFlag, hp2, size2, busy1, {m.b}, n2, L2)
          /\ JoinedNext(size1, busy1, m.b, size2)
          /\ Untouched(m.hp.mem, hp2.mem, size1, busy1) /\ Quiet(m.hp, hp2)
    <3> DEFINE lo == m.b
               g == m.hp
    <3>1. Shape(FooterHoldsFlag, g, size1, busy1, {lo}, n1, L1) /\ g.gaps = {}
      BY <2>7, <2>8
    <3>2. hp2 = merge_next(g, lo)
      OBVIOUS
    <3> HIDE DEF lo, g, hp2
    <3>3. \E size2, n2, L2 :
            /\ Shape(FooterHoldsFlag, hp2, size2, busy1, {lo}, n2, L2)
            /\ JoinedNext(size1, busy1, lo, size2)
            /\ Untouched(g.mem, hp2.mem, size1, busy1) /\ Quiet(g, hp2)
      BY <3>1, <3>2, <2>6, MergeNext
    <3> QED BY <3>3 DEF lo, g
  <2> HIDE DEF hp2
  <2>10. /\ Shape(FooterHoldsFlag, hq, size2, busy1, {}, n2 + 1, Before(n2, L2, m.b))
         /\ Untouched(hp2.mem, hq.mem, size2, busy1) /\ Quiet(hp2, hq)
    <3> DEFINE lo == m.b
               off == {lo}
    <3>1. lo \in off /\ off \ {lo} = {} /\ hq = list_insert_head(hp2, lo)
          /\ Shape(FooterHoldsFlag, hp2, size2, busy1, off, n2, L2)
      BY <2>1, <2>9
    <3> HIDE DEF lo, off
    <3>2. /\ Shape(FooterHoldsFlag, hq, size2, busy1, off \ {lo}, n2 + 1, Before(n2, L2, lo))
          /\ Untouched(hp2.mem, hq.mem, size2, busy1) /\ Quiet(hp2, hq)
      BY <3>1, Push
    <3> QED BY <3>1, <3>2 DEF lo
  <2>11. Quiet(hp, hq)
    BY <2>4, <2>7, <2>9, <2>10 DEF Quiet
  <2>12. busy1 \subseteq DOMAIN size1 /\ \A c \in busy1 : size1[c] = size[c]
    <3>1. b \notin busy1 /\ busy1 \subseteq DOMAIN size
      BY <1>2 DEF busy1
    <3> QED BY <3>1, <2>7, JoinedKeeps
  <2>13. \A c \in busy1 : size2[c] = size1[c]
    <3>1. m.b \notin busy1
      <4>1. Offers(size1, busy1, {m.b}, n1, L1)
        BY <2>7 DEF Shape
      <4> QED BY <4>1 DEF Offers
    <3> QED BY <3>1, <2>9, <2>12 DEF JoinedNext, Joined
  <2>14. Untouched(hp.mem, hq.mem, size, busy1)
    <3> SUFFICES ASSUME NEW c \in busy1, NEW a \in c + 4 .. c + size[c] - 3
                 PROVE  hq.mem[a] = hp.mem[a]
      BY DEF Untouched
    <3>1. c \in busy
      BY DEF busy1
    <3>2. hp1.mem[a] = hp.mem[a]
      BY <3>1, <2>5 DEF Untouched
    <3>3. m.hp.mem[a] = hp1.mem[a]
      BY <2>7 DEF Untouched
    <3>4. hp2.mem[a] = m.hp.mem[a]
      BY <2>9, <2>12 DEF Untouched
    <3>5. hq.mem[a] = hp2.mem[a]
      BY <2>10, <2>12, <2>13 DEF Untouched
    <3> QED BY <3>2, <3>3, <3>4, <3>5
  <2>15. Freed(hp, size, busy, b, hq)
    BY <2>7, <2>9, <2>10, <2>11, <2>14 DEF Freed, busy1
  <2> QED BY <2>15, <1>9
<1> QED BY <1>8, <1>9

-----------------------------------------------------------------------------
(* heap_init.                                                              *)

\* The heap as heap_init leaves it: nothing mapped, or one free block.
Fresh(mapped, size) ==
  \/ mapped = 0 /\ DOMAIN size = {}
  \/ mapped # 0 /\ DOMAIN size = {heap_start} /\ size[heap_start] = mapped

LEMMA PageRecord ==
  ASSUME NEW hp, IsHeap(hp), NEW a, NEW b, NEW c,
         NEW hq, hq = [hp EXCEPT !.mapped = a, !.frames = b, !.mem = c]
  PROVE  hq = [mem |-> c, mapped |-> a, head |-> hp.head,
               allocated |-> hp.allocated, frames |-> b, gaps |-> hp.gaps]
<1>1. hp = [mem |-> hp.mem, mapped |-> hp.mapped, head |-> hp.head,
            allocated |-> hp.allocated, frames |-> hp.frames, gaps |-> hp.gaps]
  BY DEF IsHeap
<1> QED BY <1>1

LEMMA HeapInit ==
  ASSUME FooterHoldsFlag \in BOOLEAN, NEW f \in Nat, NEW hp, hp = heap_init(f)
  PROVE  /\ PageMultiple(hp.mapped) /\ hp.gaps = {}
         /\ \E size, n, L : /\ Shape(FooterHoldsFlag, hp, size, {}, {}, n, L)
                            /\ Fresh(hp.mapped, size)
<1> DEFINE zeros == [a \in Words |-> 0]
           empty == [mem |-> zeros, mapped |-> 0, head |-> NULL,
                     allocated |-> 0, frames |-> f, gaps |-> {}]
           none == [b \in {} |-> 0]
           L0 == [i \in 1 .. 0 |-> 0]
           n0 == 0
<1>1. zeros \in [Words -> Int] /\ \A a \in Words : zeros[a] = 0
  OBVIOUS
<1> HIDE DEF zeros
<1>2. IsHeap(empty)
  BY <1>1 DEF IsHeap
<1>3. empty.mem = zeros /\ empty.mapped = 0 /\ empty.head = NULL /\ empty.gaps = {}
      /\ empty.frames = f /\ empty.allocated = 0
  OBVIOUS
<1>4. Shape(FooterHoldsFlag, empty, none, {}, {}, n0, L0)
  <2>1. DOMAIN none = {} /\ none = [b \in DOMAIN none |-> none[b]]
    OBVIOUS
  <2>2. Layout(0, {}, none)
    BY <2>1, Constants DEF Layout, Starts, End
  <2>3. Tags(FooterHoldsFlag, zeros, none, {})
    BY <2>1 DEF Tags
  <2>4. Blank(zeros, 0, {})
    BY <1>1 DEF Blank
  <2>5. Offers(none, {}, {}, n0, L0)
    BY <2>1 DEF Offers
  <2>6. Links(zeros, NULL, n0, L0)
    BY DEF Links
  <2> HIDE DEF none, n0, L0, empty
  <2> QED BY <2>1, <2>2, <2>3, <2>4, <2>5, <2>6, <1>2, <1>3 DEF Shape
<1>5. 0 \in Nat /\ 0 = 0 * VMM_PAGE_SIZE /\ VMM_PAGE_SIZE = 1 * VMM_PAGE_SIZE
  BY Constants
<1>6. CASE f = 0
  <2>1. hp = empty
    BY <1>6 DEF heap_init, zeros, Words
  <2>2. Fresh(0, none)
    BY DEF Fresh
  <2>3. PageMultiple(0)
    BY <1>5 DEF PageMultiple
  <2> HIDE DEF none, L0, n0, empty
  <2> QED BY <2>1, <2>2, <2>3, <1>3, <1>4
<1>7. CASE f # 0
  <2> DEFINE P == VMM_PAGE_SIZE
             e == heap_start
             mem1 == StoredFree(zeros, e, P)
             page == [mem |-> mem1, mapped |-> P, head |-> NULL,
                      allocated |-> 0, frames |-> f - 1, gaps |-> {}]
  <2>1. hp = list_insert_head(page, e)
    <3>1. page = [empty EXCEPT !.mapped = P, !.frames = @ - 1,
                               !.mem = set_block(@, e, P, FALSE)]
      <4>1. mem1 = set_block(zeros, e, P, FALSE)
        BY DEF StoredFree
      <4> HIDE DEF mem1, P
      <4>2. page = [empty EXCEPT !.mapped = P, !.frames = f - 1, !.mem = mem1]
        <5> DEFINE x == f - 1
                   hq == [empty EXCEPT !.mapped = P, !.frames = x, !.mem = mem1]
        <5> HIDE DEF empty, x, page, hq
        <5>1. hq = [empty EXCEPT !.mapped = P, !.frames = x, !.mem = mem1]
          BY DEF hq
        <5>2. hq = [mem |-> mem1, mapped |-> P, head |-> empty.head,
                    allocated |-> empty.allocated, frames |-> x, gaps |-> empty.gaps]
          BY <5>1, <1>2, PageRecord
        <5>3. page = [mem |-> mem1, mapped |-> P, head |-> empty.head,
                      allocated |-> empty.allocated, frames |-> x, gaps |-> empty.gaps]
          BY <1>3 DEF x, page
        <5> QED BY <5>1, <5>2, <5>3 DEF x
      <4> QED BY <4>1, <4>2, <1>3
    <3> QED BY <3>1, <1>7 DEF heap_init, zeros, Words
  <2>2. /\ P \in Nat /\ P >= 8 /\ P % 2 = 0 /\ P <= heap_max_size
        /\ e \in Nat /\ e >= heap_start /\ e + P <= heap_start + heap_max_size
        /\ e = End(0) /\ f - 1 \in Nat /\ 0 + P = P
    BY <1>7, Constants DEF End
  <2>3. mem1 \in [Words -> Int]
    <3> HIDE DEF P, e
    <3> QED BY <2>2, <1>1, SetBlockFree
  <2> HIDE DEF mem1
  <2>4. IsHeap(page)
    BY <2>2, <2>3 DEF IsHeap
  <2>5. /\ page.head = empty.head /\ page.mapped = empty.mapped + P
        /\ page.gaps = empty.gaps /\ page.mem = StoredFree(empty.mem, e, P)
        /\ empty.mapped + P <= heap_max_size /\ e = End(empty.mapped)
    BY <2>2, <1>3 DEF mem1
  <2>5a. page.mapped = P /\ page.gaps = {}
    OBVIOUS
  <2> HIDE DEF page, empty, none, n0, L0, P, e
  <2> DEFINE size1 == Plus(none, e, P)
             off == {} \cup {e}
  <2>6. Shape(FooterHoldsFlag, page, size1, {}, off, n0, L0)
    BY <2>2, <2>4, <2>5, <1>4, Extend
  <2>7. DOMAIN size1 = {e} /\ size1[e] = P
    BY DEF Plus, none
  <2>8. e \in off /\ off \ {e} = {}
    OBVIOUS
  <2> HIDE DEF size1, off
  <2> DEFINE n1 == n0 + 1
             L1 == Before(n0, L0, e)
  <2>9. Shape(FooterHoldsFlag, hp, size1, {}, off \ {e}, n1, L1) /\ Quiet(page, hp)
    BY <2>1, <2>6, <2>8, Push
  <2>10. Shape(FooterHoldsFlag, hp, size1, {}, {}, n1, L1)
    BY <2>8, <2>9
  <2>11. hp.mapped = P /\ hp.gaps = {}
    BY <2>5a, <2>9 DEF Quiet
  <2>12. Fresh(hp.mapped, size1)
    <3>1. P # 0 /\ DOMAIN size1 = {heap_start} /\ size1[heap_start] = P
      BY <2>2, <2>7 DEF e
    <3> QED BY <3>1, <2>11 DEF Fresh
  <2>13. PageMultiple(P)
    BY <1>5 DEF PageMultiple, P
  <2> QED BY <2>10, <2>11, <2>12, <2>13
<1> QED BY <1>6, <1>7

-----------------------------------------------------------------------------
(* The callers.                                                            *)

\* A caller as a record.
IsCaller(k) ==
  /\ k = [ptr |-> k.ptr, size |-> k.size, tag |-> k.tag, new |-> k.new,
          newsize |-> k.newsize]
  /\ k.ptr \in Int /\ k.size \in Nat /\ k.tag \in Int /\ k.new \in Int /\ k.newsize \in Nat

\* What the caller k asked for lies in a block in use and holds its tag, and
\* so does, while it is inside krealloc, the larger block that it will move
\* to.
Holds(mem, size, busy, ptr, sz, tag) ==
  /\ ptr - 4 \in busy /\ sz <= size[ptr - 4] - 6
  /\ \A a \in ptr .. ptr + sz - 1 : mem[a] = tag

Moves(size, busy, k) ==
  /\ k.ptr # NULL /\ k.new # k.ptr
  /\ k.new - 4 \in busy /\ k.newsize <= size[k.new - 4] - 6
  /\ size[k.ptr - 4] - 6 < k.newsize

Kept(mem, size, busy, k) ==
  /\ IsCaller(k)
  /\ k.ptr # NULL => Holds(mem, size, busy, k.ptr, k.size, k.tag)
  /\ k.new # NULL => Moves(size, busy, k)

\* No block belongs to two callers.
Strangers(j, k) == \A p \in {j.ptr, j.new} : p # NULL => p # k.ptr /\ p # k.new

\* The callers' blocks in a heap of the blocks of size.
Callers(mem, size, busy, cl) ==
  /\ cl \in [Clients -> { cl[c] : c \in Clients }]
  /\ \A c \in Clients : Kept(mem, size, busy, cl[c])
  /\ \A c, d \in Clients : c # d => Strangers(cl[c], cl[d])

\* A caller none of whose blocks changed.
LEMMA StillKept ==
  ASSUME NEW mem, NEW size, NEW busy, NEW k, Kept(mem, size, busy, k),
         NEW mem2, NEW size2, NEW busy2, NEW keep, Untouched(mem, mem2, size, keep),
         keep \subseteq busy2, \A b \in keep : size2[b] = size[b] /\ b \in Int /\ size[b] \in Int,
         k.ptr # NULL => k.ptr - 4 \in keep, k.new # NULL => k.new - 4 \in keep
  PROVE  Kept(mem2, size2, busy2, k)
<1>1. IsCaller(k) /\ k.ptr \in Int /\ k.size \in Nat
  BY DEF Kept, IsCaller
<1>2. k.ptr # NULL => Holds(mem2, size2, busy2, k.ptr, k.size, k.tag)
  <2> SUFFICES ASSUME k.ptr # NULL PROVE Holds(mem2, size2, busy2, k.ptr, k.size, k.tag)
    OBVIOUS
  <2> DEFINE b == k.ptr - 4
  <2>1. b \in keep /\ b \in Int /\ size[b] \in Int /\ size2[b] = size[b] /\ k.ptr = b + 4
    BY <1>1
  <2>2. Holds(mem, size, busy, k.ptr, k.size, k.tag)
    BY DEF Kept
  <2>3. k.size <= size[b] - 6 /\ \A a \in k.ptr .. k.ptr + k.size - 1 : mem[a] = k.tag
    BY <2>2 DEF Holds
  <2>4. \A a \in k.ptr .. k.ptr + k.size - 1 : a \in b + 4 .. b + size[b] - 3
    BY <2>1, <2>3, <1>1
  <2>5. \A a \in k.ptr .. k.ptr + k.size - 1 : mem2[a] = mem[a]
    BY <2>1, <2>4 DEF Untouched
  <2> QED BY <2>1, <2>3, <2>5 DEF Holds
<1>3. k.new # NULL => Moves(size2, busy2, k)
  <2> SUFFICES ASSUME k.new # NULL PROVE Moves(size2, busy2, k)
    OBVIOUS
  <2>1. Moves(size, busy, k)
    BY DEF Kept
  <2>2. k.ptr # NULL
    BY <2>1 DEF Moves
  <2>3. k.ptr - 4 \in keep /\ k.new - 4 \in keep
    BY <2>2
  <2> QED BY <2>1, <2>3 DEF Moves
<1> QED BY <1>1, <1>2, <1>3 DEF Kept

\* One caller changes; the blocks of the others do not.
LEMMA OneCaller ==
  ASSUME NEW mem, NEW size, NEW busy, NEW cl, Callers(mem, size, busy, cl),
         NEW mem2, NEW size2, NEW busy2, NEW keep, Untouched(mem, mem2, size, keep),
         keep \subseteq busy2, \A b \in keep : size2[b] = size[b] /\ b \in Int /\ size[b] \in Int,
         NEW c \in Clients, NEW k, Kept(mem2, size2, busy2, k),
         \A d \in Clients : d # c =>
           /\ cl[d].ptr # NULL => cl[d].ptr - 4 \in keep
           /\ cl[d].new # NULL => cl[d].new - 4 \in keep
           /\ Strangers(k, cl[d]) /\ Strangers(cl[d], k)
  PROVE  Callers(mem2, size2, busy2, [cl EXCEPT ![c] = k])
<1> DEFINE cl2 == [cl EXCEPT ![c] = k]
<1>1. /\ cl2 \in [Clients -> { cl2[d] : d \in Clients }]
      /\ cl2[c] = k /\ \A d \in Clients : d # c => cl2[d] = cl[d]
  BY DEF Callers
<1>2. \A d \in Clients : d # c => Kept(mem2, size2, busy2, cl[d])
  <2> SUFFICES ASSUME NEW d \in Clients, d # c PROVE Kept(mem2, size2, busy2, cl[d])
    OBVIOUS
  <2> DEFINE j == cl[d]
  <2>1. /\ Kept(mem, size, busy, j)
        /\ j.ptr # NULL => j.ptr - 4 \in keep
        /\ j.new # NULL => j.new - 4 \in keep
    BY DEF Callers
  <2> HIDE DEF j
  <2>2. Kept(mem2, size2, busy2, j)
    BY <2>1, StillKept
  <2> QED BY <2>2 DEF j
<1>3. \A d, e \in Clients : d # c /\ e # c /\ d # e => Strangers(cl[d], cl[e])
  BY DEF Callers
<1> HIDE DEF cl2
<1>4. \A d \in Clients : Kept(mem2, size2, busy2, cl2[d])
  BY <1>1, <1>2
<1>5. \A d, e \in Clients : d # e => Strangers(cl2[d], cl2[e])
  BY <1>1, <1>3
<1>6. Callers(mem2, size2, busy2, cl2)
  BY <1>1, <1>4, <1>5 DEF Callers
<1> QED BY <1>6 DEF cl2

\* No caller changes.
LEMMA NoCaller ==
  ASSUME NEW mem, NEW size, NEW busy, NEW cl, Callers(mem, size, busy, cl),
         NEW mem2, NEW size2, NEW busy2, Untouched(mem, mem2, size, busy),
         busy \subseteq busy2, \A b \in busy : size2[b] = size[b] /\ b \in Int /\ size[b] \in Int
  PROVE  Callers(mem2, size2, busy2, cl)
<1>1. \A d \in Clients : Kept(mem2, size2, busy2, cl[d])
  <2> SUFFICES ASSUME NEW d \in Clients PROVE Kept(mem2, size2, busy2, cl[d])
    OBVIOUS
  <2> DEFINE j == cl[d]
  <2>1. Kept(mem, size, busy, j)
    BY DEF Callers
  <2>2. /\ j.ptr # NULL => j.ptr - 4 \in busy
        /\ j.new # NULL => j.new - 4 \in busy
    BY <2>1 DEF Kept, Holds, Moves
  <2> HIDE DEF j
  <2>3. Kept(mem2, size2, busy2, j)
    BY <2>1, <2>2, StillKept
  <2> QED BY <2>3 DEF j
<1> QED BY <1>1 DEF Callers

\* The heap hp and the callers cl, with the blocks of size, those of busy
\* allocated.
Good(flag, hp, cl, size, busy) ==
  /\ PageMultiple(hp.mapped) /\ Callers(hp.mem, size, busy, cl)
  /\ \E n, L : Shape(flag, hp, size, busy, {}, n, L)

\* What a step may do to the blocks: nothing but mapping more words, giving
\* out one block, or taking one back.
Move(mapped, size, busy, mapped2, size2, busy2) ==
  \/ mapped2 >= mapped /\ size2 = size /\ busy2 = busy
  \/ \E b, req : /\ Provided(mapped, size, busy, mapped2, size2, b, req)
                 /\ busy2 = busy \cup {b}
  \/ \E b \in busy : \E lo, size1 :
       /\ mapped2 = mapped /\ busy2 = busy \ {b}
       /\ JoinedPrev(size, busy2, b, size1, lo) /\ JoinedNext(size1, busy2, lo, size2)

LEMMA GoodBlocks ==
  ASSUME NEW flag, NEW hp, NEW cl, NEW size, NEW busy, Good(flag, hp, cl, size, busy)
  PROVE  /\ busy \subseteq DOMAIN size /\ hp.mapped \in Nat
         /\ \A b \in DOMAIN size : /\ b \in Int /\ size[b] \in Int /\ b >= heap_start /\ b > 0
                                   /\ size[b] >= 8
         /\ IsHeap(hp) /\ Layout(hp.mapped, hp.gaps, size)
<1>1. PICK n, L : Shape(flag, hp, size, busy, {}, n, L)
  BY DEF Good
<1>2. IsHeap(hp) /\ Layout(hp.mapped, hp.gaps, size) /\ Offers(size, busy, {}, n, L)
  BY <1>1 DEF Shape
<1> QED BY <1>2, BlockWords, Constants DEF Offers

\* kmalloc does not change the size of a block in use.
LEMMA GrantKeeps ==
  ASSUME NEW mapped, NEW size, NEW busy, NEW mapped2, NEW size2, NEW b, NEW req,
         NEW gaps, Layout(mapped, gaps, size), busy \subseteq DOMAIN size,
         Provided(mapped, size, busy, mapped2, size2, b, req)
  PROVE  \A c \in busy : size2[c] = size[c] /\ c # b
<1>1. PICK size1 : Source(mapped, size, mapped2, size1, b) /\ Taken(size1, size2, b)
  BY DEF Provided
<1>2. b \notin busy
  BY DEF Provided
<1>3. \A c \in busy : c \in DOMAIN size1 /\ size1[c] = size[c]
  BY <1>1, <1>2 DEF Source, Plus
<1>4. CASE size2 = size1
  BY <1>2, <1>3, <1>4
<1>5. CASE \E t \in Nat : t >= 8 /\ size1[b] >= t + 8 /\ size2 = Cut(size1, b, t)
  <2>1. PICK t \in Nat : t >= 8 /\ size1[b] >= t + 8 /\ size2 = Cut(size1, b, t)
    BY <1>5
  <2>2. ASSUME NEW c \in busy PROVE c # b + t
    <3>1. /\ c \in Nat /\ size[c] \in Nat /\ size[c] >= 8 /\ c + size[c] <= heap_start + mapped
          /\ mapped \in Nat /\ heap_start \in Nat
      BY BlockWords, Constants
    <3>2. CASE size1 = size /\ b \in DOMAIN size
      <4>1. b \in Nat /\ size[b] \in Nat /\ (c + size[c] <= b \/ b + size[b] <= c)
        BY <3>2, <1>2, BlockWords
      <4> QED BY <4>1, <3>1, <3>2, <2>1
    <3>3. CASE b = End(mapped)
      BY <3>1, <3>3, <2>1 DEF End
    <3> QED BY <3>2, <3>3, <1>1 DEF Source
  <2> QED BY <2>1, <2>2, <1>2, <1>3 DEF Cut
<1> QED BY <1>1, <1>4, <1>5 DEF Taken

\* A caller's stores into the words it asked for.
Fits(size, b, ptr, sz) == ptr = b + 4 /\ sz <= size[b] - 6

LEMMA FillStore ==
  ASSUME NEW flag, NEW hp, NEW size, NEW busy, NEW n, NEW L,
         Shape(flag, hp, size, busy, {}, n, L), NEW b \in busy, NEW ptr,
         NEW sz \in Nat, Fits(size, b, ptr, sz), NEW tag \in Int,
         NEW hq, hq = Filled(hp, ptr, sz, tag)
  PROVE  /\ Shape(flag, hq, size, busy, {}, n, L)
         /\ Untouched(hp.mem, hq.mem, size, busy \ {b})
         /\ Holds(hq.mem, size, busy, ptr, sz, tag)
         /\ Quiet(hp, hq)
<1>0. ptr = b + 4 /\ sz <= size[b] - 6
  BY DEF Fits
<1> DEFINE mem2 == Fill(hp.mem, ptr, ptr + sz, tag)
<1>1. IsHeap(hp) /\ Layout(hp.mapped, hp.gaps, size) /\ Offers(size, busy, {}, n, L)
  BY DEF Shape
<1>2. b \in DOMAIN size
  BY <1>1 DEF Offers
<1>3. /\ b \in Nat /\ size[b] \in Nat /\ b >= heap_start
      /\ b + size[b] <= heap_start + heap_max_size
  BY <1>1, <1>2, BlockWords
<1>4. hp.mem \in [Words -> Int] /\ DOMAIN hp.mem = Words
  BY <1>1 DEF IsHeap
<1>5. mem2 \in [Words -> Int]
  BY <1>4 DEF Fill
<1>6. \A a \in Words : mem2[a] = IF ptr <= a /\ a < ptr + sz THEN tag ELSE hp.mem[a]
  BY <1>4 DEF Fill
<1> HIDE DEF mem2
<1>7. /\ IsHeap(hq) /\ Quiet(hp, hq) /\ hq.head = hp.head /\ hq.mem = mem2
  <2>1. hq = [hp EXCEPT !.mem = mem2]
    BY DEF Filled, mem2
  <2>2. /\ hq = [mem |-> mem2, mapped |-> hp.mapped, head |-> hp.head,
                 allocated |-> hp.allocated, frames |-> hp.frames, gaps |-> hp.gaps]
        /\ hp.frames \in Nat /\ hp.allocated \in Int
    BY <2>1, <1>1 DEF IsHeap
  <2>3. /\ hq.mem = mem2 /\ hq.mapped = hp.mapped /\ hq.head = hp.head
        /\ hq.allocated = hp.allocated /\ hq.frames = hp.frames /\ hq.gaps = hp.gaps
    BY <2>2
  <2>4. IsHeap(hq)
    BY <2>2, <2>3, <1>5 DEF IsHeap
  <2> QED BY <2>3, <2>4 DEF Quiet
<1>8. \A a \in Words : a < b + 4 \/ a > b + size[b] - 3 => hq.mem[a] = hp.mem[a]
  <2> SUFFICES ASSUME NEW a \in Words, a < b + 4 \/ a > b + size[b] - 3
               PROVE  hq.mem[a] = hp.mem[a]
    OBVIOUS
  <2>1. a \in Int
    BY Constants DEF Words
  <2>2. ~ (ptr <= a /\ a < ptr + sz)
    BY <2>1, <1>0, <1>3
  <2> QED BY <2>2, <1>6, <1>7
<1>9. Shape(flag, hq, size, busy, {}, n, L) /\ Untouched(hp.mem, hq.mem, size, busy \ {b})
  BY <1>7, <1>8, Store
<1>10. Holds(hq.mem, size, busy, ptr, sz, tag)
  <2>1. ptr - 4 = b
    BY <1>0, <1>3
  <2>2. \A a \in ptr .. ptr + sz - 1 : a \in Words /\ ptr <= a /\ a < ptr + sz
    BY <1>0, <1>3, Constants DEF Words
  <2>3. \A a \in ptr .. ptr + sz - 1 : hq.mem[a] = tag
    BY <2>2, <1>6, <1>7
  <2> QED BY <2>1, <2>3, <1>0 DEF Holds
<1> QED BY <1>7, <1>9, <1>10

\* What a caller holds after kmalloc.
LEMMA HoldingIs ==
  ASSUME NEW p \in Int, NEW sz \in Nat, NEW tag \in Int, NEW k, k = Holding(p, sz, tag)
  PROVE  /\ IsCaller(k) /\ k.ptr = p /\ k.size = sz /\ k.tag = tag
         /\ k.new = NULL /\ k.newsize = 0
<1>1. k = [ptr |-> p, size |-> sz, tag |-> tag, new |-> NULL, newsize |-> 0]
  BY DEF Holding, Nothing
<1> QED BY <1>1, Constants DEF IsCaller

-----------------------------------------------------------------------------
(* The steps of the callers, for heaps and callers of any state.           *)

\* kmalloc refuses.
LEMMA Denied ==
  ASSUME NEW hp, NEW cl, NEW size, NEW busy, Good(FooterHoldsFlag, hp, cl, size, busy),
         NEW r, Refused(hp, size, busy, r)
  PROVE  /\ Good(FooterHoldsFlag, r.hp, cl, size, busy)
         /\ Move(hp.mapped, size, busy, r.hp.mapped, size, busy)
<1>1. /\ busy \subseteq DOMAIN size
      /\ \A b \in DOMAIN size : b \in Int /\ size[b] \in Int
  BY GoodBlocks
<1>2. Callers(hp.mem, size, busy, cl)
  BY DEF Good
<1>3. Untouched(hp.mem, r.hp.mem, size, busy)
  BY DEF Refused
<1>4. \A b \in busy : size[b] = size[b] /\ b \in Int /\ size[b] \in Int
  BY <1>1
<1>5. Callers(r.hp.mem, size, busy, cl)
  BY <1>2, <1>3, <1>4, NoCaller
<1> QED BY <1>5 DEF Good, Refused, Move

\* The callers other than c, when c gets the block at p, which was free.
LEMMA Newcomer ==
  ASSUME NEW mem, NEW size, NEW busy, NEW cl, Callers(mem, size, busy, cl),
         NEW c \in Clients, NEW d \in Clients, d # c
  PROVE  /\ cl[d].ptr # NULL => cl[d].ptr - 4 \in busy
         /\ cl[d].new # NULL => cl[d].new - 4 \in busy
         /\ Strangers(cl[d], cl[c]) /\ Strangers(cl[c], cl[d])
         /\ IsCaller(cl[d])
<1>1. Kept(mem, size, busy, cl[d]) /\ Strangers(cl[d], cl[c]) /\ Strangers(cl[c], cl[d])
  BY DEF Callers
<1> QED BY <1>1 DEF Kept, Holds, Moves

\* kmalloc or kcalloc grants, and the caller fills what it asked for.
LEMMA Given ==
  ASSUME NEW hp, NEW cl, NEW size, NEW busy, Good(FooterHoldsFlag, hp, cl, size, busy),
         NEW c \in Clients, cl[c].ptr = NULL, NEW req \in Nat, NEW tag \in Int,
         NEW r, NEW size2, NEW b, Granted(hp, size, busy, req, r, size2, b),
         NEW hq, hq = Filled(r.hp, r.ptr, req, tag),
         NEW k, k = Holding(r.ptr, req, tag)
  PROVE  /\ Good(FooterHoldsFlag, hq, [cl EXCEPT ![c] = k], size2, busy \cup {b})
         /\ Move(hp.mapped, size, busy, hq.mapped, size2, busy \cup {b})
<1> DEFINE busy2 == busy \cup {b}
<1>1. /\ busy \subseteq DOMAIN size /\ Layout(hp.mapped, hp.gaps, size)
      /\ \A a \in DOMAIN size : a \in Int /\ size[a] \in Int
  BY GoodBlocks
<1>2. Callers(hp.mem, size, busy, cl)
  BY DEF Good
<1>3. /\ Untouched(hp.mem, r.hp.mem, size, busy) /\ r.ptr = b + 4 /\ b \in Nat
      /\ Provided(hp.mapped, size, busy, r.hp.mapped, size2, b, req)
      /\ PageMultiple(r.hp.mapped)
  BY DEF Granted
<1>4. \A a \in busy : size2[a] = size[a] /\ a # b
  BY <1>1, <1>3, GrantKeeps
<1>5. PICK n, L : Shape(FooterHoldsFlag, r.hp, size2, busy2, {}, n, L)
  BY DEF Granted
<1>6. b \in DOMAIN size2 /\ size2[b] >= req + 6 /\ b \notin busy
  BY <1>3 DEF Provided
<1>7. size2[b] \in Nat
  <2>1. Layout(r.hp.mapped, r.hp.gaps, size2)
    BY <1>5 DEF Shape
  <2> QED BY <2>1, <1>6, BlockWords
<1>8. /\ Shape(FooterHoldsFlag, hq, size2, busy2, {}, n, L)
      /\ Untouched(r.hp.mem, hq.mem, size2, busy2 \ {b})
      /\ Holds(hq.mem, size2, busy2, r.ptr, req, tag)
      /\ Quiet(r.hp, hq)
  <2> DEFINE g == r.hp
             p == r.ptr
  <2>1. b \in busy2 /\ Fits(size2, b, p, req)
    BY <1>3, <1>6, <1>7 DEF Fits
  <2>2. hq = Filled(g, p, req, tag) /\ Shape(FooterHoldsFlag, g, size2, busy2, {}, n, L)
    BY <1>5
  <2> HIDE DEF g, p, busy2
  <2>3. /\ Shape(FooterHoldsFlag, hq, size2, busy2, {}, n, L)
        /\ Untouched(g.mem, hq.mem, size2, busy2 \ {b})
        /\ Holds(hq.mem, size2, busy2, p, req, tag)
        /\ Quiet(g, hq)
    BY <2>1, <2>2, FillStore
  <2> QED BY <2>3 DEF g, p
<1>9. Untouched(hp.mem, hq.mem, size, busy)
  <2> SUFFICES ASSUME NEW d \in busy, NEW a \in d + 4 .. d + size[d] - 3
               PROVE  hq.mem[a] = hp.mem[a]
    BY DEF Untouched
  <2>1. r.hp.mem[a] = hp.mem[a]
    BY <1>3 DEF Untouched
  <2>2. d \in busy2 \ {b} /\ a \in d + 4 .. d + size2[d] - 3
    BY <1>4
  <2>3. hq.mem[a] = r.hp.mem[a]
    BY <2>2, <1>8 DEF Untouched
  <2> QED BY <2>1, <2>3
<1>10. /\ IsCaller(k) /\ k.ptr = b + 4 /\ k.size = req /\ k.tag = tag
       /\ k.new = NULL /\ k.newsize = 0
  <2>1. r.ptr \in Int
    BY <1>3
  <2> QED BY <2>1, <1>3, HoldingIs
<1>11. Kept(hq.mem, size2, busy2, k)
  BY <1>3, <1>8, <1>10 DEF Kept
<1>12. \A d \in Clients : d # c =>
         /\ cl[d].ptr # NULL => cl[d].ptr - 4 \in busy
         /\ cl[d].new # NULL => cl[d].new - 4 \in busy
         /\ Strangers(k, cl[d]) /\ Strangers(cl[d], k)
  <2> SUFFICES ASSUME NEW d \in Clients, d # c
               PROVE  /\ cl[d].ptr # NULL => cl[d].ptr - 4 \in busy
                      /\ cl[d].new # NULL => cl[d].new - 4 \in busy
                      /\ Strangers(k, cl[d]) /\ Strangers(cl[d], k)
    OBVIOUS
  <2> DEFINE j == cl[d]
  <2>0. /\ j.ptr # NULL => j.ptr - 4 \in busy
        /\ j.new # NULL => j.new - 4 \in busy
        /\ IsCaller(j)
    BY <1>2, Newcomer
  <2>1. /\ j.ptr # NULL => j.ptr - 4 \in busy
        /\ j.new # NULL => j.new - 4 \in busy
        /\ j.ptr \in Int /\ j.new \in Int
    BY <2>0 DEF IsCaller
  <2> HIDE DEF j
  <2>2. k.ptr - 4 = b /\ k.ptr # NULL
    BY <1>3, <1>10, Constants
  <2>3. j.ptr # k.ptr /\ j.new # k.ptr
    BY <2>1, <2>2, <1>6
  <2>4. Strangers(k, j) /\ Strangers(j, k)
    BY <2>2, <2>3, <1>10 DEF Strangers
  <2> QED BY <2>1, <2>4 DEF j
<1>13. Callers(hq.mem, size2, busy2, [cl EXCEPT ![c] = k])
  <2>1. busy \subseteq busy2 /\ \A a \in busy : size2[a] = size[a] /\ a \in Int /\ size[a] \in Int
    BY <1>1, <1>4
  <2> HIDE DEF busy2
  <2> QED BY <2>1, <1>2, <1>9, <1>11, <1>12, OneCaller
<1>14. hq.mapped = r.hp.mapped
  BY <1>8 DEF Quiet
<1>15. Move(hp.mapped, size, busy, hq.mapped, size2, busy2)
  BY <1>3, <1>14 DEF Move
<1> QED BY <1>3, <1>8, <1>13, <1>14, <1>15 DEF Good

\* krealloc got a larger block and has not copied yet.
LEMMA Reserved ==
  ASSUME NEW hp, NEW cl, NEW size, NEW busy, Good(FooterHoldsFlag, hp, cl, size, busy),
         NEW c \in Clients, cl[c].ptr # NULL, cl[c].new = NULL, NEW req \in Nat,
         size[cl[c].ptr - 4] - 6 < req,
         NEW r, NEW size2, NEW b, Granted(hp, size, busy, req, r, size2, b),
         NEW k, k = [cl[c] EXCEPT !.new = r.ptr, !.newsize = req]
  PROVE  /\ Good(FooterHoldsFlag, r.hp, [cl EXCEPT ![c] = k], size2, busy \cup {b})
         /\ Move(hp.mapped, size, busy, r.hp.mapped, size2, busy \cup {b})
<1> DEFINE busy2 == busy \cup {b}
           old == cl[c]
<1>1. /\ busy \subseteq DOMAIN size /\ Layout(hp.mapped, hp.gaps, size)
      /\ \A a \in DOMAIN size : a \in Int /\ size[a] \in Int
  BY GoodBlocks
<1>2. Callers(hp.mem, size, busy, cl)
  BY DEF Good
<1>3. /\ Untouched(hp.mem, r.hp.mem, size, busy) /\ r.ptr = b + 4 /\ b \in Nat
      /\ Provided(hp.mapped, size, busy, r.hp.mapped, size2, b, req)
      /\ PageMultiple(r.hp.mapped)
      /\ \E n, L : Shape(FooterHoldsFlag, r.hp, size2, busy2, {}, n, L)
  BY DEF Granted
<1>4. \A a \in busy : size2[a] = size[a] /\ a # b
  BY <1>1, <1>3, GrantKeeps
<1>6. b \in DOMAIN size2 /\ size2[b] >= req + 6 /\ b \notin busy
  BY <1>3 DEF Provided
<1>7. size2[b] \in Nat
  <2>1. PICK n, L : Shape(FooterHoldsFlag, r.hp, size2, busy2, {}, n, L)
    BY <1>3
  <2>2. Layout(r.hp.mapped, r.hp.gaps, size2)
    BY <2>1 DEF Shape
  <2> QED BY <2>2, <1>6, BlockWords
<1>8. Kept(hp.mem, size, busy, old)
  BY <1>2 DEF Callers
<1>9. IsCaller(old) /\ old.ptr - 4 \in busy /\ old.ptr # NULL /\ old.new = NULL
  BY <1>8 DEF Kept, Holds
<1>10. /\ IsCaller(k) /\ k.ptr = old.ptr /\ k.size = old.size /\ k.tag = old.tag
       /\ k.new = b + 4 /\ k.newsize = req
  <2>1. k = [ptr |-> old.ptr, size |-> old.size, tag |-> old.tag, new |-> r.ptr,
             newsize |-> req]
    BY <1>9 DEF IsCaller
  <2>2. old.ptr \in Int /\ old.size \in Nat /\ old.tag \in Int
    BY <1>9 DEF IsCaller
  <2>3. /\ k.ptr = old.ptr /\ k.size = old.size /\ k.tag = old.tag /\ k.new = r.ptr
        /\ k.newsize = req
    BY <2>1
  <2>4. IsCaller(k)
    <3>1. k = [ptr |-> k.ptr, size |-> k.size, tag |-> k.tag, new |-> k.new,
               newsize |-> k.newsize]
      BY <2>1, <2>3
    <3>2. k.new \in Int
      BY <2>3, <1>3
    <3>3. k.ptr \in Int /\ k.size \in Nat /\ k.tag \in Int /\ k.newsize \in Nat
      BY <2>2, <2>3
    <3> QED BY <3>1, <3>2, <3>3 DEF IsCaller
  <2> QED BY <2>3, <2>4, <1>3
<1> HIDE DEF old
<1>11. Kept(r.hp.mem, size2, busy2, k)
  <2> DEFINE mem2 == r.hp.mem
  <2>1. busy \subseteq busy2 /\ \A a \in busy : size2[a] = size[a] /\ a \in Int /\ size[a] \in Int
    BY <1>1, <1>4
  <2>2. Untouched(hp.mem, mem2, size, busy)
    BY <1>3
  <2> HIDE DEF mem2, busy2
  <2>3. Kept(mem2, size2, busy2, old)
    BY <2>1, <2>2, <1>8, <1>9, StillKept
  <2>4. Holds(mem2, size2, busy2, k.ptr, k.size, k.tag)
    BY <2>3, <1>9, <1>10 DEF Kept
  <2>5. Moves(size2, busy2, k)
    <3>1. k.new - 4 = b /\ k.ptr - 4 \in busy /\ k.ptr - 4 # b
      BY <1>3, <1>4, <1>9, <1>10
    <3>2. size2[k.ptr - 4] - 6 < k.newsize
      BY <3>1, <1>4, <1>10 DEF old
    <3>3. k.newsize <= size2[k.new - 4] - 6
      BY <3>1, <1>6, <1>7, <1>10
    <3> QED BY <3>1, <3>2, <3>3, <1>9, <1>10 DEF Moves, busy2
  <2> QED BY <2>4, <2>5, <1>10 DEF Kept, mem2
<1>12. \A d \in Clients : d # c =>
         /\ cl[d].ptr # NULL => cl[d].ptr - 4 \in busy
         /\ cl[d].new # NULL => cl[d].new - 4 \in busy
         /\ Strangers(k, cl[d]) /\ Strangers(cl[d], k)
  <2> SUFFICES ASSUME NEW d \in Clients, d # c
               PROVE  /\ cl[d].ptr # NULL => cl[d].ptr - 4 \in busy
                      /\ cl[d].new # NULL => cl[d].new - 4 \in busy
                      /\ Strangers(k, cl[d]) /\ Strangers(cl[d], k)
    OBVIOUS
  <2> DEFINE j == cl[d]
  <2>0. /\ j.ptr # NULL => j.ptr - 4 \in busy
        /\ j.new # NULL => j.new - 4 \in busy
        /\ IsCaller(j) /\ Strangers(j, old) /\ Strangers(old, j)
    BY <1>2, Newcomer DEF old
  <2>1. /\ j.ptr # NULL => j.ptr - 4 \in busy
        /\ j.new # NULL => j.new - 4 \in busy
        /\ j.ptr \in Int /\ j.new \in Int
    BY <2>0 DEF IsCaller
  <2> HIDE DEF j
  <2>2. k.new - 4 = b /\ k.new # NULL
    BY <1>3, <1>10, Constants
  <2>3. j.ptr # k.new /\ j.new # k.new
    BY <2>1, <2>2, <1>6
  <2>4. Strangers(k, j) /\ Strangers(j, k)
    BY <2>0, <2>2, <2>3, <1>10 DEF Strangers
  <2> QED BY <2>1, <2>4 DEF j
<1>13. Callers(r.hp.mem, size2, busy2, [cl EXCEPT ![c] = k])
  <2> DEFINE mem2 == r.hp.mem
  <2>1. busy \subseteq busy2 /\ \A a \in busy : size2[a] = size[a] /\ a \in Int /\ size[a] \in Int
    BY <1>1, <1>4
  <2>2. Untouched(hp.mem, mem2, size, busy) /\ Kept(mem2, size2, busy2, k)
    BY <1>3, <1>11
  <2> HIDE DEF busy2, mem2
  <2>3. Callers(mem2, size2, busy2, [cl EXCEPT ![c] = k])
    BY <2>1, <2>2, <1>2, <1>12, OneCaller
  <2> QED BY <2>3 DEF mem2
<1>15. Move(hp.mapped, size, busy, r.hp.mapped, size2, busy2)
  BY <1>3 DEF Move
<1> QED BY <1>3, <1>13, <1>15 DEF Good

\* Stores into a block of caller c, which is k afterwards.
LEMMA OwnStores ==
  ASSUME NEW hp, NEW cl, NEW size, NEW busy, Good(FooterHoldsFlag, hp, cl, size, busy),
         NEW c \in Clients, NEW b \in busy, b + 4 \in {cl[c].ptr, cl[c].new},
         NEW hq, NEW n, NEW L, Shape(FooterHoldsFlag, hq, size, busy, {}, n, L),
         Untouched(hp.mem, hq.mem, size, busy \ {b}), Quiet(hp, hq),
         NEW k, Kept(hq.mem, size, busy, k), k.ptr = cl[c].ptr, k.new = cl[c].new
  PROVE  Good(FooterHoldsFlag, hq, [cl EXCEPT ![c] = k], size, busy)
<1> DEFINE keep == busy \ {b}
<1>1. /\ busy \subseteq DOMAIN size
      /\ \A a \in DOMAIN size : a \in Int /\ size[a] \in Int /\ a > 0
  BY GoodBlocks
<1>2. Callers(hp.mem, size, busy, cl)
  BY DEF Good
<1>3. b \in Int /\ b + 4 # NULL
  BY <1>1, Constants
<1>4. \A d \in Clients : d # c =>
         /\ cl[d].ptr # NULL => cl[d].ptr - 4 \in keep
         /\ cl[d].new # NULL => cl[d].new - 4 \in keep
         /\ Strangers(k, cl[d]) /\ Strangers(cl[d], k)
  <2> SUFFICES ASSUME NEW d \in Clients, d # c
               PROVE  /\ cl[d].ptr # NULL => cl[d].ptr - 4 \in keep
                      /\ cl[d].new # NULL => cl[d].new - 4 \in keep
                      /\ Strangers(k, cl[d]) /\ Strangers(cl[d], k)
    OBVIOUS
  <2> DEFINE j == cl[d]
             old == cl[c]
  <2>1. /\ j.ptr # NULL => j.ptr - 4 \in busy
        /\ j.new # NULL => j.new - 4 \in busy
        /\ IsCaller(j) /\ Strangers(j, old) /\ Strangers(old, j)
    BY <1>2, Newcomer
  <2>2. k.ptr = old.ptr /\ k.new = old.new /\ b + 4 \in {old.ptr, old.new}
    OBVIOUS
  <2> HIDE DEF j, old
  <2>3. j.ptr \in Int /\ j.new \in Int
    BY <2>1 DEF IsCaller
  <2>4. j.ptr # b + 4 /\ j.new # b + 4
    BY <2>1, <2>2, <1>3 DEF Strangers
  <2>5. j.ptr - 4 # b /\ j.new - 4 # b
    BY <2>3, <2>4, <1>3
  <2>6. Strangers(k, j) /\ Strangers(j, k)
    BY <2>1, <2>2 DEF Strangers
  <2> QED BY <2>1, <2>5, <2>6 DEF j
<1>5. Callers(hq.mem, size, busy, [cl EXCEPT ![c] = k])
  <2>1. keep \subseteq busy /\ \A a \in keep : size[a] = size[a] /\ a \in Int /\ size[a] \in Int
    BY <1>1
  <2> HIDE DEF keep
  <2>2. Untouched(hp.mem, hq.mem, size, keep)
    BY DEF keep
  <2> QED BY <2>1, <2>2, <1>2, <1>4, OneCaller
<1> QED BY <1>5 DEF Good, Quiet

\* What the header of a block says.
LEMMA GoodHeader ==
  ASSUME NEW flag, NEW hp, NEW cl, NEW size, NEW busy, Good(flag, hp, cl, size, busy),
         NEW b \in busy
  PROVE  blk_size(hp.mem, b) = size[b] /\ blk_magic(hp.mem, b) = MAGIC_VALUE
<1>1. PICK n, L : Shape(flag, hp, size, busy, {}, n, L)
  BY DEF Good
<1>2. /\ Layout(hp.mapped, hp.gaps, size) /\ Offers(size, busy, {}, n, L)
      /\ Tags(flag, hp.mem, size, busy)
  BY <1>1 DEF Shape
<1>3. b \in DOMAIN size /\ size[b] \in 8 .. heap_max_size
  BY <1>2 DEF Offers, Layout
<1> QED BY <1>2, <1>3, TaggedSays

\* krealloc within the block.
LEMMA Refilled ==
  ASSUME NEW hp, NEW cl, NEW size, NEW busy, Good(FooterHoldsFlag, hp, cl, size, busy),
         NEW c \in Clients, cl[c].ptr # NULL, cl[c].new = NULL, NEW req \in Nat,
         req <= size[cl[c].ptr - 4] - 6,
         NEW hq, hq = Filled(hp, cl[c].ptr, req, cl[c].tag),
         NEW k, k = [cl[c] EXCEPT !.size = req]
  PROVE  /\ Good(FooterHoldsFlag, hq, [cl EXCEPT ![c] = k], size, busy)
         /\ Quiet(hp, hq)
<1> DEFINE old == cl[c]
           b == old.ptr - 4
           p == old.ptr
           tag == old.tag
<1>1. /\ busy \subseteq DOMAIN size
      /\ \A a \in DOMAIN size : a \in Int /\ size[a] \in Int /\ a > 0
  BY GoodBlocks
<1>2. Kept(hp.mem, size, busy, old)
  BY DEF Good, Callers
<1>3. IsCaller(old) /\ b \in busy
  BY <1>2 DEF Kept, Holds
<1>4. p \in Int /\ tag \in Int /\ old.size \in Nat /\ old.new = NULL /\ p # NULL
  BY <1>3 DEF IsCaller
<1>5. PICK n, L : Shape(FooterHoldsFlag, hp, size, busy, {}, n, L)
  BY DEF Good
<1>6. /\ Shape(FooterHoldsFlag, hq, size, busy, {}, n, L)
      /\ Untouched(hp.mem, hq.mem, size, busy \ {b})
      /\ Holds(hq.mem, size, busy, p, req, tag)
      /\ Quiet(hp, hq)
  <2>1. Fits(size, b, p, req)
    BY <1>4 DEF Fits
  <2>2. hq = Filled(hp, p, req, tag)
    OBVIOUS
  <2> HIDE DEF b, p, tag, old
  <2> QED BY <2>1, <2>2, <1>3, <1>4, <1>5, FillStore
<1>7. /\ IsCaller(k) /\ k.ptr = p /\ k.size = req /\ k.tag = tag /\ k.new = NULL
  <2>1. k = [ptr |-> p, size |-> req, tag |-> tag, new |-> old.new,
             newsize |-> old.newsize] /\ old.newsize \in Nat /\ old.new \in Int
    BY <1>3 DEF IsCaller
  <2>2. /\ k.ptr = p /\ k.size = req /\ k.tag = tag /\ k.new = old.new
        /\ k.newsize = old.newsize
    BY <2>1
  <2> HIDE DEF p, tag, old
  <2>3. IsCaller(k)
    BY <2>1, <2>2, <1>4 DEF IsCaller
  <2> QED BY <2>2, <2>3, <1>4
<1>8. Kept(hq.mem, size, busy, k)
  <2> HIDE DEF p, tag, old
  <2> QED BY <1>6, <1>7 DEF Kept
<1>9. b + 4 \in {cl[c].ptr, cl[c].new} /\ k.ptr = cl[c].ptr /\ k.new = cl[c].new
  BY <1>4, <1>7
<1> HIDE DEF b, p, tag, old
<1>10. Good(FooterHoldsFlag, hq, [cl EXCEPT ![c] = k], size, busy)
  BY <1>3, <1>6, <1>8, <1>9, OwnStores
<1> QED BY <1>6, <1>10

\* krealloc copies what the old block held into the new one, and the caller
\* fills the rest.
CopyOf(hp, old, user) ==
  [a \in DOMAIN hp.mem |->
     IF old.new <= a /\ a < old.new + user
       THEN hp.mem[old.ptr + (a - old.new)] ELSE hp.mem[a]]

MovedHeap(hp, old, user) ==
  [hp EXCEPT !.mem = Fill(CopyOf(hp, old, user), old.new + old.size,
                          old.new + old.newsize, old.tag)]

LEMMA Copied ==
  ASSUME NEW hp, NEW cl, NEW size, NEW busy, Good(FooterHoldsFlag, hp, cl, size, busy),
         NEW c \in Clients, NEW old, old = cl[c], old.new # NULL,
         NEW user, user = size[old.ptr - 4] - 6, NEW hq, hq = MovedHeap(hp, old, user)
  PROVE  /\ Good(FooterHoldsFlag, hq, cl, size, busy) /\ Quiet(hp, hq)
         /\ Holds(hq.mem, size, busy, old.new, old.newsize, old.tag)
         /\ old.ptr # NULL /\ old.new # old.ptr
<1> DEFINE p == old.ptr
           x == old.new
           tag == old.tag
           b == x - 4
           o == p - 4
           mem1 == CopyOf(hp, old, user)
           mem2 == Fill(mem1, x + old.size, x + old.newsize, tag)
<1>1. /\ busy \subseteq DOMAIN size /\ IsHeap(hp) /\ Layout(hp.mapped, hp.gaps, size)
      /\ \A a \in DOMAIN size : a \in Int /\ size[a] \in Int /\ a > 0
  BY GoodBlocks
<1>2. Kept(hp.mem, size, busy, old)
  BY DEF Good, Callers
<1>3. IsCaller(old) /\ Moves(size, busy, old) /\ Holds(hp.mem, size, busy, p, old.size, tag)
  BY <1>2 DEF Kept, Moves
<1>4. p \in Int /\ tag \in Int /\ old.size \in Nat /\ x \in Int /\ old.newsize \in Nat
  BY <1>3 DEF IsCaller
<1>5. /\ p # NULL /\ x # p /\ b \in busy /\ o \in busy
      /\ old.newsize <= size[b] - 6 /\ user < old.newsize
      /\ old.size <= user /\ \A a \in p .. p + old.size - 1 : hp.mem[a] = tag
  BY <1>3 DEF Moves, Holds
<1>6. /\ b \in Nat /\ size[b] \in Nat /\ b >= heap_start /\ size[b] >= 8
      /\ b + size[b] <= heap_start + heap_max_size
      /\ o \in Nat /\ size[o] \in Nat /\ o >= heap_start /\ size[o] >= 8
      /\ o + size[o] <= heap_start + heap_max_size
  BY <1>1, <1>5, BlockWords
<1>7. hp.mem \in [Words -> Int] /\ DOMAIN hp.mem = Words
  BY <1>1 DEF IsHeap
<1>8. user \in Int /\ user >= 2 /\ user = size[o] - 6
  BY <1>6
<1>9. x = b + 4 /\ p = o + 4
  BY <1>4
<1> HIDE DEF p, x, tag, b, o
<1>10. \A a \in Words : x <= a /\ a < x + user => p + (a - x) \in Words
  BY <1>4, <1>6, <1>8, <1>9, Constants DEF Words
<1>11. /\ mem1 \in [Words -> Int] /\ DOMAIN mem1 = Words
       /\ \A a \in Words : mem1[a] = IF x <= a /\ a < x + user
                                       THEN hp.mem[p + (a - x)] ELSE hp.mem[a]
  <2>1. mem1 = [a \in Words |-> IF x <= a /\ a < x + user
                                  THEN hp.mem[p + (a - x)] ELSE hp.mem[a]]
    BY <1>7 DEF p, x, CopyOf
  <2> HIDE DEF mem1
  <2> QED BY <2>1, <1>7, <1>10
<1> HIDE DEF mem1
<1>12. mem2 \in [Words -> Int]
  BY <1>4, <1>11 DEF Fill
<1>13. \A a \in Words : mem2[a] = IF x + old.size <= a /\ a < x + old.newsize
                                    THEN tag ELSE mem1[a]
  BY <1>11 DEF Fill
<1>14. hq = [hp EXCEPT !.mem = mem2]
  BY DEF x, tag, mem1, MovedHeap
<1> HIDE DEF mem2
<1>15. /\ IsHeap(hq) /\ Quiet(hp, hq) /\ hq.head = hp.head /\ hq.mem = mem2
  <2>2. /\ hq = [mem |-> mem2, mapped |-> hp.mapped, head |-> hp.head,
                 allocated |-> hp.allocated, frames |-> hp.frames, gaps |-> hp.gaps]
        /\ hp.frames \in Nat /\ hp.allocated \in Int
    BY <1>14, <1>1 DEF IsHeap
  <2>3. /\ hq.mem = mem2 /\ hq.mapped = hp.mapped /\ hq.head = hp.head
        /\ hq.allocated = hp.allocated /\ hq.frames = hp.frames /\ hq.gaps = hp.gaps
    BY <2>2
  <2>4. IsHeap(hq)
    BY <2>2, <2>3, <1>12 DEF IsHeap
  <2> QED BY <2>3, <2>4 DEF Quiet
<1>16. \A a \in Words : a < b + 4 \/ a > b + size[b] - 3 => hq.mem[a] = hp.mem[a]
  <2> SUFFICES ASSUME NEW a \in Words, a < b + 4 \/ a > b + size[b] - 3
               PROVE  hq.mem[a] = hp.mem[a]
    OBVIOUS
  <2>1. a \in Int
    BY Constants DEF Words
  <2>2. /\ ~ (x <= a /\ a < x + user)
        /\ ~ (x + old.size <= a /\ a < x + old.newsize)
    BY <2>1, <1>4, <1>5, <1>6, <1>8, <1>9
  <2> QED BY <2>2, <1>11, <1>13, <1>15
<1>17. PICK n, L : Shape(FooterHoldsFlag, hp, size, busy, {}, n, L)
  BY DEF Good
<1>18. Shape(FooterHoldsFlag, hq, size, busy, {}, n, L)
       /\ Untouched(hp.mem, hq.mem, size, busy \ {b})
  <2>1. b \in busy
    BY <1>5
  <2>2. IsHeap(hq) /\ Quiet(hp, hq) /\ hq.head = hp.head
    BY <1>15
  <2> QED BY <2>1, <2>2, <1>16, <1>17, Store
<1>19. Holds(hq.mem, size, busy, x, old.newsize, tag)
  <2>1. \A a \in x .. x + old.newsize - 1 : hq.mem[a] = tag
    <3> SUFFICES ASSUME NEW a \in x .. x + old.newsize - 1 PROVE hq.mem[a] = tag
      OBVIOUS
    <3>1. a \in Words /\ a \in Int /\ x <= a /\ a < x + old.newsize
      BY <1>4, <1>5, <1>6, <1>9, Constants DEF Words
    <3>2. CASE x + old.size <= a
      BY <3>1, <3>2, <1>13, <1>15
    <3>3. CASE ~ (x + old.size <= a)
      <4>1. a < x + user /\ p + (a - x) \in p .. p + old.size - 1
        BY <3>1, <3>3, <1>4, <1>5, <1>8
      <4>2. mem1[a] = hp.mem[p + (a - x)]
        BY <4>1, <3>1, <1>11
      <4>3. hp.mem[p + (a - x)] = tag
        BY <4>1, <1>5
      <4> QED BY <4>2, <4>3, <3>1, <3>3, <1>13, <1>15
    <3> QED BY <3>2, <3>3
  <2>2. x - 4 = b
    BY <1>6, <1>9
  <2> QED BY <2>1, <2>2, <1>5 DEF Holds
<1>20. Kept(hq.mem, size, busy, old)
  <2> DEFINE keep == busy \ {b}
  <2>1. o \in keep
    BY <1>4, <1>5, <1>9
  <2>2. \A a \in p .. p + old.size - 1 : a \in o + 4 .. o + size[o] - 3
    BY <1>4, <1>5, <1>6, <1>8, <1>9
  <2>3. \A a \in p .. p + old.size - 1 : hq.mem[a] = hp.mem[a]
    BY <2>1, <2>2, <1>18 DEF Untouched
  <2>4. Holds(hq.mem, size, busy, p, old.size, tag)
    BY <2>3, <1>3 DEF Holds
  <2> QED BY <2>4, <1>2, <1>3 DEF Kept, p, tag
<1>21. Good(FooterHoldsFlag, hq, [cl EXCEPT ![c] = old], size, busy)
  <2>1. b + 4 \in {cl[c].ptr, cl[c].new} /\ old.ptr = cl[c].ptr /\ old.new = cl[c].new
    BY <1>9 DEF x
  <2> QED BY <2>1, <1>5, <1>15, <1>18, <1>20, OwnStores
<1>22. [cl EXCEPT ![c] = old] = cl
  <2>1. cl \in [Clients -> { cl[d] : d \in Clients }]
    BY DEF Good, Callers
  <2> QED BY <2>1
<1> QED BY <1>5, <1>15, <1>19, <1>21, <1>22 DEF p, x, tag

\* kfree of the block of caller c, which is k afterwards: it holds nothing, or
\* what it was moving to.
MovedOn(mem, size, busy, old, k) ==
  /\ IsCaller(k) /\ k.new = NULL
  /\ k.ptr # NULL => /\ k.ptr = old.new /\ k.ptr # old.ptr
                     /\ Holds(mem, size, busy, k.ptr, k.size, k.tag)

LEMMA GivenBack ==
  ASSUME FooterHoldsFlag \in BOOLEAN,
         NEW hp, NEW cl, NEW size, NEW busy, Good(FooterHoldsFlag, hp, cl, size, busy),
         ~ FooterHoldsFlag \/ hp.gaps = {},
         NEW c \in Clients, NEW old, old = cl[c], old.ptr # NULL,
         NEW hq, hq = kfree(hp, old.ptr),
         NEW k, MovedOn(hp.mem, size, busy, old, k)
  PROVE  \E size2, busy2 :
           /\ Good(FooterHoldsFlag, hq, [cl EXCEPT ![c] = k], size2, busy2)
           /\ Move(hp.mapped, size, busy, hq.mapped, size2, busy2)
<1> DEFINE b == old.ptr - 4
           keep == busy \ {b}
           cl2 == [cl EXCEPT ![c] = k]
<1>1. /\ busy \subseteq DOMAIN size /\ hp.mapped \in Nat
      /\ \A a \in DOMAIN size : a \in Int /\ size[a] \in Int /\ a > 0
  BY GoodBlocks
<1>2. Callers(hp.mem, size, busy, cl) /\ PageMultiple(hp.mapped)
  BY DEF Good
<1>3. IsCaller(old) /\ b \in busy
  BY <1>2 DEF Callers, Kept, Holds
<1>4. old.ptr \in Int /\ old.ptr = b + 4
  BY <1>3 DEF IsCaller
<1>5. PICK n, L : Shape(FooterHoldsFlag, hp, size, busy, {}, n, L)
  BY DEF Good
<1> HIDE DEF b
<1>6. /\ ~ FooterHoldsFlag => hq = hp
      /\ FooterHoldsFlag /\ hp.gaps = {} => Freed(hp, size, busy, b, hq)
  <2>1. hq = kfree(hp, b + 4)
    BY <1>4
  <2> QED BY <2>1, <1>3, <1>5, Kfrees
\* The blocks that the other callers, and k, hold stay as they are.
<1>7. \A d \in Clients : d # c =>
         /\ cl[d].ptr # NULL => cl[d].ptr - 4 \in keep
         /\ cl[d].new # NULL => cl[d].new - 4 \in keep
         /\ Strangers(k, cl[d]) /\ Strangers(cl[d], k)
  <2> SUFFICES ASSUME NEW d \in Clients, d # c
               PROVE  /\ cl[d].ptr # NULL => cl[d].ptr - 4 \in keep
                      /\ cl[d].new # NULL => cl[d].new - 4 \in keep
                      /\ Strangers(k, cl[d]) /\ Strangers(cl[d], k)
    OBVIOUS
  <2> DEFINE j == cl[d]
  <2>1. /\ j.ptr # NULL => j.ptr - 4 \in busy
        /\ j.new # NULL => j.new - 4 \in busy
        /\ IsCaller(j) /\ Strangers(j, old) /\ Strangers(old, j)
    BY <1>2, Newcomer
  <2> HIDE DEF j
  <2>2. j.ptr \in Int /\ j.new \in Int
    BY <2>1 DEF IsCaller
  <2>3. j.ptr # old.ptr /\ j.new # old.ptr
    BY <2>1 DEF Strangers
  <2>4. j.ptr - 4 # b /\ j.new - 4 # b
    BY <2>2, <2>3, <1>4 DEF b
  <2>5. Strangers(k, j) /\ Strangers(j, k)
    BY <2>1 DEF Strangers, MovedOn
  <2> QED BY <2>1, <2>4, <2>5 DEF j
<1>8. ASSUME NEW size2, NEW busy2, Untouched(hp.mem, hq.mem, size, keep),
             keep \subseteq busy2, \A a \in keep : size2[a] = size[a]
      PROVE  Callers(hq.mem, size2, busy2, cl2)
  <2>1. keep \subseteq busy2 /\ \A a \in keep : size2[a] = size[a] /\ a \in Int /\ size[a] \in Int
    BY <1>1, <1>8
  <2>2. Kept(hq.mem, size2, busy2, k)
    <3>1. IsCaller(k) /\ k.new = NULL /\ k.ptr \in Int /\ k.size \in Nat
      BY DEF MovedOn, IsCaller
    <3>2. CASE k.ptr # NULL
      <4> DEFINE x == k.ptr - 4
      <4>1. /\ x \in busy /\ k.size <= size[x] - 6 /\ k.ptr # old.ptr
            /\ \A a \in k.ptr .. k.ptr + k.size - 1 : hp.mem[a] = k.tag
        BY <3>2 DEF MovedOn, Holds
      <4>2. x # b /\ k.ptr = x + 4
        BY <4>1, <3>1, <1>4 DEF b
      <4>3. x \in keep
        BY <4>1, <4>2
      <4>4. x \in Int /\ size[x] \in Int /\ size2[x] = size[x] /\ x \in busy2
        BY <4>3, <2>1
      <4> HIDE DEF x
      <4>5. \A a \in k.ptr .. k.ptr + k.size - 1 : a \in x + 4 .. x + size[x] - 3
        BY <4>1, <4>2, <4>4, <3>1
      <4>6. \A a \in k.ptr .. k.ptr + k.size - 1 : hq.mem[a] = hp.mem[a]
        BY <4>3, <4>5, <1>8 DEF Untouched
      <4>7. Holds(hq.mem, size2, busy2, k.ptr, k.size, k.tag)
        BY <4>1, <4>4, <4>6 DEF Holds, x
      <4> QED BY <4>7, <3>1 DEF Kept
    <3>3. CASE k.ptr = NULL
      BY <3>1, <3>3 DEF Kept
    <3> QED BY <3>2, <3>3
  <2> HIDE DEF keep
  <2>3. Untouched(hp.mem, hq.mem, size, keep)
    BY <1>8
  <2>4. Callers(hq.mem, size2, busy2, [cl EXCEPT ![c] = k])
    BY <2>1, <2>2, <2>3, <1>2, <1>7, OneCaller
  <2> QED BY <2>4
<1>9. CASE ~ FooterHoldsFlag
  <2>1. hq = hp
    BY <1>6, <1>9
  <2>2. Untouched(hp.mem, hq.mem, size, keep) /\ keep \subseteq busy
    BY <2>1 DEF Untouched
  <2>3. Callers(hq.mem, size, busy, cl2)
    BY <2>2, <1>8
  <2>4. Good(FooterHoldsFlag, hq, cl2, size, busy)
    BY <2>1, <2>3, <1>2, <1>5 DEF Good
  <2>5. Move(hp.mapped, size, busy, hq.mapped, size, busy)
    BY <2>1, <1>1 DEF Move
  <2> QED BY <2>4, <2>5
<1>10. CASE FooterHoldsFlag /\ hp.gaps = {}
  <2>1. Freed(hp, size, busy, b, hq)
    BY <1>6, <1>10
  <2>2. PICK lo, size1, size2, n2, L2 :
          /\ JoinedPrev(size, keep, b, size1, lo)
          /\ JoinedNext(size1, keep, lo, size2)
          /\ Shape(FooterHoldsFlag, hq, size2, keep, {}, n2, L2)
    BY <2>1 DEF Freed
  <2>3. Quiet(hp, hq) /\ Untouched(hp.mem, hq.mem, size, keep)
    BY <2>1 DEF Freed
  <2>4. b \notin keep /\ keep \subseteq DOMAIN size
    BY <1>1
  <2> HIDE DEF keep
  <2>5. keep \subseteq DOMAIN size1 /\ \A a \in keep : size1[a] = size[a]
    BY <2>2, <2>4, JoinedKeeps
  <2>6. lo \notin keep
    BY <2>2, <2>4 DEF JoinedPrev
  <2>7. \A a \in keep : size2[a] = size1[a]
    BY <2>2, <2>5, <2>6 DEF JoinedNext, Joined
  <2>8. Callers(hq.mem, size2, keep, cl2)
    <3>1. keep \subseteq keep /\ \A a \in keep : size2[a] = size[a]
      BY <2>5, <2>7
    <3> QED BY <3>1, <2>3, <1>8
  <2>9. hq.mapped = hp.mapped
    BY <2>3 DEF Quiet
  <2>10. Good(FooterHoldsFlag, hq, cl2, size2, keep)
    BY <2>2, <2>8, <2>9, <1>2 DEF Good
  <2>11. Move(hp.mapped, size, busy, hq.mapped, size2, keep)
    BY <2>2, <2>9, <1>3 DEF Move, keep
  <2> QED BY <2>10, <2>11
<1> QED BY <1>9, <1>10

-----------------------------------------------------------------------------
(* The steps of the specification.                                         *)

\* After a step the heap and the callers are good again, and the blocks moved
\* as Move allows.
Goes(size, busy) ==
  \E size2, busy2 :
    /\ Good(FooterHoldsFlag, h', client', size2, busy2)
    /\ Move(h.mapped, size, busy, h'.mapped, size2, busy2)

LEMMA KmallocGoes ==
  ASSUME FooterHoldsFlag \in BOOLEAN,
         NEW size, NEW busy, Good(FooterHoldsFlag, h, client, size, busy),
         NEW c \in Clients, NEW req \in Nat, Kmalloc(c, req)
  PROVE  Goes(size, busy)
<1> DEFINE r == kmalloc(h, req)
<1>1. client[c].ptr = NULL /\ c \in Int
  BY HeapAssumption DEF Kmalloc
<1>2. PICK n, L : Shape(FooterHoldsFlag, h, size, busy, {}, n, L)
  BY DEF Good
<1>3. PageMultiple(h.mapped)
  BY DEF Good
<1>4. \/ Refused(h, size, busy, r)
      \/ \E size2, b : Granted(h, size, busy, req, r, size2, b)
  BY <1>2, <1>3, Kmallocs
<1>5. CASE Refused(h, size, busy, r)
  <2>1. r.ptr = NULL
    BY <1>5 DEF Refused
  <2>2. h' = r.hp /\ client' = client
    BY <2>1 DEF Kmalloc
  <2> HIDE DEF r
  <2>3. /\ Good(FooterHoldsFlag, r.hp, client, size, busy)
        /\ Move(h.mapped, size, busy, r.hp.mapped, size, busy)
    BY <1>5, Denied
  <2> QED BY <2>2, <2>3 DEF Goes
<1>6. CASE \E size2, b : Granted(h, size, busy, req, r, size2, b)
  <2>1. PICK size2, b : Granted(h, size, busy, req, r, size2, b)
    BY <1>6
  <2>2. r.ptr # NULL
    <3>1. r.ptr = b + 4 /\ b \in Nat
      BY <2>1 DEF Granted
    <3> QED BY <3>1, Constants
  <2> DEFINE k == Holding(r.ptr, req, c)
             hq == Filled(r.hp, r.ptr, req, c)
  <2>3. h' = hq /\ client' = [client EXCEPT ![c] = k]
    BY <2>2 DEF Kmalloc
  <2>4. hq = Filled(r.hp, r.ptr, req, c) /\ k = Holding(r.ptr, req, c)
    OBVIOUS
  <2> HIDE DEF r, k, hq
  <2>5. /\ Good(FooterHoldsFlag, hq, [client EXCEPT ![c] = k], size2, busy \cup {b})
        /\ Move(h.mapped, size, busy, hq.mapped, size2, busy \cup {b})
    BY <2>1, <2>4, <1>1, Given
  <2> QED BY <2>3, <2>5 DEF Goes
<1> QED BY <1>4, <1>5, <1>6

LEMMA KcallocGoes ==
  ASSUME FooterHoldsFlag \in BOOLEAN,
         NEW size, NEW busy, Good(FooterHoldsFlag, h, client, size, busy),
         NEW c \in Clients, NEW nmemb \in Nat, NEW sz \in Nat, Kcalloc(c, nmemb, sz)
  PROVE  Goes(size, busy)
<1> DEFINE total == nmemb * sz
           r == kmalloc(h, total)
           bad == nmemb = 0 \/ sz = 0 \/ sz > HEAP_MAX_ALLOC \div nmemb
<1>1. client[c].ptr = NULL
  BY DEF Kcalloc
<1>2. PICK n, L : Shape(FooterHoldsFlag, h, size, busy, {}, n, L)
  BY DEF Good
<1>3. PageMultiple(h.mapped) /\ h.mapped \in Nat
  BY GoodBlocks DEF Good
<1>4. total \in Nat /\ 0 \in Int
  OBVIOUS
<1>5. /\ bad => h' = h /\ client' = client
      /\ ~ bad /\ r.ptr = NULL => h' = r.hp /\ client' = client
      /\ ~ bad /\ r.ptr # NULL =>
           /\ h' = Filled(r.hp, r.ptr, total, 0)
           /\ client' = [client EXCEPT ![c] = Holding(r.ptr, total, 0)]
  <2> DEFINE q == HEAP_MAX_ALLOC \div nmemb
  <2> HIDE DEF q, r, total
  <2> QED BY DEF Kcalloc, q, r, total
<1> HIDE DEF total, bad
<1>6. CASE bad
  <2>1. Move(h.mapped, size, busy, h'.mapped, size, busy)
    BY <1>3, <1>5, <1>6 DEF Move
  <2>2. Good(FooterHoldsFlag, h', client', size, busy)
    BY <1>5, <1>6
  <2> QED BY <2>1, <2>2 DEF Goes
<1>7. CASE ~ bad
  <2>1. \/ Refused(h, size, busy, r)
        \/ \E size2, b : Granted(h, size, busy, total, r, size2, b)
    BY <1>2, <1>3, <1>4, Kmallocs
  <2>2. CASE Refused(h, size, busy, r)
    <3>1. r.ptr = NULL
      BY <2>2 DEF Refused
    <3>2. h' = r.hp /\ client' = client
      BY <3>1, <1>5, <1>7
    <3> HIDE DEF r
    <3>3. /\ Good(FooterHoldsFlag, r.hp, client, size, busy)
          /\ Move(h.mapped, size, busy, r.hp.mapped, size, busy)
      BY <2>2, Denied
    <3> QED BY <3>2, <3>3 DEF Goes
  <2>3. CASE \E size2, b : Granted(h, size, busy, total, r, size2, b)
    <3>1. PICK size2, b : Granted(h, size, busy, total, r, size2, b)
      BY <2>3
    <3>2. r.ptr # NULL
      <4>1. r.ptr = b + 4 /\ b \in Nat
        BY <3>1 DEF Granted
      <4> QED BY <4>1, Constants
    <3> DEFINE zero == 0
               k == Holding(r.ptr, total, zero)
               hq == Filled(r.hp, r.ptr, total, zero)
    <3>3. h' = hq /\ client' = [client EXCEPT ![c] = k]
      BY <3>2, <1>5, <1>7
    <3>4. hq = Filled(r.hp, r.ptr, total, zero) /\ k = Holding(r.ptr, total, zero) /\ zero \in Int
      OBVIOUS
    <3> HIDE DEF r, k, hq, zero
    <3>5. /\ Good(FooterHoldsFlag, hq, [client EXCEPT ![c] = k], size2, busy \cup {b})
          /\ Move(h.mapped, size, busy, hq.mapped, size2, busy \cup {b})
      BY <3>1, <3>4, <1>1, <1>4, Given
    <3> QED BY <3>3, <3>5 DEF Goes
  <2> QED BY <2>1, <2>2, <2>3
<1> QED BY <1>6, <1>7

LEMMA NothingIs ==
  IsCaller(Nothing) /\ Nothing.ptr = NULL /\ Nothing.new = NULL
BY Constants DEF Nothing, IsCaller

LEMMA KfreeGoes ==
  ASSUME FooterHoldsFlag \in BOOLEAN, ~ FooterHoldsFlag \/ h.gaps = {},
         NEW size, NEW busy, Good(FooterHoldsFlag, h, client, size, busy),
         NEW c \in Clients, Kfree(c)
  PROVE  Goes(size, busy)
<1> DEFINE old == client[c]
           hq == kfree(h, old.ptr)
           k == Nothing
<1>1. old.ptr # NULL /\ h' = hq /\ client' = [client EXCEPT ![c] = k]
  BY DEF Kfree
<1>2. MovedOn(h.mem, size, busy, old, k)
  BY NothingIs DEF MovedOn
<1>3. old = client[c] /\ hq = kfree(h, old.ptr)
  OBVIOUS
<1> HIDE DEF old, hq, k
<1>4. \E size2, busy2 :
        /\ Good(FooterHoldsFlag, hq, [client EXCEPT ![c] = k], size2, busy2)
        /\ Move(h.mapped, size, busy, hq.mapped, size2, busy2)
  BY <1>1, <1>2, <1>3, GivenBack
<1> QED BY <1>1, <1>4 DEF Goes

LEMMA KreallocAllocGoes ==
  ASSUME FooterHoldsFlag \in BOOLEAN,
         NEW size, NEW busy, Good(FooterHoldsFlag, h, client, size, busy),
         NEW c \in Clients, NEW req \in Nat, KreallocAlloc(c, req)
  PROVE  Goes(size, busy)
<1> DEFINE old == client[c]
           b0 == old.ptr - 4
           r == kmalloc(h, req)
<1>1. old.ptr # NULL /\ old.new = NULL
  BY DEF KreallocAlloc
<1>2. PICK n, L : Shape(FooterHoldsFlag, h, size, busy, {}, n, L)
  BY DEF Good
<1>3. PageMultiple(h.mapped) /\ h.mapped \in Nat /\ busy \subseteq DOMAIN size
      /\ \A a \in DOMAIN size : size[a] \in Int
  BY GoodBlocks DEF Good
<1>4. b0 \in busy
  <2>1. Kept(h.mem, size, busy, old)
    BY DEF Good, Callers
  <2> QED BY <2>1, <1>1 DEF Kept, Holds
<1>5. blk_size(h.mem, b0) = size[b0]
  <2> HIDE DEF b0
  <2> QED BY <1>4, GoodHeader
<1>6. /\ req <= size[b0] - 6 =>
           /\ h' = Filled(h, old.ptr, req, old.tag)
           /\ client' = [client EXCEPT ![c].size = req]
      /\ ~ (req <= size[b0] - 6) =>
           /\ h' = r.hp
           /\ r.ptr = NULL => client' = client
           /\ r.ptr # NULL => client' = [client EXCEPT ![c].new = r.ptr, ![c].newsize = req]
  BY <1>5 DEF KreallocAlloc, BLOCK_HEADER_SIZE, BLOCK_META_SIZE, BLOCK_FOOTER_SIZE
<1>7. client = [d \in Clients |-> client[d]]
  BY DEF Good, Callers
<1>8. CASE req <= size[b0] - 6
  <2> DEFINE k == [client[c] EXCEPT !.size = req]
             hq == Filled(h, client[c].ptr, req, client[c].tag)
  <2>1. h' = hq /\ client' = [client EXCEPT ![c] = k]
    BY <1>6, <1>7, <1>8
  <2>2. /\ hq = Filled(h, client[c].ptr, req, client[c].tag) /\ k = [client[c] EXCEPT !.size = req]
        /\ client[c].ptr # NULL /\ client[c].new = NULL /\ req <= size[client[c].ptr - 4] - 6
    BY <1>1, <1>8
  <2> HIDE DEF k, hq, old, b0
  <2>3. Good(FooterHoldsFlag, hq, [client EXCEPT ![c] = k], size, busy) /\ Quiet(h, hq)
    BY <2>2, Refilled
  <2>4. Move(h.mapped, size, busy, hq.mapped, size, busy)
    BY <2>3, <1>3 DEF Quiet, Move
  <2> QED BY <2>1, <2>3, <2>4 DEF Goes
<1>9. CASE ~ (req <= size[b0] - 6)
  <2>1. \/ Refused(h, size, busy, r)
        \/ \E size2, b : Granted(h, size, busy, req, r, size2, b)
    BY <1>2, <1>3, Kmallocs
  <2>2. CASE Refused(h, size, busy, r)
    <3>1. r.ptr = NULL
      BY <2>2 DEF Refused
    <3>2. h' = r.hp /\ client' = client
      BY <3>1, <1>6, <1>9
    <3> HIDE DEF r
    <3>3. /\ Good(FooterHoldsFlag, r.hp, client, size, busy)
          /\ Move(h.mapped, size, busy, r.hp.mapped, size, busy)
      BY <2>2, Denied
    <3> QED BY <3>2, <3>3 DEF Goes
  <2>3. CASE \E size2, b : Granted(h, size, busy, req, r, size2, b)
    <3>1. PICK size2, b : Granted(h, size, busy, req, r, size2, b)
      BY <2>3
    <3>2. r.ptr # NULL
      <4>1. r.ptr = b + 4 /\ b \in Nat
        BY <3>1 DEF Granted
      <4> QED BY <4>1, Constants
    <3>3. size[b0] - 6 < req
      <4>1. size[b0] \in Int
        BY <1>3, <1>4
      <4> QED BY <4>1, <1>9
    <3> DEFINE k == [client[c] EXCEPT !.new = r.ptr, !.newsize = req]
    <3>4. h' = r.hp /\ client' = [client EXCEPT ![c] = k]
      BY <3>2, <1>6, <1>7, <1>9
    <3>5. /\ k = [client[c] EXCEPT !.new = r.ptr, !.newsize = req]
          /\ client[c].ptr # NULL /\ client[c].new = NULL
          /\ size[client[c].ptr - 4] - 6 < req
      BY <3>3, <1>1
    <3> HIDE DEF r, k, old, b0
    <3>6. /\ Good(FooterHoldsFlag, r.hp, [client EXCEPT ![c] = k], size2, busy \cup {b})
          /\ Move(h.mapped, size, busy, r.hp.mapped, size2, busy \cup {b})
      BY <3>1, <3>5, Reserved
    <3> QED BY <3>4, <3>6 DEF Goes
  <2> QED BY <2>1, <2>2, <2>3
<1> QED BY <1>8, <1>9

LEMMA KreallocFinishGoes ==
  ASSUME FooterHoldsFlag \in BOOLEAN, ~ FooterHoldsFlag \/ h.gaps = {},
         NEW size, NEW busy, Good(FooterHoldsFlag, h, client, size, busy),
         NEW c \in Clients, KreallocFinish(c)
  PROVE  Goes(size, busy)
<1> DEFINE old == client[c]
           user == size[old.ptr - 4] - 6
           moved == MovedHeap(h, old, user)
           hq == kfree(moved, old.ptr)
           k == Holding(old.new, old.newsize, old.tag)
<1>1. old.new # NULL
  BY DEF KreallocFinish
<1>2. Kept(h.mem, size, busy, old)
  BY DEF Good, Callers
<1>3. old.ptr - 4 \in busy /\ IsCaller(old)
  BY <1>1, <1>2 DEF Kept, Holds, Moves
<1>4. blk_size(h.mem, old.ptr - 4) = size[old.ptr - 4]
  <2> DEFINE b0 == old.ptr - 4
  <2>1. b0 \in busy
    BY <1>3
  <2> HIDE DEF b0
  <2>2. blk_size(h.mem, b0) = size[b0]
    BY <2>1, GoodHeader
  <2> QED BY <2>2 DEF b0
<1>5. h' = hq /\ client' = [client EXCEPT ![c] = k]
  <2>1. /\ BLOCK_HEADER_SIZE = 4 /\ BLOCK_META_SIZE = 6
    BY DEF BLOCK_HEADER_SIZE, BLOCK_META_SIZE, BLOCK_FOOTER_SIZE
  <2> QED BY <2>1, <1>4 DEF KreallocFinish, MovedHeap, CopyOf
<1>6. /\ old = client[c] /\ user = size[old.ptr - 4] - 6
      /\ moved = MovedHeap(h, old, user)
  OBVIOUS
<1>6a. hq = kfree(moved, old.ptr)
  OBVIOUS
<1> HIDE DEF old, user, moved, hq
<1>7. /\ Good(FooterHoldsFlag, moved, client, size, busy) /\ Quiet(h, moved)
      /\ Holds(moved.mem, size, busy, old.new, old.newsize, old.tag)
      /\ old.ptr # NULL /\ old.new # old.ptr
  BY <1>1, <1>6, Copied
<1>8. MovedOn(moved.mem, size, busy, old, k)
  <2>1. old.new \in Int /\ old.newsize \in Nat /\ old.tag \in Int
    BY <1>3 DEF IsCaller
  <2>2. /\ IsCaller(k) /\ k.ptr = old.new /\ k.size = old.newsize /\ k.tag = old.tag
        /\ k.new = NULL
    BY <2>1, HoldingIs
  <2> HIDE DEF k
  <2> QED BY <2>2, <1>7 DEF MovedOn
<1> HIDE DEF k
<1>9. ~ FooterHoldsFlag \/ moved.gaps = {}
  BY <1>7 DEF Quiet
<1>10. \E size2, busy2 :
        /\ Good(FooterHoldsFlag, hq, [client EXCEPT ![c] = k], size2, busy2)
        /\ Move(moved.mapped, size, busy, hq.mapped, size2, busy2)
  <2>1. old = client[c] /\ old.ptr # NULL
    BY <1>6, <1>7
  <2>2. Good(FooterHoldsFlag, moved, client, size, busy)
    BY <1>7
  <2> QED BY <2>1, <2>2, <1>6a, <1>8, <1>9, GivenBack
<1>11. moved.mapped = h.mapped
  BY <1>7 DEF Quiet
<1> QED BY <1>5, <1>10, <1>11 DEF Goes

-----------------------------------------------------------------------------
(* Gaps only ever come: true of any heap, whatever its memory holds.       *)

HasGaps(hp) == "gaps" \in DOMAIN hp

SameGaps(hp, hq) == HasGaps(hp) => HasGaps(hq) /\ hq.gaps = hp.gaps

LEMMA ExceptGaps ==
  ASSUME NEW hp, NEW x
  PROVE  /\ SameGaps(hp, [hp EXCEPT !.mem = x])
         /\ SameGaps(hp, [hp EXCEPT !.head = x])
         /\ SameGaps(hp, [hp EXCEPT !.allocated = x])
BY DEF SameGaps, HasGaps

LEMMA ExceptGaps2 ==
  ASSUME NEW hp, NEW x, NEW y
  PROVE  /\ SameGaps(hp, [hp EXCEPT !.mem = x, !.head = y])
         /\ SameGaps(hp, [hp EXCEPT !.allocated = x, !.mem = y])
         /\ SameGaps(hp, [hp EXCEPT !.mapped = x, !.frames = y])
BY DEF SameGaps, HasGaps

LEMMA GapsThrough ==
  ASSUME NEW hp, NEW hq, NEW hr, SameGaps(hp, hq), SameGaps(hq, hr)
  PROVE  SameGaps(hp, hr)
BY DEF SameGaps

LEMMA ListGaps ==
  ASSUME NEW hp, NEW b
  PROVE  SameGaps(hp, list_remove(hp, b)) /\ SameGaps(hp, list_insert_head(hp, b))
BY ExceptGaps2 DEF list_remove, list_insert_head

LEMMA MergeGaps ==
  ASSUME NEW hp, NEW b
  PROVE  SameGaps(hp, merge_next(hp, b)) /\ SameGaps(hp, merge_prev(hp, b).hp)
<1>0. SameGaps(hp, hp)
  BY DEF SameGaps
<1>1. SameGaps(hp, merge_next(hp, b))
  <2> DEFINE next == b + blk_size(hp.mem, b)
             hp2 == list_remove(hp, next)
             x == set_block(hp2.mem, b, blk_size(hp.mem, b) + blk_size(hp2.mem, next), FALSE)
  <2>1. merge_next(hp, b) = hp \/ merge_next(hp, b) = [hp2 EXCEPT !.mem = x]
    BY DEF merge_next
  <2>2. SameGaps(hp, hp2)
    BY ListGaps
  <2> HIDE DEF hp2, x
  <2>3. SameGaps(hp2, [hp2 EXCEPT !.mem = x])
    BY ExceptGaps
  <2>4. SameGaps(hp, [hp2 EXCEPT !.mem = x])
    BY <2>2, <2>3, GapsThrough
  <2> QED BY <1>0, <2>1, <2>4
<1>2. SameGaps(hp, merge_prev(hp, b).hp)
  <2> DEFINE prev == blk_prev_phys(hp.mem, b)
             hp2 == list_remove(hp, prev)
             x == set_block(hp2.mem, prev,
                            blk_size(hp.mem, prev) + blk_size(hp.mem, b), FALSE)
  <2>1. \/ merge_prev(hp, b) = [hp |-> hp, b |-> b]
        \/ merge_prev(hp, b) = [hp |-> [hp2 EXCEPT !.mem = x], b |-> prev]
    BY DEF merge_prev
  <2>2. SameGaps(hp, hp2)
    BY ListGaps
  <2> HIDE DEF hp2, x, prev
  <2>3. SameGaps(hp2, [hp2 EXCEPT !.mem = x])
    BY ExceptGaps
  <2>4. SameGaps(hp, [hp2 EXCEPT !.mem = x])
    BY <2>2, <2>3, GapsThrough
  <2>5. merge_prev(hp, b).hp = hp \/ merge_prev(hp, b).hp = [hp2 EXCEPT !.mem = x]
    BY <2>1
  <2> QED BY <1>0, <2>4, <2>5
<1> QED BY <1>1, <1>2

LEMMA KfreeGaps ==
  ASSUME NEW hp, NEW ptr
  PROVE  SameGaps(hp, kfree(hp, ptr))
<1> DEFINE b == ptr - BLOCK_HEADER_SIZE
           sz == blk_size(hp.mem, b)
           hp1 == [hp EXCEPT !.allocated = @ - sz, !.mem = set_block(@, b, sz, FALSE)]
           m == merge_prev(hp1, b)
           hp2 == m.hp
           lo == m.b
           hp3 == merge_next(hp2, lo)
           hp4 == list_insert_head(hp3, lo)
<1>1. kfree(hp, ptr) = hp \/ kfree(hp, ptr) = hp4
  BY DEF kfree
<1>2. SameGaps(hp, hp1)
  <2> DEFINE x == hp.allocated - sz
             y == set_block(hp.mem, b, sz, FALSE)
  <2>1. hp1 = [hp EXCEPT !.allocated = x, !.mem = y]
    OBVIOUS
  <2> HIDE DEF x, y, hp1
  <2> QED BY <2>1, ExceptGaps2
<1> HIDE DEF hp1
<1>3. SameGaps(hp1, hp2)
  BY MergeGaps
<1> HIDE DEF hp2, lo
<1>4. SameGaps(hp2, hp3)
  BY MergeGaps
<1> HIDE DEF hp3
<1>5. SameGaps(hp3, hp4)
  BY ListGaps
<1> HIDE DEF hp4
<1>6. SameGaps(hp, hp2)
  BY <1>2, <1>3, GapsThrough
<1>7. SameGaps(hp, hp3)
  BY <1>4, <1>6, GapsThrough
<1>8. SameGaps(hp, hp4)
  BY <1>5, <1>7, GapsThrough
<1>9. SameGaps(hp, hp)
  BY DEF SameGaps
<1> QED BY <1>1, <1>8, <1>9

LEMMA TakeGaps ==
  ASSUME NEW hp, NEW b, NEW t
  PROVE  SameGaps(hp, take_block(hp, b, t))
<1> DEFINE bsize == blk_size(hp.mem, b)
           rest == b + t
           prev == blk_prev_free(hp.mem, b)
           next == blk_next_free(hp.mem, b)
           mem1 == set_block(hp.mem, rest, bsize - t, FALSE)
           mem2 == set_prev(set_next(mem1, prev, rest), next, rest)
           mem3 == set_next(set_prev(mem2, rest, prev), rest, next)
           x == set_block(mem3, b, t, TRUE)
           y == IF prev = NULL THEN rest ELSE hp.head
           hp2 == list_remove(hp, b)
           z == set_block(hp2.mem, b, bsize, TRUE)
<1>1. \/ take_block(hp, b, t) = [hp EXCEPT !.mem = x, !.head = y]
      \/ take_block(hp, b, t) = [hp2 EXCEPT !.mem = z]
  BY DEF take_block
<1> HIDE DEF x, y
<1>2. SameGaps(hp, [hp EXCEPT !.mem = x, !.head = y])
  BY ExceptGaps2
<1>3. SameGaps(hp, hp2)
  BY ListGaps
<1> HIDE DEF hp2, z
<1>4. SameGaps(hp2, [hp2 EXCEPT !.mem = z])
  BY ExceptGaps
<1>5. SameGaps(hp, [hp2 EXCEPT !.mem = z])
  BY <1>3, <1>4, GapsThrough
<1> QED BY <1>1, <1>2, <1>5

MoreGaps(hp, hq) == HasGaps(hp) => HasGaps(hq) /\ hp.gaps \subseteq hq.gaps

LEMMA GrantGaps ==
  ASSUME NEW hp, NEW hq, SameGaps(hp, hq), NEW b, NEW t, NEW r,
         r = [hp  |-> [take_block(hq, b, t) EXCEPT !.allocated = @ + t],
              ptr |-> b + BLOCK_HEADER_SIZE]
  PROVE  MoreGaps(hp, r.hp)
<1> DEFINE g == take_block(hq, b, t)
           x == g.allocated + t
<1>1. r.hp = [g EXCEPT !.allocated = x]
  OBVIOUS
<1>2. SameGaps(hq, g)
  BY TakeGaps
<1> HIDE DEF g, x
<1>3. SameGaps(g, r.hp)
  BY <1>1, ExceptGaps
<1> QED BY <1>2, <1>3 DEF SameGaps, MoreGaps

LEMMA KmallocGaps ==
  ASSUME NEW hp, NEW req, NEW r, r = kmalloc(hp, req)
  PROVE  MoreGaps(hp, r.hp)
<1> DEFINE t == BlockTotal(req)
           found == first_fit(hp, t)
           e == heap_start + hp.mapped
           grown == expand_to(hp, e + t)
           x == set_block(grown.hp.mem, e, grown.hp.mapped - hp.mapped, FALSE)
           fresh == [grown.hp EXCEPT !.mem = x]
           hq == list_insert_head(fresh, e)
           lost == <<hp.mapped, grown.hp.mapped>>
           gone == [grown.hp EXCEPT !.gaps = IF lost[1] = lost[2] THEN @ ELSE @ \cup {lost}]
<1>1. \/ r = [hp |-> hp, ptr |-> NULL]
      \/ r = [hp  |-> [take_block(hp, found, t) EXCEPT !.allocated = @ + t],
              ptr |-> found + BLOCK_HEADER_SIZE]
      \/ r = [hp  |-> [take_block(hq, e, t) EXCEPT !.allocated = @ + t],
              ptr |-> e + BLOCK_HEADER_SIZE]
      \/ r = [hp |-> gone, ptr |-> NULL]
  <2> HIDE DEF hq, gone, t, found, e
  <2> QED BY DEF kmalloc, hq, gone, t, found, e
<1>2. SameGaps(hp, hp)
  BY DEF SameGaps
<1>3. SameGaps(hp, grown.hp)
  <2> DEFINE needed == e + t
             cur_end == heap_start + hp.mapped
             wanted == (needed - cur_end + VMM_PAGE_SIZE - 1) \div VMM_PAGE_SIZE
             room == (heap_max_size - hp.mapped) \div VMM_PAGE_SIZE
             pages == Least({wanted, room, hp.frames})
             y == hp.mapped + pages * VMM_PAGE_SIZE
             z == hp.frames - pages
  <2> HIDE DEF needed
  <2>1. expand_to(hp, needed) = [ok |-> pages = wanted,
                                 hp |-> [hp EXCEPT !.mapped = y, !.frames = z]]
    BY DEF expand_to
  <2> HIDE DEF y, z, wanted, pages
  <2>2. grown.hp = [hp EXCEPT !.mapped = y, !.frames = z]
    <3>1. grown = expand_to(hp, needed)
      BY DEF needed
    <3> HIDE DEF grown
    <3> QED BY <2>1, <3>1
  <2>3. SameGaps(hp, [hp EXCEPT !.mapped = y, !.frames = z])
    BY ExceptGaps2
  <2> QED BY <2>2, <2>3
<1> HIDE DEF grown, x, t, found, e
<1>4. SameGaps(hp, hq)
  <2>1. SameGaps(grown.hp, fresh)
    BY ExceptGaps
  <2> HIDE DEF fresh
  <2>2. SameGaps(fresh, hq)
    BY ListGaps
  <2>3. SameGaps(hp, fresh)
    BY <2>1, <1>3, GapsThrough
  <2> QED BY <2>2, <2>3, GapsThrough
<1>5. MoreGaps(hp, gone)
  <2> DEFINE g == grown.hp
             w == IF lost[1] = lost[2] THEN g.gaps ELSE g.gaps \cup {lost}
  <2>1. gone = [g EXCEPT !.gaps = w] /\ g.gaps \subseteq w
    OBVIOUS
  <2> HIDE DEF g, w, gone
  <2>2. HasGaps(g) => HasGaps(gone) /\ gone.gaps = w
    BY <2>1 DEF HasGaps
  <2>3. SameGaps(hp, g)
    BY <1>3 DEF g
  <2> QED BY <2>1, <2>2, <2>3 DEF SameGaps, MoreGaps
<1> HIDE DEF hq, gone
<1>6. CASE r = [hp |-> hp, ptr |-> NULL]
  <2>1. r.hp = hp
    BY <1>6
  <2> QED BY <2>1 DEF MoreGaps
<1>7. CASE r = [hp  |-> [take_block(hp, found, t) EXCEPT !.allocated = @ + t],
                ptr |-> found + BLOCK_HEADER_SIZE]
  BY <1>2, <1>7, GrantGaps
<1>8. CASE r = [hp  |-> [take_block(hq, e, t) EXCEPT !.allocated = @ + t],
                ptr |-> e + BLOCK_HEADER_SIZE]
  BY <1>4, <1>8, GrantGaps
<1>9. CASE r = [hp |-> gone, ptr |-> NULL]
  <2>1. r.hp = gone
    BY <1>9
  <2> QED BY <2>1, <1>5
<1> QED BY <1>1, <1>6, <1>7, <1>8, <1>9

\* No step of a caller takes a gap away.
LEMMA CallersGaps ==
  ASSUME NEW c \in Clients,
         \/ \E req \in Requests : Kmalloc(c, req)
         \/ \E a \in CallocRequests : Kcalloc(c, a[1], a[2])
         \/ Kfree(c)
         \/ \E req \in Requests : KreallocAlloc(c, req)
         \/ KreallocFinish(c)
  PROVE  MoreGaps(h, h')
<1>0. MoreGaps(h, h)
  BY DEF MoreGaps
<1>1. ASSUME NEW req, NEW p, NEW n, NEW tag, NEW hq, MoreGaps(h, hq)
      PROVE  MoreGaps(h, Filled(hq, p, n, tag))
  <2> DEFINE x == Fill(hq.mem, p, p + n, tag)
  <2>1. Filled(hq, p, n, tag) = [hq EXCEPT !.mem = x]
    BY DEF Filled
  <2> HIDE DEF x
  <2>2. SameGaps(hq, [hq EXCEPT !.mem = x])
    BY ExceptGaps
  <2> QED BY <2>1, <2>2, <1>1 DEF SameGaps, MoreGaps
<1>2. \A req : MoreGaps(h, kmalloc(h, req).hp)
  BY KmallocGaps
<1>3. ASSUME NEW req, Kmalloc(c, req) PROVE MoreGaps(h, h')
  <2> DEFINE r == kmalloc(h, req)
  <2>1. h' = r.hp \/ h' = Filled(r.hp, r.ptr, req, c)
    BY <1>3 DEF Kmalloc
  <2>2. MoreGaps(h, r.hp)
    BY <1>2
  <2> HIDE DEF r
  <2> QED BY <2>1, <2>2, <1>1
<1>4. ASSUME NEW nmemb, NEW sz, Kcalloc(c, nmemb, sz) PROVE MoreGaps(h, h')
  <2> DEFINE t == nmemb * sz
             r == kmalloc(h, t)
  <2>1. h' = h \/ h' = r.hp \/ h' = Filled(r.hp, r.ptr, t, 0)
    <3> DEFINE q == HEAP_MAX_ALLOC \div nmemb
    <3> HIDE DEF q, r, t
    <3> QED BY <1>4 DEF Kcalloc, q, r, t
  <2>2. MoreGaps(h, r.hp)
    BY <1>2
  <2> HIDE DEF r, t
  <2> QED BY <2>1, <2>2, <1>0, <1>1
<1>5. CASE Kfree(c)
  <2>1. h' = kfree(h, client[c].ptr)
    BY <1>5 DEF Kfree
  <2>2. SameGaps(h, h')
    BY <2>1, KfreeGaps
  <2> QED BY <2>2 DEF SameGaps, MoreGaps
<1>6. ASSUME NEW req, KreallocAlloc(c, req) PROVE MoreGaps(h, h')
  <2> DEFINE r == kmalloc(h, req)
  <2>1. h' = r.hp \/ h' = Filled(h, client[c].ptr, req, client[c].tag)
    BY <1>6 DEF KreallocAlloc
  <2>2. MoreGaps(h, r.hp)
    BY <1>2
  <2> HIDE DEF r
  <2> QED BY <2>1, <2>2, <1>0, <1>1
<1>7. CASE KreallocFinish(c)
  <2> DEFINE old == client[c]
             user == blk_size(h.mem, old.ptr - BLOCK_HEADER_SIZE) - BLOCK_META_SIZE
             x == Fill(CopyOf(h, old, user), old.new + old.size,
                       old.new + old.newsize, old.tag)
             moved == [h EXCEPT !.mem = x]
  <2>1. h' = kfree(moved, old.ptr)
    BY <1>7 DEF KreallocFinish, CopyOf
  <2> HIDE DEF x
  <2>2. SameGaps(h, moved)
    BY ExceptGaps
  <2> HIDE DEF moved
  <2>3. SameGaps(moved, h')
    BY <2>1, KfreeGaps
  <2>4. SameGaps(h, h')
    BY <2>2, <2>3, GapsThrough
  <2> QED BY <2>4 DEF SameGaps, MoreGaps
<1> QED BY <1>3, <1>4, <1>5, <1>6, <1>7

-----------------------------------------------------------------------------
(* The invariant.                                                          *)

\* Either the footers are as they are in the code, or every page that was ever
\* mapped became a block.  With the allocated bit in the footers kfree merges,
\* and behind a block that a gap follows merge_next (heap.c:106) takes the
\* zeroes of the gap for a free block without neighbours: unlinking it sets
\* free_list_head to NULL and the other free blocks are lost.
Intact == ~ FooterHoldsFlag \/ h.gaps = {}

\* seen is what the walk finds, and blocks and callers that fit the memory exist
\* as long as the heap is intact.
Inv ==
  /\ FooterHoldsFlag \in BOOLEAN /\ HasGaps(h) /\ seen = Seen(h)
  /\ Intact => \E size, busy : Good(FooterHoldsFlag, h, client, size, busy)

\* The heap and the callers after heap_init.
LEMMA InitGood ==
  ASSUME Init
  PROVE  /\ FooterHoldsFlag \in BOOLEAN /\ seen = Seen(h) /\ HasGaps(h)
         /\ \E size : Good(FooterHoldsFlag, h, client, size, {}) /\ Fresh(h.mapped, size)
<1>1. FooterHoldsFlag \in BOOLEAN /\ seen = Seen(h)
  BY HeapAssumption DEF Init
<1>2. PICK f \in Frames : h = heap_init(f)
  BY DEF Init
<1>3. f \in Nat
  BY HeapAssumption
<1>4. /\ PageMultiple(h.mapped) /\ h.gaps = {}
      /\ \E size, n, L : /\ Shape(FooterHoldsFlag, h, size, {}, {}, n, L)
                         /\ Fresh(h.mapped, size)
  BY <1>1, <1>2, <1>3, HeapInit
<1>5. PICK size, n, L : /\ Shape(FooterHoldsFlag, h, size, {}, {}, n, L)
                        /\ Fresh(h.mapped, size)
  BY <1>4
<1>6. Callers(h.mem, size, {}, client)
  <2>1. client = [c \in Clients |-> Nothing]
    BY DEF Init
  <2>2. \A c \in Clients : client[c] = Nothing
    BY <2>1
  <2>3. client \in [Clients -> { client[c] : c \in Clients }]
    BY <2>1, <2>2
  <2>4. Kept(h.mem, size, {}, Nothing)
    BY NothingIs DEF Kept
  <2>5. Strangers(Nothing, Nothing)
    BY NothingIs DEF Strangers
  <2> QED BY <2>2, <2>3, <2>4, <2>5 DEF Callers
<1>7. HasGaps(h)
  <2>1. IsHeap(h)
    BY <1>5 DEF Shape
  <2> QED BY <2>1 DEF IsHeap, HasGaps
<1>8. Good(FooterHoldsFlag, h, client, size, {})
  BY <1>4, <1>5, <1>6 DEF Good
<1> QED BY <1>1, <1>5, <1>7, <1>8

LEMMA InitInv == Init => Inv
BY InitGood DEF Inv

\* A step starts from a heap that is intact if it ends with one.
LEMMA IntactBefore ==
  ASSUME Inv, [Next]_vars, Intact'
  PROVE  Intact
<1>1. CASE Next
  <2>1. PICK c \in Clients :
          \/ \E req \in Requests : Kmalloc(c, req)
          \/ \E a \in CallocRequests : Kcalloc(c, a[1], a[2])
          \/ Kfree(c)
          \/ \E req \in Requests : KreallocAlloc(c, req)
          \/ KreallocFinish(c)
    BY <1>1 DEF Next
  <2>2. MoreGaps(h, h')
    BY <2>1, CallersGaps
  <2>3. h.gaps \subseteq h'.gaps
    BY <2>2 DEF MoreGaps, Inv
  <2>4. FooterHoldsFlag' = FooterHoldsFlag
    BY <1>1 DEF Next
  <2> QED BY <2>3, <2>4 DEF Intact
<1>2. CASE UNCHANGED vars
  BY <1>2 DEF vars, Intact
<1> QED BY <1>1, <1>2

\* Every step takes good blocks to good blocks.
LEMMA NextGoes ==
  ASSUME Inv, Next, Intact,
         NEW size, NEW busy, Good(FooterHoldsFlag, h, client, size, busy)
  PROVE  Goes(size, busy)
<1>1. PICK c \in Clients :
        \/ \E req \in Requests : Kmalloc(c, req)
        \/ \E a \in CallocRequests : Kcalloc(c, a[1], a[2])
        \/ Kfree(c)
        \/ \E req \in Requests : KreallocAlloc(c, req)
        \/ KreallocFinish(c)
  BY DEF Next
<1>2. FooterHoldsFlag \in BOOLEAN /\ (~ FooterHoldsFlag \/ h.gaps = {})
  BY DEF Inv, Intact
<1>3. ASSUME NEW req \in Requests, Kmalloc(c, req) PROVE Goes(size, busy)
  <2>1. req \in Nat
    BY HeapAssumption
  <2> QED BY <2>1, <1>2, <1>3, KmallocGoes
<1>4. ASSUME NEW a \in CallocRequests, Kcalloc(c, a[1], a[2]) PROVE Goes(size, busy)
  <2>1. a[1] \in Nat /\ a[2] \in Nat
    BY HeapAssumption
  <2> DEFINE x == a[1]
             y == a[2]
  <2>2. x \in Nat /\ y \in Nat /\ Kcalloc(c, x, y)
    BY <2>1, <1>4
  <2> HIDE DEF x, y
  <2> QED BY <2>2, <1>2, KcallocGoes
<1>5. CASE Kfree(c)
  BY <1>2, <1>5, KfreeGoes
<1>6. ASSUME NEW req \in Requests, KreallocAlloc(c, req) PROVE Goes(size, busy)
  <2>1. req \in Nat
    BY HeapAssumption
  <2> QED BY <2>1, <1>2, <1>6, KreallocAllocGoes
<1>7. CASE KreallocFinish(c)
  BY <1>2, <1>7, KreallocFinishGoes
<1> QED BY <1>1, <1>3, <1>4, <1>5, <1>6, <1>7

LEMMA StepInv == Inv /\ [Next]_vars => Inv'
<1> SUFFICES ASSUME Inv, [Next]_vars PROVE Inv'
  OBVIOUS
<1>1. CASE Next
  <2>1. seen' = Seen(h)' /\ FooterHoldsFlag' = FooterHoldsFlag /\ FooterHoldsFlag \in BOOLEAN
    BY <1>1 DEF Next, Inv
  <2>2. HasGaps(h)'
    <3>1. PICK c \in Clients :
            \/ \E req \in Requests : Kmalloc(c, req)
            \/ \E a \in CallocRequests : Kcalloc(c, a[1], a[2])
            \/ Kfree(c)
            \/ \E req \in Requests : KreallocAlloc(c, req)
            \/ KreallocFinish(c)
      BY <1>1 DEF Next
    <3>2. MoreGaps(h, h')
      BY <3>1, CallersGaps
    <3> QED BY <3>2 DEF MoreGaps, HasGaps, Inv
  <2>3. ASSUME Intact'
        PROVE  (\E size, busy : Good(FooterHoldsFlag, h, client, size, busy))'
    <3>1. Intact
      BY <2>3, IntactBefore
    <3>2. PICK size, busy : Good(FooterHoldsFlag, h, client, size, busy)
      BY <3>1 DEF Inv
    <3>3. Goes(size, busy)
      BY <1>1, <3>1, <3>2, NextGoes
    <3>4. PICK size2, busy2 : Good(FooterHoldsFlag, h', client', size2, busy2)
      BY <3>3 DEF Goes
    <3>5. Good(FooterHoldsFlag', h', client', size2, busy2)
      BY <3>4, <2>1
    <3> QED BY <3>5
  <2> QED BY <2>1, <2>2, <2>3 DEF Inv
<1>2. CASE UNCHANGED vars
  BY <1>2 DEF vars, Inv, Intact, Good, HasGaps, Seen
<1> QED BY <1>1, <1>2

\* What the walk of Seen finds in a good heap.
LEMMA GoodSeen ==
  ASSUME Inv, NEW size, NEW busy, Good(FooterHoldsFlag, h, client, size, busy)
  PROVE  \E n, L :
           /\ Shape(FooterHoldsFlag, h, size, busy, {}, n, L)
           /\ seen.busy = busy /\ seen.free = DOMAIN size \ busy
           /\ seen.end = End(h.mapped) /\ seen.list = L
           /\ Listed = DOMAIN size \ busy
<1>1. PICK n, L : Shape(FooterHoldsFlag, h, size, busy, {}, n, L)
  BY DEF Good
<1>2. FooterHoldsFlag \in BOOLEAN /\ seen = Seen(h)
  BY DEF Inv
<1>3. Seen(h) = [busy |-> busy, free |-> DOMAIN size \ busy,
                 end |-> End(h.mapped), list |-> L]
  BY <1>1, <1>2, SeenIs
<1>4. /\ seen.busy = busy /\ seen.free = DOMAIN size \ busy
      /\ seen.end = End(h.mapped) /\ seen.list = L
  BY <1>2, <1>3
<1>5. Offers(size, busy, {}, n, L)
  BY <1>1 DEF Shape
<1>6. DOMAIN L = 1 .. n
  BY <1>5 DEF Offers
<1>7. Listed = DOMAIN size \ busy
  <2>1. Listed = { L[i] : i \in 1 .. n }
    BY <1>4, <1>6 DEF Listed
  <2> QED BY <2>1, <1>5 DEF Offers
<1> QED BY <1>1, <1>4, <1>7

LEMMA GoodTyped ==
  ASSUME Inv, NEW size, NEW busy, Good(FooterHoldsFlag, h, client, size, busy)
  PROVE  TypeOK
<1>1. PICK n, L : Shape(FooterHoldsFlag, h, size, busy, {}, n, L)
  BY DEF Good
<1>2. /\ IsHeap(h) /\ Layout(h.mapped, h.gaps, size) /\ Offers(size, busy, {}, n, L)
      /\ Links(h.mem, h.head, n, L)
  BY <1>1 DEF Shape
<1>3. DOMAIN h.mem = Words /\ h.frames \in Nat /\ h.allocated \in Int
  BY <1>2 DEF IsHeap
<1>4. h.mapped \in 0 .. heap_max_size
  BY <1>2 DEF Layout
<1>5. h.mapped % VMM_PAGE_SIZE = 0
  <2>1. PICK q \in Nat : h.mapped = q * VMM_PAGE_SIZE
    BY DEF Good, PageMultiple
  <2> QED BY <2>1, Constants
<1>6. h.head \in {NULL} \cup DOMAIN h.mem
  <2>1. CASE n = 0
    BY <2>1, <1>2 DEF Links
  <2>2. CASE n # 0
    <3>1. 1 \in 1 .. n
      BY <2>2, <1>2 DEF Offers
    <3>2. h.head = L[1] /\ L[1] \in DOMAIN size
      BY <3>1, <2>2, <1>2 DEF Links, Offers
    <3> QED BY <3>2, <1>2, <1>3 DEF Layout
  <2> QED BY <2>1, <2>2
<1>7. ASSUME NEW c \in Clients PROVE client[c].ptr \in {NULL} \cup DOMAIN h.mem
  <2> DEFINE k == client[c]
             b == k.ptr - 4
  <2>1. Kept(h.mem, size, busy, k)
    BY DEF Good, Callers
  <2>2. k.ptr \in Int
    BY <2>1 DEF Kept, IsCaller
  <2>3. CASE k.ptr # NULL
    <3>1. b \in busy
      BY <2>1, <2>3 DEF Kept, Holds
    <3>2. b \in DOMAIN size
      BY <3>1, <1>2 DEF Offers
    <3>3. /\ b \in Nat /\ size[b] \in Nat /\ size[b] >= 8 /\ b >= heap_start
          /\ b + size[b] <= heap_start + heap_max_size
      BY <3>2, <1>2, BlockWords
    <3>4. k.ptr = b + 4
      BY <2>2
    <3> HIDE DEF b, k
    <3>5. k.ptr \in Words
      BY <3>3, <3>4, Constants DEF Words
    <3> QED BY <3>5, <1>3 DEF k
  <2> QED BY <2>3
<1>8. DOMAIN h.mem = heap_start .. heap_start + heap_max_size - 1
  BY <1>3 DEF Words
<1> QED BY <1>3, <1>4, <1>5, <1>6, <1>7, <1>8 DEF TypeOK

LEMMA GoodTiled ==
  ASSUME Inv, NEW size, NEW busy, Good(FooterHoldsFlag, h, client, size, busy)
  PROVE  Tiled
<1>1. PICK n, L :
        /\ Shape(FooterHoldsFlag, h, size, busy, {}, n, L)
        /\ seen.busy = busy /\ seen.free = DOMAIN size \ busy
        /\ seen.end = End(h.mapped) /\ seen.list = L
  BY GoodSeen
<1>2. /\ Layout(h.mapped, h.gaps, size) /\ Offers(size, busy, {}, n, L)
      /\ Tags(FooterHoldsFlag, h.mem, size, busy)
  BY <1>1 DEF Shape
<1>3. seen.busy \cup seen.free = DOMAIN size
  BY <1>1, <1>2 DEF Offers
<1>4. ASSUME NEW b \in DOMAIN size, NEW sz, sz = blk_size(h.mem, b)
      PROVE  /\ sz >= BLOCK_MIN_SIZE /\ sz % BLOCK_ALIGN = 0
             /\ blk_magic(h.mem, b) = MAGIC_VALUE
             /\ h.mem[b + sz - 1] = MAGIC_VALUE
             /\ h.mem[b + sz - 2] % BLOCK_ALLOCATED = sz
  <2>1. size[b] \in 8 .. heap_max_size /\ size[b] % 2 = 0
    BY <1>2 DEF Layout
  <2>2. blk_size(h.mem, b) = size[b] /\ blk_magic(h.mem, b) = MAGIC_VALUE
    BY <2>1, <1>2, TaggedSays
  <2>3. sz = size[b] /\ sz \in Nat /\ sz >= 8 /\ sz <= heap_max_size /\ sz % 2 = 0
    BY <1>4, <2>1, <2>2
  <2>4. Tagged(FooterHoldsFlag, h.mem, b, sz, b \in busy)
    BY <2>3, <1>2 DEF Tags
  <2>5. /\ h.mem[b + sz - 1] = MAGIC_VALUE
        /\ h.mem[b + sz - 2] = sz \/ h.mem[b + sz - 2] = sz + BLOCK_ALLOCATED
    BY <2>3, <2>4, Constants DEF Tagged, HeaderWord
  <2>6. sz % BLOCK_ALLOCATED = sz /\ (sz + BLOCK_ALLOCATED) % BLOCK_ALLOCATED = sz
    BY <2>3, Constants
  <2>7. BLOCK_MIN_SIZE = 8 /\ BLOCK_ALIGN = 2
    BY DEF BLOCK_MIN_SIZE, BLOCK_META_SIZE, BLOCK_HEADER_SIZE, BLOCK_FOOTER_SIZE, BLOCK_ALIGN
  <2> QED BY <2>2, <2>3, <2>5, <2>6, <2>7
<1>5. seen.end = heap_start + h.mapped
  BY <1>1 DEF End
<1> QED BY <1>3, <1>4, <1>5 DEF Tiled

LEMMA GoodList ==
  ASSUME Inv, NEW size, NEW busy, Good(FooterHoldsFlag, h, client, size, busy)
  PROVE  FreeListExact
<1>1. PICK n, L :
        /\ Shape(FooterHoldsFlag, h, size, busy, {}, n, L)
        /\ seen.busy = busy /\ seen.free = DOMAIN size \ busy
        /\ seen.end = End(h.mapped) /\ seen.list = L
        /\ Listed = DOMAIN size \ busy
  BY GoodSeen
<1>2. Offers(size, busy, {}, n, L) /\ Links(h.mem, h.head, n, L)
  BY <1>1 DEF Shape
<1> DEFINE S == DOMAIN size \ busy
<1>3. n \in Nat /\ L = [i \in 1 .. n |-> L[i]] /\ DOMAIN L = 1 .. n
  BY <1>2 DEF Offers
<1>4. Len(L) = n
  <2>1. L \in Seq(S)
    BY <1>2, <1>3 DEF Offers
  <2> QED BY <2>1, <1>3
<1>5. L \in Bijection(1 .. n, S)
  <2>1. L \in [1 .. n -> S]
    BY <1>2, <1>3 DEF Offers
  <2>2. \A i, j \in 1 .. n : L[i] = L[j] => i = j
    BY <1>2 DEF Offers
  <2>3. \A s \in S : \E i \in 1 .. n : L[i] = s
    BY <1>2 DEF Offers
  <2> HIDE DEF S
  <2> QED BY <2>1, <2>2, <2>3, <1>3 DEF Bijection, Injection, Surjection, IsInjective
<1>6. Cardinality(S) = n
  <2>1. ExistsBijection(1 .. n, S)
    BY <1>5 DEF ExistsBijection
  <2> HIDE DEF S
  <2> QED BY <2>1, <1>3, FS_CountingElements
<1>7. \A i \in DOMAIN seen.list :
        blk_prev_free(h.mem, seen.list[i]) = IF i = 1 THEN NULL ELSE seen.list[i - 1]
  BY <1>1, <1>2, <1>3 DEF Links, blk_prev_free
<1> QED BY <1>1, <1>4, <1>6, <1>7 DEF FreeListExact

LEMMA GoodPayload ==
  ASSUME Inv, NEW size, NEW busy, Good(FooterHoldsFlag, h, client, size, busy)
  PROVE  PayloadIntact
<1>1. seen.busy = busy
  BY GoodSeen
<1> SUFFICES ASSUME NEW c \in Clients, client[c].ptr # NULL
             PROVE  LET k == client[c]
                        b == k.ptr - BLOCK_HEADER_SIZE
                    IN  /\ b \in seen.busy
                        /\ k.size <= blk_size(h.mem, b) - BLOCK_META_SIZE
                        /\ \A a \in k.ptr .. k.ptr + k.size - 1 : h.mem[a] = k.tag
  BY DEF PayloadIntact
<1> DEFINE k == client[c]
           b == k.ptr - 4
<1>2. Kept(h.mem, size, busy, k)
  BY DEF Good, Callers
<1>3. Holds(h.mem, size, busy, k.ptr, k.size, k.tag)
  BY <1>2 DEF Kept
<1>4. b \in busy /\ k.size <= size[b] - 6 /\ \A a \in k.ptr .. k.ptr + k.size - 1 : h.mem[a] = k.tag
  BY <1>3 DEF Holds
<1>5. blk_size(h.mem, b) = size[b]
  <2> HIDE DEF b
  <2> QED BY <1>4, GoodHeader
<1>6. BLOCK_HEADER_SIZE = 4 /\ BLOCK_META_SIZE = 6
  BY DEF BLOCK_HEADER_SIZE, BLOCK_META_SIZE, BLOCK_FOOTER_SIZE
<1> QED BY <1>1, <1>4, <1>5, <1>6

\* The inductive invariant: after heap_init and any sequence of kmalloc, kcalloc,
\* krealloc (in two steps) and kfree by any callers, the words in memory are
\* those of blocks that tile the mapped pages, of a free list that links the
\* free ones, and of payloads that belong to one caller each.
THEOREM InvHolds == Spec => []Inv
<1>1. Init => Inv
  BY InitInv
<1>2. Inv /\ [Next]_vars => Inv'
  BY StepInv
<1> QED BY <1>1, <1>2, PTL DEF Spec

\* The heap and the callers have their types: what heap_mapped_size and
\* free_list_head hold, and what kmalloc gave to callers, stays in the region.
THEOREM HeapTyped == Spec => [](Intact => TypeOK)
<1>1. Inv => (Intact => TypeOK)
  BY GoodTyped DEF Inv
<1> QED BY <1>1, InvHolds, PTL

\* Whatever kmalloc splits, expand_to adds or fails to add and kfree merges,
\* walking from heap_start over the sizes in the headers ends at the end of the
\* mapped pages, with magic numbers and footers in place on every block.
THEOREM HeapIsTiled == Spec => [](Intact => Tiled)
<1>1. Inv => (Intact => Tiled)
  BY GoodTiled DEF Inv
<1> QED BY <1>1, InvHolds, PTL

\* After any sequence of list_insert_head, list_remove and splits in kmalloc the
\* free list holds every free block once, and its two directions agree.
THEOREM FreeListIsExact == Spec => [](Intact => FreeListExact)
<1>1. Inv => (Intact => FreeListExact)
  BY GoodList DEF Inv
<1> QED BY <1>1, InvHolds, PTL

\* What a caller stored in the words it was given stays there, whatever other
\* callers do, between the kmalloc, the copy and the kfree of its own krealloc
\* too.
THEOREM PayloadStaysIntact == Spec => [](Intact => PayloadIntact)
<1>1. Inv => (Intact => PayloadIntact)
  BY GoodPayload DEF Inv
<1> QED BY <1>1, InvHolds, PTL

-----------------------------------------------------------------------------
(* The heap implements the promise of HeapSpec.                            *)

\* The extent of a block, and of the blocks of a set.
Ext(size, b) == <<b - heap_start, b - heap_start + size[b]>>
Exts(size, S) == { Ext(size, b) : b \in S }

LEMMA ExtsAgree ==
  ASSUME NEW size, NEW size2, NEW S, \A b \in S : size2[b] = size[b]
  PROVE  Exts(size2, S) = Exts(size, S)
BY DEF Exts, Ext

LEMMA ExtsAdd ==
  ASSUME NEW size, NEW S, NEW b
  PROVE  Exts(size, S \cup {b}) = Exts(size, S) \cup {Ext(size, b)}
BY DEF Exts

Drops(size, S, T) == Exts(size, S \ T) = Exts(size, S) \ Exts(size, T)

Numbers(S) == \A b \in S : b \in Int

LEMMA ExtsDrop ==
  ASSUME NEW size, NEW S, NEW T, Numbers(S), Numbers(T)
  PROVE  Drops(size, S, T)
<1>1. \A b, c \in S \cup T : Ext(size, b) = Ext(size, c) => b = c
  <2> SUFFICES ASSUME NEW b \in S \cup T, NEW c \in S \cup T, Ext(size, b) = Ext(size, c)
               PROVE  b = c
    OBVIOUS
  <2>1. b - heap_start = c - heap_start
    BY DEF Ext
  <2>2. b \in Int /\ c \in Int /\ heap_start \in Int
    BY Constants DEF Numbers
  <2> QED BY <2>1, <2>2
<1> QED BY <1>1 DEF Exts, Drops

\* A list of blocks that lie apart.
Spaced(size) ==
  /\ \A c \in DOMAIN size : c \in Int /\ size[c] \in Int /\ size[c] >= 8
  /\ \A c, d \in DOMAIN size : c # d => c + size[c] <= d \/ d + size[d] <= c

LEMMA LayoutSpaced ==
  ASSUME NEW mapped, NEW gaps, NEW size, Layout(mapped, gaps, size)
  PROVE  Spaced(size)
BY BlockWords DEF Spaced

\* The extents once b was taken, whole or in part.
LEMMA TakenExts ==
  ASSUME NEW size1, Spaced(size1), NEW busy, busy \subseteq DOMAIN size1,
         NEW b \in DOMAIN size1, b \notin busy, NEW size2, Taken(size1, size2, b)
  PROVE  \E n \in 1 .. size1[b] :
           /\ Exts(size2, busy \cup {b}) =
                Exts(size1, busy) \cup { <<b - heap_start, b - heap_start + n>> }
           /\ Exts(size2, DOMAIN size2 \ (busy \cup {b})) =
                Exts(size1, (DOMAIN size1 \ busy) \ {b})
                  \cup Promise!Rest(<<b - heap_start, b - heap_start + size1[b]>>, n)
<1> DEFINE lo == b - heap_start
           S == (DOMAIN size1 \ busy) \ {b}
<1>1. b \in Int /\ size1[b] \in Int /\ size1[b] >= 8 /\ heap_start \in Int /\ lo \in Int
  BY Constants DEF Spaced
<1>2. CASE size2 = size1
  <2>1. Exts(size2, busy \cup {b}) = Exts(size1, busy) \cup { <<lo, lo + size1[b]>> }
    BY <1>2, ExtsAdd DEF Ext
  <2>2. DOMAIN size2 \ (busy \cup {b}) = S
    BY <1>2
  <2>3. Promise!Rest(<<lo, lo + size1[b]>>, size1[b]) = {}
    BY <1>1 DEF Promise!Rest
  <2>4. size1[b] \in 1 .. size1[b]
    BY <1>1
  <2> QED BY <2>1, <2>2, <2>3, <2>4, <1>2
<1>3. CASE \E t \in Nat : t >= 8 /\ size1[b] >= t + 8 /\ size2 = Cut(size1, b, t)
  <2>1. PICK t \in Nat : t >= 8 /\ size1[b] >= t + 8 /\ size2 = Cut(size1, b, t)
    BY <1>3
  <2> DEFINE r == b + t
  <2>2. r \notin DOMAIN size1 /\ r # b /\ r \in Int
    <3>1. ASSUME r \in DOMAIN size1 PROVE FALSE
      <4>1. r \in Int /\ size1[r] \in Int /\ size1[r] >= 8 /\ r # b
        BY <3>1, <1>1, <2>1 DEF Spaced
      <4>2. r + size1[r] <= b \/ b + size1[b] <= r
        BY <3>1, <4>1 DEF Spaced
      <4> QED BY <4>1, <4>2, <1>1, <2>1
    <3> QED BY <3>1, <1>1, <2>1
  <2>3. /\ DOMAIN size2 = DOMAIN size1 \cup {r}
        /\ size2[b] = t /\ size2[r] = size1[b] - t
        /\ \A c \in DOMAIN size1 : c # b => size2[c] = size1[c]
    BY <2>1, <2>2 DEF Cut
  <2> HIDE DEF r
  <2>4. Exts(size2, busy \cup {b}) = Exts(size1, busy) \cup { <<lo, lo + t>> }
    <3>1. Exts(size2, busy) = Exts(size1, busy)
      <4>1. \A c \in busy : size2[c] = size1[c]
        BY <2>3
      <4> QED BY <4>1, ExtsAgree
    <3> QED BY <3>1, <2>3, ExtsAdd DEF Ext
  <2>5. DOMAIN size2 \ (busy \cup {b}) = S \cup {r}
    BY <2>2, <2>3
  <2>6. Exts(size2, S) = Exts(size1, S)
    <3>1. \A c \in S : size2[c] = size1[c]
      BY <2>3
    <3> HIDE DEF S
    <3> QED BY <3>1, ExtsAgree
  <2>7. Promise!Rest(<<lo, lo + size1[b]>>, t) = { Ext(size2, r) }
    <3>1. lo + t < lo + size1[b]
      BY <1>1, <2>1
    <3>2. r - heap_start = lo + t /\ r - heap_start + size2[r] = lo + size1[b]
      BY <1>1, <2>1, <2>3 DEF r
    <3> HIDE DEF lo
    <3>3. Ext(size2, r) = <<lo + t, lo + size1[b]>>
      BY <3>2 DEF Ext
    <3> QED BY <3>1, <3>3 DEF Promise!Rest
  <2>8. t \in 1 .. size1[b]
    BY <1>1, <2>1
  <2>9. Exts(size2, S \cup {r}) = Exts(size2, S) \cup { Ext(size2, r) }
    BY ExtsAdd
  <2> QED BY <2>4, <2>5, <2>6, <2>7, <2>8, <2>9
<1> QED BY <1>2, <1>3 DEF Taken

\* The steps of HeapSpec, on the extents as values.
Allocs(m, B, F, m2, B2, F2) ==
  \E e \in F : \E n \in 1 .. e[2] - e[1] :
    /\ n \in Nat \ {0} /\ e[1] + n <= e[2]
    /\ m2 = m /\ B2 = B \cup { <<e[1], e[1] + n>> }
    /\ F2 = (F \ {e}) \cup Promise!Rest(e, n)

Grows(m, B, F, m2, B2, F2) ==
  \E k \in 1 .. heap_max_size - m : \E n \in 1 .. k :
    /\ m2 = m + k /\ B2 = B \cup { <<m, m + n>> }
    /\ F2 = F \cup Promise!Rest(<<m, m + k>>, n)

Fails(m, B, F, m2, B2, F2) ==
  \E k \in 1 .. heap_max_size - m : m2 = m + k /\ B2 = B /\ F2 = F

Releases(m, B, F, m2, B2, F2) ==
  /\ m2 = m
  /\ \E e \in B : \E before, after \in SUBSET F : \E lo, hi \in 0 .. m :
       /\ \A b \in before : b[2] = e[1]
       /\ \A a \in after : a[1] = e[2]
       /\ B2 = B \ {e}
       /\ IF before = {} THEN lo = e[1] ELSE \E b \in before : lo = b[1]
       /\ IF after = {} THEN hi = e[2] ELSE \E a \in after : hi = a[2]
       /\ F2 = (F \ (before \cup after)) \cup { <<lo, hi>> }

Promised(m, B, F, m2, B2, F2) ==
  \/ m2 = m /\ B2 = B /\ F2 = F
  \/ Allocs(m, B, F, m2, B2, F2)
  \/ Grows(m, B, F, m2, B2, F2)
  \/ Fails(m, B, F, m2, B2, F2)
  \/ Releases(m, B, F, m2, B2, F2)

\* kmalloc, from the free list or from new pages.
LEMMA ProvidedPromised ==
  ASSUME NEW m, NEW gaps, NEW size, Layout(m, gaps, size), NEW busy, busy \subseteq DOMAIN size,
         NEW m2, NEW size2, NEW b, NEW req, Provided(m, size, busy, m2, size2, b, req)
  PROVE  Promised(m, Exts(size, busy), Exts(size, DOMAIN size \ busy),
                  m2, Exts(size2, busy \cup {b}), Exts(size2, DOMAIN size2 \ (busy \cup {b})))
<1> DEFINE B == Exts(size, busy)
           F == Exts(size, DOMAIN size \ busy)
           B2 == Exts(size2, busy \cup {b})
           F2 == Exts(size2, DOMAIN size2 \ (busy \cup {b}))
<1>1. b \notin busy
  BY DEF Provided
<1>2. PICK size1 : Source(m, size, m2, size1, b) /\ Taken(size1, size2, b)
  BY DEF Provided
<1>3. Spaced(size)
  BY LayoutSpaced
<1>4. heap_start \in Int /\ heap_max_size \in Nat /\ m \in Nat /\ m <= heap_max_size
  BY Constants DEF Layout
<1>5. CASE m2 = m /\ size1 = size /\ b \in DOMAIN size
  <2> DEFINE e == Ext(size, b)
             lo == b - heap_start
  <2>1. PICK n \in 1 .. size[b] :
          /\ B2 = B \cup { <<lo, lo + n>> }
          /\ F2 = Exts(size, (DOMAIN size \ busy) \ {b}) \cup Promise!Rest(<<lo, lo + size[b]>>, n)
    BY <1>1, <1>2, <1>3, <1>5, TakenExts
  <2>2. b \in Int /\ size[b] \in Int /\ size[b] >= 8 /\ lo \in Int
    BY <1>3, <1>4, <1>5 DEF Spaced
  <2>3. e = <<lo, lo + size[b]>> /\ e[1] = lo /\ e[2] = lo + size[b]
    BY DEF Ext
  <2>4. Exts(size, {b}) = {e}
    BY DEF Exts
  <2>5. Exts(size, (DOMAIN size \ busy) \ {b}) = F \ {e}
    <3> DEFINE S == DOMAIN size \ busy
               T == {b}
    <3>1. Numbers(S) /\ Numbers(T)
      BY <1>3, <1>5 DEF Spaced, Numbers
    <3> HIDE DEF S, T
    <3>2. Drops(size, S, T)
      BY <3>1, ExtsDrop
    <3> QED BY <3>2, <2>4 DEF S, T, Drops
  <2>6. e \in F
    BY <1>1, <1>5 DEF Exts
  <2> HIDE DEF B, F, B2, F2, e, lo
  <2>7. n \in 1 .. e[2] - e[1] /\ n \in Nat \ {0} /\ e[1] + n <= e[2]
    BY <2>2, <2>3
  <2>8. Allocs(m, B, F, m2, B2, F2)
    BY <2>1, <2>3, <2>5, <2>6, <2>7, <1>5 DEF Allocs
  <2> QED BY <2>8 DEF Promised, B, F, B2, F2
<1>6. CASE \E k \in Nat : /\ k >= 8 /\ m + k <= heap_max_size /\ m2 = m + k
                          /\ b = End(m) /\ size1 = Plus(size, b, k)
  <2>1. PICK k \in Nat : /\ k >= 8 /\ m + k <= heap_max_size /\ m2 = m + k
                         /\ b = End(m) /\ size1 = Plus(size, b, k)
    BY <1>6
  <2>2. b \in Int /\ b - heap_start = m
    BY <2>1, <1>4 DEF End
  <2>3. \A c \in DOMAIN size : c \in Int /\ size[c] \in Int /\ size[c] >= 8 /\ c + size[c] <= b
    BY <2>1, BlockWords, <1>4 DEF End
  <2>4. b \notin DOMAIN size
    BY <2>2, <2>3
  <2>5. /\ DOMAIN size1 = DOMAIN size \cup {b} /\ size1[b] = k
        /\ \A c \in DOMAIN size : size1[c] = size[c]
    BY <2>1, <2>4 DEF Plus
  <2>6. Spaced(size1)
    BY <2>1, <2>2, <2>3, <2>5, <1>3 DEF Spaced
  <2>7. PICK n \in 1 .. size1[b] :
          /\ B2 = Exts(size1, busy) \cup { <<b - heap_start, b - heap_start + n>> }
          /\ F2 = Exts(size1, (DOMAIN size1 \ busy) \ {b})
                    \cup Promise!Rest(<<b - heap_start, b - heap_start + size1[b]>>, n)
    <3>1. busy \subseteq DOMAIN size1 /\ b \in DOMAIN size1
      BY <2>5
    <3> QED BY <3>1, <1>1, <1>2, <2>6, TakenExts
  <2>8. Exts(size1, busy) = B
    BY <2>5, ExtsAgree
  <2>9. Exts(size1, (DOMAIN size1 \ busy) \ {b}) = F
    <3>1. (DOMAIN size1 \ busy) \ {b} = DOMAIN size \ busy
      BY <2>4, <2>5
    <3>2. \A c \in DOMAIN size \ busy : size1[c] = size[c]
      BY <2>5
    <3> QED BY <3>1, <3>2, ExtsAgree
  <2> HIDE DEF B, F, B2, F2
  <2>10. B2 = B \cup { <<m, m + n>> } /\ F2 = F \cup Promise!Rest(<<m, m + k>>, n)
    BY <2>2, <2>5, <2>7, <2>8, <2>9
  <2>11. k \in 1 .. heap_max_size - m /\ n \in 1 .. k
    BY <2>1, <2>5, <1>4
  <2>12. Grows(m, B, F, m2, B2, F2)
    BY <2>1, <2>10, <2>11 DEF Grows
  <2> QED BY <2>12 DEF Promised, B, F, B2, F2
<1> QED BY <1>2, <1>5, <1>6 DEF Source

\* What merging made of the free blocks: P is the free block before b, if it
\* was merged, R the one behind.
Merged(size, busy, b, size2, P, R, lo, hi) ==
  /\ P \subseteq DOMAIN size \ busy /\ R \subseteq DOMAIN size \ busy
  /\ lo \in Int /\ hi \in Int /\ lo >= heap_start /\ b <= hi /\ b \in DOMAIN size
  /\ \/ P = {} /\ lo = b
     \/ P = {lo} /\ lo + size[lo] = b
  /\ \/ R = {} /\ hi = b + size[b]
     \/ \E r : R = {r} /\ r = b + size[b] /\ hi = r + size[r]
  /\ DOMAIN size2 = (DOMAIN size \ (P \cup R \cup {b})) \cup {lo}
  /\ size2[lo] = hi - lo
  /\ \A c \in DOMAIN size2 : c # lo => size2[c] = size[c]

LEMMA JoinedMerged ==
  ASSUME NEW m, NEW gaps, NEW size, Layout(m, gaps, size), NEW busy, busy \subseteq DOMAIN size,
         NEW b \in DOMAIN size, b \notin busy, NEW size1, NEW lo, NEW size2,
         JoinedPrev(size, busy, b, size1, lo), JoinedNext(size1, busy, lo, size2)
  PROVE  \E P, R, hi : Merged(size, busy \cup {b}, b, size2, P, R, lo, hi)
<1>0. heap_start \in Int
  BY Constants
<1>1. \A c \in DOMAIN size : /\ c \in Int /\ size[c] \in Int /\ size[c] >= 8 /\ c >= heap_start
                             /\ c + size[c] # c
  BY BlockWords, <1>0
<1>2. \A c, d \in DOMAIN size : c # d => c + size[c] <= d \/ d + size[d] <= c
  BY BlockWords
<1> DEFINE w == b + size[b]
<1>3. w \in Int /\ w > b /\ b \in Int
  BY <1>1
<1> HIDE DEF w
\* The first merge.
<1>4. \E P : /\ P \subseteq DOMAIN size \ (busy \cup {b})
             /\ \/ P = {} /\ lo = b
                \/ P = {lo} /\ lo + size[lo] = b
             /\ lo \in DOMAIN size /\ lo <= b
             /\ DOMAIN size1 = (DOMAIN size \ (P \cup {b})) \cup {lo}
             /\ size1[lo] = w - lo
             /\ \A c \in DOMAIN size1 : c # lo => size1[c] = size[c]
  <2>1. CASE size1 = size /\ lo = b
    <3> DEFINE P == {}
    <3>1. size1[lo] = w - lo
      BY <2>1, <1>1 DEF w
    <3>2. /\ DOMAIN size1 = (DOMAIN size \ (P \cup {b})) \cup {lo}
          /\ \A c \in DOMAIN size1 : c # lo => size1[c] = size[c]
      BY <2>1
    <3>3. P = {} /\ lo = b /\ lo \in DOMAIN size /\ lo <= b
      BY <2>1, <1>3
    <3>4. P \subseteq DOMAIN size \ (busy \cup {b})
      OBVIOUS
    <3> HIDE DEF P
    <3> QED BY <3>1, <3>2, <3>3, <3>4
  <2>2. CASE /\ lo \in DOMAIN size /\ lo \notin busy /\ lo + size[lo] = b
             /\ size1 = Joined(size, lo)
    <3> DEFINE P == {lo}
    <3>1. lo # b /\ lo < b /\ lo \in Int
      BY <2>2, <1>1
    <3>2. size1 = [c \in DOMAIN size \ {b} |-> IF c = lo THEN size[lo] + size[b] ELSE size[c]]
      BY <2>2 DEF Joined
    <3>3. size1[lo] = size[lo] + size[b]
      BY <3>1, <3>2, <2>2
    <3>4. size1[lo] = w - lo
      BY <3>3, <2>2, <1>1 DEF w
    <3>5. /\ DOMAIN size1 = (DOMAIN size \ (P \cup {b})) \cup {lo}
          /\ \A c \in DOMAIN size1 : c # lo => size1[c] = size[c]
      BY <3>1, <3>2, <2>2
    <3>6. P \subseteq DOMAIN size \ (busy \cup {b}) /\ P = {lo} /\ lo <= b
      BY <3>1, <2>2, <1>3
    <3> HIDE DEF P
    <3> QED BY <3>4, <3>5, <3>6, <2>2
  <2> QED BY <2>1, <2>2 DEF JoinedPrev
<1>5. PICK P : /\ P \subseteq DOMAIN size \ (busy \cup {b})
               /\ \/ P = {} /\ lo = b
                  \/ P = {lo} /\ lo + size[lo] = b
               /\ lo \in DOMAIN size /\ lo <= b
               /\ DOMAIN size1 = (DOMAIN size \ (P \cup {b})) \cup {lo}
               /\ size1[lo] = w - lo
               /\ \A c \in DOMAIN size1 : c # lo => size1[c] = size[c]
  BY <1>4
<1>6. lo \in Int /\ lo >= heap_start /\ lo + size1[lo] = w /\ lo # w
  BY <1>1, <1>3, <1>5
\* The second merge.
<1>7. CASE size2 = size1
  <2> DEFINE R == {}
             hi == w
  <2>1. DOMAIN size2 = (DOMAIN size \ (P \cup R \cup {b})) \cup {lo}
    BY <1>5, <1>7
  <2>2. size2[lo] = hi - lo /\ \A c \in DOMAIN size2 : c # lo => size2[c] = size[c]
    BY <1>5, <1>7
  <2>3. R = {} /\ hi = b + size[b] /\ b <= hi /\ hi \in Int
    BY <1>3 DEF w
  <2> HIDE DEF R, hi
  <2>4. R \subseteq DOMAIN size \ (busy \cup {b})
    BY <2>3
  <2> QED BY <2>1, <2>2, <2>3, <2>4, <1>5, <1>6 DEF Merged
<1>8. CASE w \in DOMAIN size1 /\ w \notin busy /\ size2 = Joined(size1, lo)
  <2> DEFINE R == {w}
             hi == w + size[w]
  <2>1. w \in DOMAIN size /\ w # b /\ w \notin P /\ size1[w] = size[w]
    BY <1>3, <1>5, <1>6, <1>8
  <2>2. size[w] \in Int /\ size[w] >= 8
    BY <1>1, <2>1
  <2>3. size2 = [c \in DOMAIN size1 \ {w} |->
                   IF c = lo THEN size1[lo] + size1[w] ELSE size1[c]]
    BY <1>6, <1>8 DEF Joined
  <2>4. lo \in DOMAIN size1
    BY <1>5
  <2>5. size2[lo] = size1[lo] + size1[w]
    BY <2>3, <2>4, <1>6
  <2>6. size2[lo] = hi - lo
    BY <2>1, <2>2, <2>5, <1>3, <1>5, <1>6
  <2>7. DOMAIN size2 = (DOMAIN size \ (P \cup R \cup {b})) \cup {lo}
    BY <2>3, <1>5, <1>6
  <2>8. \A c \in DOMAIN size2 : c # lo => size2[c] = size[c]
    BY <2>3, <1>5
  <2>9. R = {w} /\ w = b + size[b] /\ hi = w + size[w] /\ b <= hi /\ hi \in Int
    BY <1>3, <2>2 DEF w
  <2>10. R \subseteq DOMAIN size \ (busy \cup {b})
    BY <2>1, <1>8
  <2> HIDE DEF R, hi
  <2> QED BY <2>6, <2>7, <2>8, <2>9, <2>10, <1>5, <1>6 DEF Merged
<1> QED BY <1>6, <1>7, <1>8 DEF JoinedNext

\* kfree, with the merging.
LEMMA MergedPromised ==
  ASSUME NEW m, NEW gaps, NEW size, Layout(m, gaps, size), NEW busy, busy \subseteq DOMAIN size,
         NEW b \in busy, NEW size2, NEW P, NEW R, NEW lo, NEW hi,
         Merged(size, busy, b, size2, P, R, lo, hi)
  PROVE  Promised(m, Exts(size, busy), Exts(size, DOMAIN size \ busy),
                  m, Exts(size2, busy \ {b}), Exts(size2, DOMAIN size2 \ (busy \ {b})))
<1> DEFINE B == Exts(size, busy)
           S == DOMAIN size \ busy
           F == Exts(size, S)
           B2 == Exts(size2, busy \ {b})
           F2 == Exts(size2, DOMAIN size2 \ (busy \ {b}))
           e == Ext(size, b)
           before == Exts(size, P)
           after == Exts(size, R)
           from == lo - heap_start
           to == hi - heap_start
<1>0. heap_start \in Int /\ m \in Nat
  BY Constants DEF Layout
<1>1. \A c \in DOMAIN size : /\ c \in Int /\ size[c] \in Int /\ size[c] >= 8 /\ c >= heap_start
                             /\ c + size[c] <= heap_start + m
  BY BlockWords, <1>0
<1>2. b \in DOMAIN size /\ b \in Int /\ size[b] \in Int
  BY <1>1
<1>3. /\ P \subseteq S /\ R \subseteq S /\ b \in DOMAIN size
      /\ lo \in Int /\ hi \in Int /\ lo >= heap_start
      /\ \/ P = {} /\ lo = b
         \/ P = {lo} /\ lo + size[lo] = b
      /\ \/ R = {} /\ hi = b + size[b]
         \/ \E r : R = {r} /\ r = b + size[b] /\ hi = r + size[r]
      /\ DOMAIN size2 = (DOMAIN size \ (P \cup R \cup {b})) \cup {lo}
      /\ size2[lo] = hi - lo
      /\ \A c \in DOMAIN size2 : c # lo => size2[c] = size[c]
  BY DEF Merged
<1>4. lo \notin busy \ {b}
  BY <1>3
<1>5. \A c \in busy \ {b} : size2[c] = size[c]
  <2>1. \A c \in busy \ {b} : c \in DOMAIN size2 /\ c # lo
    BY <1>3
  <2> QED BY <2>1, <1>3
<1>6. e \in B /\ e[1] = b - heap_start /\ e[2] = b - heap_start + size[b]
  BY DEF Exts, Ext
<1>7. B2 = B \ {e}
  <2> DEFINE T == {b}
             A == busy
  <2>1. Numbers(A) /\ Numbers(T)
    BY <1>1, <1>2 DEF Numbers
  <2>2. Exts(size, T) = {e}
    BY DEF Exts
  <2>3. Exts(size2, busy \ {b}) = Exts(size, busy \ {b})
    BY <1>5, ExtsAgree
  <2> HIDE DEF A, T
  <2>4. Drops(size, A, T)
    BY <2>1, ExtsDrop
  <2> QED BY <2>2, <2>3, <2>4 DEF A, T, Drops
<1>8. before \subseteq F /\ after \subseteq F
  BY <1>3 DEF Exts
<1>9. F2 = (F \ (before \cup after)) \cup { <<from, to>> }
  <2> DEFINE T == P \cup R
             A == S \ T
  <2>1. DOMAIN size2 \ (busy \ {b}) = A \cup {lo}
    <3>1. lo \notin busy \ {b}
      BY <1>4
    <3> QED BY <3>1, <1>3
  <2>2. Exts(size2, A \cup {lo}) = Exts(size2, A) \cup { Ext(size2, lo) }
    BY ExtsAdd
  <2>3. \A c \in A : size2[c] = size[c]
    <3>1. \A c \in A : c # lo
      BY <1>3
    <3>2. \A c \in A : c \in DOMAIN size2
      BY <1>3
    <3> QED BY <3>1, <3>2, <1>3
  <2>4. Ext(size2, lo) = <<from, to>>
    <3>1. lo - heap_start + size2[lo] = to
      BY <1>0, <1>3
    <3> QED BY <3>1 DEF Ext
  <2>5. Numbers(S)
    BY <1>1 DEF Numbers
  <2>9. Numbers(T)
    BY <1>1, <1>3 DEF Numbers
  <2>6. Exts(size, T) = before \cup after
    BY DEF Exts
  <2> HIDE DEF A
  <2>7. Exts(size2, A) = Exts(size, A)
    BY <2>3, ExtsAgree
  <2> HIDE DEF S, T, before, after, B, F, B2, F2, e, from, to
  <2>8. Drops(size, S, T)
    BY <2>5, <2>9, ExtsDrop
  <2> QED BY <2>1, <2>2, <2>4, <2>6, <2>7, <2>8 DEF A, F, F2, Drops
<1>10. \A x \in before : x[2] = e[1]
  <2>1. \A c \in P : c - heap_start + size[c] = b - heap_start
    BY <1>0, <1>1, <1>3
  <2> QED BY <2>1, <1>6 DEF Exts, Ext
<1>11. \A x \in after : x[1] = e[2]
  <2>1. \A c \in R : c - heap_start = b - heap_start + size[b]
    BY <1>0, <1>1, <1>3
  <2> QED BY <2>1, <1>6 DEF Exts, Ext
<1>12. IF before = {} THEN from = e[1] ELSE \E x \in before : from = x[1]
  <2>1. CASE P = {} /\ lo = b
    BY <2>1, <1>6 DEF Exts
  <2>2. CASE P = {lo}
    <3>1. before = { Ext(size, lo) } /\ Ext(size, lo)[1] = from
      BY <2>2 DEF Exts, Ext
    <3> HIDE DEF before
    <3> QED BY <3>1
  <2> QED BY <2>1, <2>2, <1>3
<1>13. IF after = {} THEN to = e[2] ELSE \E x \in after : to = x[2]
  <2>1. CASE R = {} /\ hi = b + size[b]
    <3>1. to = b - heap_start + size[b]
      BY <2>1, <1>0, <1>2
    <3> QED BY <3>1, <2>1, <1>6 DEF Exts
  <2>2. ASSUME NEW r, R = {r}, r = b + size[b], hi = r + size[r]
        PROVE  IF after = {} THEN to = e[2] ELSE \E x \in after : to = x[2]
    <3>1. r \in DOMAIN size
      BY <2>2, <1>3
    <3>2. to = r - heap_start + size[r]
      BY <2>2, <3>1, <1>0, <1>1
    <3>3. after = { Ext(size, r) } /\ Ext(size, r)[2] = to
      BY <2>2, <3>2 DEF Exts, Ext
    <3> HIDE DEF after
    <3> QED BY <3>3
  <2> QED BY <2>1, <2>2, <1>3
<1>14. from \in 0 .. m /\ to \in 0 .. m
  <2>1. lo <= b
    BY <1>1, <1>2, <1>3
  <2>2. hi >= b /\ hi <= heap_start + m
    BY <1>0, <1>1, <1>2, <1>3
  <2> QED BY <2>1, <2>2, <1>0, <1>1, <1>2, <1>3
<1> HIDE DEF B, F, B2, F2, e, before, after, from, to
<1>15. Releases(m, B, F, m, B2, F2)
  BY <1>6, <1>7, <1>8, <1>9, <1>10, <1>11, <1>12, <1>13, <1>14 DEF Releases
<1> QED BY <1>15 DEF Promised, B, F, B2, F2, S

LEMMA MovePromised ==
  ASSUME NEW m, NEW gaps, NEW size, Layout(m, gaps, size), NEW busy, busy \subseteq DOMAIN size,
         NEW m2, NEW gaps2, NEW size2, Layout(m2, gaps2, size2), NEW busy2,
         Move(m, size, busy, m2, size2, busy2)
  PROVE  Promised(m, Exts(size, busy), Exts(size, DOMAIN size \ busy),
                  m2, Exts(size2, busy2), Exts(size2, DOMAIN size2 \ busy2))
<1>0. m \in Nat /\ m2 \in Nat /\ m2 <= heap_max_size /\ heap_max_size \in Nat
  BY Constants DEF Layout
<1>1. CASE m2 >= m /\ size2 = size /\ busy2 = busy
  <2>1. CASE m2 = m
    BY <1>1, <2>1 DEF Promised
  <2>2. CASE m2 > m
    <3> DEFINE B == Exts(size, busy)
               F == Exts(size, DOMAIN size \ busy)
               k == m2 - m
    <3>1. k \in 1 .. heap_max_size - m /\ m2 = m + k
      BY <1>0, <2>2
    <3> HIDE DEF B, F, k
    <3>2. Fails(m, B, F, m2, B, F)
      BY <3>1 DEF Fails
    <3>3. Promised(m, B, F, m2, B, F)
      BY <3>2 DEF Promised
    <3> QED BY <3>3, <1>1 DEF B, F
  <2> QED BY <2>1, <2>2, <1>0, <1>1
<1>2. ASSUME NEW b, NEW req, Provided(m, size, busy, m2, size2, b, req), busy2 = busy \cup {b}
      PROVE  Promised(m, Exts(size, busy), Exts(size, DOMAIN size \ busy),
                      m2, Exts(size2, busy2), Exts(size2, DOMAIN size2 \ busy2))
  <2>1. Promised(m, Exts(size, busy), Exts(size, DOMAIN size \ busy),
                 m2, Exts(size2, busy \cup {b}), Exts(size2, DOMAIN size2 \ (busy \cup {b})))
    BY <1>2, ProvidedPromised
  <2> QED BY <2>1, <1>2
<1>3. ASSUME NEW b \in busy, NEW lo, NEW size1, m2 = m, busy2 = busy \ {b},
             JoinedPrev(size, busy2, b, size1, lo), JoinedNext(size1, busy2, lo, size2)
      PROVE  Promised(m, Exts(size, busy), Exts(size, DOMAIN size \ busy),
                      m2, Exts(size2, busy2), Exts(size2, DOMAIN size2 \ busy2))
  <2>1. busy2 \subseteq DOMAIN size /\ b \in DOMAIN size /\ b \notin busy2 /\ busy2 \cup {b} = busy
    BY <1>3
  <2>2. \E P, R, hi : Merged(size, busy2 \cup {b}, b, size2, P, R, lo, hi)
    BY <1>3, <2>1, JoinedMerged
  <2>3. PICK P, R, hi : Merged(size, busy, b, size2, P, R, lo, hi)
    BY <2>1, <2>2
  <2>4. Promised(m, Exts(size, busy), Exts(size, DOMAIN size \ busy),
                 m, Exts(size2, busy \ {b}), Exts(size2, DOMAIN size2 \ (busy \ {b})))
    BY <2>3, MergedPromised
  <2> QED BY <2>4, <1>3
<1> QED BY <1>1, <1>2, <1>3 DEF Move

\* The extents that the headers in mem tell of.
Told(mem, S) == { <<b - heap_start, b - heap_start + blk_size(mem, b)>> : b \in S }
Found(sn) == { sn.list[i] : i \in DOMAIN sn.list }

\* The extents of HeapSpec are those of the blocks.
LEMMA ToldExts ==
  ASSUME NEW flag, flag \in BOOLEAN, NEW hp, NEW cl, NEW size, NEW busy,
         Good(flag, hp, cl, size, busy), NEW sn, sn = Seen(hp)
  PROVE  /\ Told(hp.mem, sn.busy) = Exts(size, busy)
         /\ Told(hp.mem, Found(sn)) = Exts(size, DOMAIN size \ busy)
         /\ busy \subseteq DOMAIN size /\ Layout(hp.mapped, hp.gaps, size)
<1>1. PICK n, L : Shape(flag, hp, size, busy, {}, n, L)
  BY DEF Good
<1>2. Seen(hp) = [busy |-> busy, free |-> DOMAIN size \ busy,
                  end |-> End(hp.mapped), list |-> L]
  BY <1>1, SeenIs
<1>3. sn.busy = busy /\ sn.list = L
  BY <1>2
<1>4. /\ Layout(hp.mapped, hp.gaps, size) /\ Offers(size, busy, {}, n, L)
      /\ Tags(flag, hp.mem, size, busy)
  BY <1>1 DEF Shape
<1>5. busy \subseteq DOMAIN size
  BY <1>4 DEF Offers
<1>6. Found(sn) = DOMAIN size \ busy
  <2>1. DOMAIN L = 1 .. n
    BY <1>4 DEF Offers
  <2>2. Found(sn) = { L[i] : i \in 1 .. n }
    BY <1>3, <2>1 DEF Found
  <2> QED BY <2>2, <1>4 DEF Offers
<1>7. \A b \in DOMAIN size : blk_size(hp.mem, b) = size[b]
  <2> SUFFICES ASSUME NEW b \in DOMAIN size PROVE blk_size(hp.mem, b) = size[b]
    OBVIOUS
  <2>1. size[b] \in 8 .. heap_max_size
    BY <1>4 DEF Layout
  <2> QED BY <2>1, <1>4, TaggedSays
<1>8. \A S \in SUBSET DOMAIN size : Told(hp.mem, S) = Exts(size, S)
  BY <1>7 DEF Told, Exts, Ext
<1> QED BY <1>3, <1>4, <1>5, <1>6, <1>8

LEMMA PromiseInit == Init => Promise!Init
<1> SUFFICES ASSUME Init PROVE Promise!Init
  OBVIOUS
<1>1. FooterHoldsFlag \in BOOLEAN /\ seen = Seen(h)
  BY InitGood
<1>4. PICK size : Good(FooterHoldsFlag, h, client, size, {}) /\ Fresh(h.mapped, size)
  BY InitGood
<1>6. /\ Told(h.mem, seen.busy) = Exts(size, {})
      /\ Told(h.mem, Found(seen)) = Exts(size, DOMAIN size \ {})
      /\ Layout(h.mapped, h.gaps, size)
  BY <1>1, <1>4, ToldExts
<1>7. Extents(seen.busy) = Exts(size, {}) /\ Extents(Listed) = Exts(size, DOMAIN size)
  <2>1. DOMAIN size \ {} = DOMAIN size
    OBVIOUS
  <2> QED BY <1>6, <2>1 DEF Extents, Told, Found, Listed
<1>8. Exts(size, {}) = {} /\ h.mapped \in 0 .. heap_max_size
  BY <1>6 DEF Exts, Layout
<1>9. Exts(size, DOMAIN size) = IF h.mapped = 0 THEN {} ELSE { <<0, h.mapped>> }
  <2>1. CASE h.mapped = 0
    BY <2>1, <1>4 DEF Fresh, Exts
  <2>2. CASE h.mapped # 0
    <3>1. DOMAIN size = {heap_start} /\ size[heap_start] = h.mapped
      BY <2>2, <1>4 DEF Fresh
    <3>2. heap_start - heap_start = 0 /\ heap_start - heap_start + size[heap_start] = h.mapped
      BY <3>1, <1>8, Constants
    <3>3. Ext(size, heap_start) = <<0, h.mapped>>
      BY <3>2 DEF Ext
    <3> QED BY <3>1, <3>3, <2>2 DEF Exts
  <2> QED BY <2>1, <2>2
<1> QED BY <1>7, <1>8, <1>9 DEF Promise!Init

\* Every step of an intact heap is one that HeapSpec allows, or leaves the
\* extents as they are.
LEMMA StepPromised ==
  ASSUME Inv, Next, Intact
  PROVE  Promised(h.mapped, Extents(seen.busy), Extents(Listed),
                  h'.mapped, Extents(seen.busy)', Extents(Listed)')
<1>1. PICK size, busy : Good(FooterHoldsFlag, h, client, size, busy)
  BY DEF Inv
<1>2. Goes(size, busy)
  BY <1>1, NextGoes
<1>3. PICK size2, busy2 : /\ Good(FooterHoldsFlag, h', client', size2, busy2)
                          /\ Move(h.mapped, size, busy, h'.mapped, size2, busy2)
  BY <1>2 DEF Goes
<1>4. FooterHoldsFlag \in BOOLEAN /\ seen = Seen(h) /\ seen' = Seen(h')
  BY DEF Inv, Next
<1>5. /\ Told(h.mem, seen.busy) = Exts(size, busy)
      /\ Told(h.mem, Found(seen)) = Exts(size, DOMAIN size \ busy)
      /\ busy \subseteq DOMAIN size /\ Layout(h.mapped, h.gaps, size)
  BY <1>1, <1>4, ToldExts
<1>6. /\ Told(h'.mem, seen'.busy) = Exts(size2, busy2)
      /\ Told(h'.mem, Found(seen')) = Exts(size2, DOMAIN size2 \ busy2)
      /\ Layout(h'.mapped, h'.gaps, size2)
  BY <1>3, <1>4, ToldExts
<1>7. Promised(h.mapped, Exts(size, busy), Exts(size, DOMAIN size \ busy),
               h'.mapped, Exts(size2, busy2), Exts(size2, DOMAIN size2 \ busy2))
  BY <1>3, <1>5, <1>6, MovePromised
<1>8. /\ Extents(seen.busy) = Exts(size, busy)
      /\ Extents(Listed) = Exts(size, DOMAIN size \ busy)
  BY <1>5 DEF Extents, Told, Found, Listed
<1>9. /\ Extents(seen.busy)' = Exts(size2, busy2)
      /\ Extents(Listed)' = Exts(size2, DOMAIN size2 \ busy2)
  BY <1>6 DEF Extents, Told, Found, Listed
<1> QED BY <1>7, <1>8, <1>9

LEMMA PromiseStep ==
  ASSUME Inv, [Next]_vars, Intact
  PROVE  [Promise!Next]_(Promise!vars)
<1>1. CASE UNCHANGED vars
  BY <1>1 DEF vars, Promise!vars, Extents, Listed
<1>2. CASE Next
  <2>1. Promised(h.mapped, Extents(seen.busy), Extents(Listed),
                  h'.mapped, Extents(seen.busy)', Extents(Listed)')
    BY <1>2, StepPromised
  <2>2. h'.mapped = h.mapped /\ Extents(seen.busy)' = Extents(seen.busy)
           /\ Extents(Listed)' = Extents(Listed) => UNCHANGED Promise!vars
    BY DEF Promise!vars
  <2>3. Allocs(h.mapped, Extents(seen.busy), Extents(Listed),
                h'.mapped, Extents(seen.busy)', Extents(Listed)') => Promise!Next
    BY DEF Allocs, Promise!Next, Promise!Alloc
  <2>4. Grows(h.mapped, Extents(seen.busy), Extents(Listed),
               h'.mapped, Extents(seen.busy)', Extents(Listed)') => Promise!Next
    BY DEF Grows, Promise!Next, Promise!AllocGrow
  <2>5. Fails(h.mapped, Extents(seen.busy), Extents(Listed),
               h'.mapped, Extents(seen.busy)', Extents(Listed)') => Promise!Next
    BY DEF Fails, Promise!Next, Promise!GrowFailed
  <2>6. Releases(h.mapped, Extents(seen.busy), Extents(Listed),
                  h'.mapped, Extents(seen.busy)', Extents(Listed)') => Promise!Next
    <3> DEFINE B == Extents(seen.busy)
               F == Extents(Listed)
    <3> SUFFICES ASSUME Releases(h.mapped, B, F, h'.mapped, B', F') PROVE Promise!Next
      OBVIOUS
    <3>1. PICK e \in B, before \in SUBSET F, after \in SUBSET F, lo \in 0 .. h.mapped,
               hi \in 0 .. h.mapped :
            /\ \A b \in before : b[2] = e[1]
            /\ \A a \in after : a[1] = e[2]
            /\ B' = B \ {e}
            /\ IF before = {} THEN lo = e[1] ELSE \E b \in before : lo = b[1]
            /\ IF after = {} THEN hi = e[2] ELSE \E a \in after : hi = a[2]
            /\ F' = (F \ (before \cup after)) \cup { <<lo, hi>> }
      BY DEF Releases
    <3>2. h.mapped' = h.mapped
      BY DEF Releases
    <3>3. Promise!Release(e, before, after)
      BY <3>1, <3>2 DEF Promise!Release
    <3> QED BY <3>3 DEF Promise!Next
  <2> QED BY <2>1, <2>2, <2>3, <2>4, <2>5, <2>6 DEF Promised
<1> QED BY <1>1, <1>2

\* The blocks of a good heap lie apart, so their extents do.
LEMMA GoodApart ==
  ASSUME Inv, NEW size, NEW busy, Good(FooterHoldsFlag, h, client, size, busy)
  PROVE  Promise!TypeOK /\ NoOverlap
<1>1. FooterHoldsFlag \in BOOLEAN /\ seen = Seen(h)
  BY DEF Inv
<1>2. /\ Told(h.mem, seen.busy) = Exts(size, busy)
      /\ Told(h.mem, Found(seen)) = Exts(size, DOMAIN size \ busy)
      /\ busy \subseteq DOMAIN size /\ Layout(h.mapped, h.gaps, size)
  <2>1. Good(FooterHoldsFlag, h, client, size, busy)
    OBVIOUS
  <2>2. \A sn : sn = Seen(h) =>
          /\ Told(h.mem, sn.busy) = Exts(size, busy)
          /\ Told(h.mem, Found(sn)) = Exts(size, DOMAIN size \ busy)
          /\ busy \subseteq DOMAIN size /\ Layout(h.mapped, h.gaps, size)
    BY <2>1, <1>1, ToldExts
  <2> QED BY <1>1, <2>2
<1> DEFINE B == Exts(size, busy)
           F == Exts(size, DOMAIN size \ busy)
<1>3. Extents(seen.busy) = B /\ Extents(Listed) = F
  BY <1>2 DEF Extents, Told, Found, Listed
<1>4. heap_start \in Int /\ h.mapped \in 0 .. heap_max_size /\ h.mapped \in Nat
  BY <1>2, Constants DEF Layout
<1>5. \A b \in DOMAIN size :
        /\ b \in Int /\ size[b] \in Int /\ size[b] >= 8 /\ b >= heap_start
        /\ b + size[b] <= heap_start + h.mapped
  BY <1>2, BlockWords, <1>4
<1>6. \A b \in DOMAIN size :
        /\ Ext(size, b) \in Promise!Extent /\ Ext(size, b)[2] <= h.mapped
        /\ Ext(size, b)[1] = b - heap_start
        /\ Ext(size, b)[2] = b - heap_start + size[b]
  BY <1>4, <1>5 DEF Ext, Promise!Extent
<1>7. \A b, c \in DOMAIN size : b # c => Promise!Apart(Ext(size, b), Ext(size, c))
  <2> SUFFICES ASSUME NEW b \in DOMAIN size, NEW c \in DOMAIN size, b # c
               PROVE  Promise!Apart(Ext(size, b), Ext(size, c))
    OBVIOUS
  <2>1. b + size[b] <= c \/ c + size[c] <= b
    BY <1>2, BlockWords
  <2>2. \/ b - heap_start + size[b] <= c - heap_start
        \/ c - heap_start + size[c] <= b - heap_start
    BY <2>1, <1>4, <1>5
  <2> QED BY <2>2, <1>6 DEF Promise!Apart
<1>8. B \cup F \subseteq { Ext(size, b) : b \in DOMAIN size }
  BY <1>2 DEF Exts
<1>9. B \cap F = {}
  <2>1. \A b, c \in DOMAIN size : Ext(size, b) = Ext(size, c) => b = c
    <3> SUFFICES ASSUME NEW b \in DOMAIN size, NEW c \in DOMAIN size, Ext(size, b) = Ext(size, c)
                 PROVE  b = c
      OBVIOUS
    <3>1. b - heap_start = c - heap_start
      BY <1>6
    <3> QED BY <3>1, <1>4, <1>5
  <2> QED BY <2>1, <1>2 DEF Exts
<1> HIDE DEF B, F
<1>10. \A x, y \in B \cup F : x # y => Promise!Apart(x, y)
  BY <1>7, <1>8
<1>11. \A x \in B \cup F : x \in Promise!Extent /\ x[2] <= h.mapped
  BY <1>6, <1>8
<1> QED BY <1>3, <1>4, <1>9, <1>10, <1>11 DEF NoOverlap, Promise!NoOverlap, Promise!TypeOK

\* Whatever HeapSpec allows takes at most one extent out of use, and its words
\* are free afterwards.
LEMMA PromisedKeeps ==
  ASSUME NEW m \in Nat, NEW B, NEW F, NEW m2, NEW B2, NEW F2,
         B \subseteq Promise!Extent, F \subseteq Promise!Extent,
         Promised(m, B, F, m2, B2, F2)
  PROVE  \A a, b \in B \ B2 : /\ a = b
                             /\ \E f \in F2 : f[1] <= a[1] /\ a[2] <= f[2]
<1>1. CASE Releases(m, B, F, m2, B2, F2)
  <2>1. PICK e \in B, before \in SUBSET F, after \in SUBSET F, lo \in 0 .. m, hi \in 0 .. m :
          /\ \A b \in before : b[2] = e[1]
          /\ \A a \in after : a[1] = e[2]
          /\ B2 = B \ {e}
          /\ IF before = {} THEN lo = e[1] ELSE \E b \in before : lo = b[1]
          /\ IF after = {} THEN hi = e[2] ELSE \E a \in after : hi = a[2]
          /\ F2 = (F \ (before \cup after)) \cup { <<lo, hi>> }
    BY <1>1 DEF Releases
  <2>2. B \ B2 = {e} /\ e[1] \in Nat /\ e[2] \in Nat
    BY <2>1 DEF Promise!Extent
  <2>3. \A b \in before : b[1] \in Nat /\ b[2] = e[1] /\ b[1] < b[2]
    BY <2>1 DEF Promise!Extent
  <2>4. \A a \in after : a[2] \in Nat /\ a[1] = e[2] /\ a[1] < a[2]
    BY <2>1 DEF Promise!Extent
  <2>5. lo <= e[1] /\ e[2] <= hi
    BY <2>1, <2>2, <2>3, <2>4
  <2>6. <<lo, hi>> \in F2
    BY <2>1
  <2> QED BY <2>2, <2>5, <2>6
<1>2. CASE ~ Releases(m, B, F, m2, B2, F2)
  <2>1. B \subseteq B2
    BY <1>2 DEF Promised, Allocs, Grows, Fails
  <2> QED BY <2>1
<1> QED BY <1>1, <1>2

\* No block that kmalloc gave out and kfree did not take back shares a word with
\* another one or with a block on the free list.
THEOREM HeapNeverOverlaps == Spec => [](Intact => NoOverlap)
<1>1. Inv => (Intact => NoOverlap)
  BY GoodApart DEF Inv
<1> QED BY <1>1, InvHolds, PTL

\* The words, headers and links of heap.c implement the extents of HeapSpec:
\* heap_init makes its initial state, and every kmalloc, kcalloc, krealloc step
\* and kfree is one of its steps or changes no extent.
THEOREM HeapKeepsPromise == Spec /\ []Intact => ImplementsPromise
<1>1. Init => Promise!Init
  BY PromiseInit
<1>2. Inv /\ [Next]_vars /\ Intact => [Promise!Next]_(Promise!vars)
  BY PromiseStep
<1> QED BY <1>1, <1>2, InvHolds, PTL DEF Spec, ImplementsPromise, Promise!Spec

\* The code as it is: without the allocated bit in the footers (heap.c:75) the
\* invariants hold in every reachable state, gaps left by expand_to or not.
THEOREM KernelHeapIsSound ==
  Spec /\ ~ FooterHoldsFlag
    => [](TypeOK /\ Tiled /\ FreeListExact /\ PayloadIntact /\ NoOverlap)
<1>1. ~ FooterHoldsFlag /\ [Next]_vars => (~ FooterHoldsFlag)'
  BY DEF Next, vars
<1>2. ~ FooterHoldsFlag => Intact
  BY DEF Intact
<1> QED
  BY <1>1, <1>2, HeapTyped, HeapIsTiled, FreeListIsExact, PayloadStaysIntact,
     HeapNeverOverlaps, PTL DEF Spec

\* The code as it is implements HeapSpec.
THEOREM KernelHeapKeepsPromise == Spec /\ ~ FooterHoldsFlag => ImplementsPromise
<1>1. ~ FooterHoldsFlag /\ [Next]_vars => (~ FooterHoldsFlag)'
  BY DEF Next, vars
<1>2. ~ FooterHoldsFlag => Intact
  BY DEF Intact
<1>3. Spec /\ ~ FooterHoldsFlag => []Intact
  BY <1>1, <1>2, PTL DEF Spec
<1> QED BY <1>3, HeapKeepsPromise, PTL

\* A kfree, or the kfree at the end of krealloc, gives back its own caller's
\* block and no other: merge_prev and merge_next never swallow a block in use.
THEOREM CallersUndisturbed == Spec /\ []Intact => OthersUndisturbed
<1> DEFINE B == Extents(seen.busy)
           F == Extents(Listed)
           A == \A a, b \in B \ B' :
                  /\ a = b
                  /\ \E f \in F' : f[1] <= a[1] /\ a[2] <= f[2]
<1>1. ASSUME Inv, Intact, Next PROVE A
  <2>1. Promised(h.mapped, B, F, h'.mapped, B', F')
    BY <1>1, StepPromised
  <2>2. Promise!TypeOK
    BY <1>1, GoodApart DEF Inv
  <2>3. h.mapped \in Nat /\ B \subseteq Promise!Extent /\ F \subseteq Promise!Extent
    BY <2>2, Constants DEF Promise!TypeOK
  <2> HIDE DEF B, F
  <2> QED BY <2>1, <2>3, PromisedKeeps
<1>2. ASSUME UNCHANGED vars PROVE UNCHANGED Promise!vars
  BY <1>2 DEF vars, Promise!vars, Extents, Listed
<1>3. Inv /\ Intact /\ [Next]_vars => [A]_(Promise!vars)
  BY <1>1, <1>2
<1> QED BY <1>3, InvHolds, PTL DEF Spec, OthersUndisturbed, Promise!OthersUndisturbed

-----------------------------------------------------------------------------
(* HeapSpec itself, of any variables that obey it: blocks never overlap,   *)
(* and a step for one caller disturbs no other.                            *)

VARIABLES words, given, offered

Any == INSTANCE HeapSpec WITH mapped <- words, busy <- given, free <- offered

AnyInv == Any!TypeOK /\ Any!NoOverlap

LEMMA AnyInit == Any!Init => AnyInv
<1> SUFFICES ASSUME Any!Init PROVE AnyInv
  OBVIOUS
<1>1. CASE words = 0
  BY <1>1, HeapMaxAssumption DEF Any!Init, AnyInv, Any!TypeOK, Any!NoOverlap
<1>2. CASE words # 0
  <2>1. offered = { <<0, words>> } /\ given = {} /\ words \in 0 .. heap_max_size
    BY <1>2 DEF Any!Init
  <2>2. <<0, words>> \in Any!Extent
    BY <1>2, <2>1, HeapMaxAssumption DEF Any!Extent
  <2>3. QED
    BY <2>1, <2>2, HeapMaxAssumption DEF AnyInv, Any!TypeOK, Any!NoOverlap, Any!Extent
<1>3. QED
  BY <1>1, <1>2

\* What remains of an extent is an extent inside it, after the part taken.
LEMMA AnyRest ==
  ASSUME NEW e \in Any!Extent, NEW n \in Nat \ {0}, e[1] + n <= e[2],
         NEW r \in Any!Rest(e, n)
  PROVE  /\ r \in Any!Extent /\ r[1] = e[1] + n /\ r[2] = e[2]
BY DEF Any!Rest, Any!Extent

LEMMA AnyAlloc ==
  ASSUME AnyInv, NEW e \in offered, NEW n \in 1 .. e[2] - e[1], Any!Alloc(e, n)
  PROVE  AnyInv'
<1> DEFINE b == <<e[1], e[1] + n>>
<1>1. /\ e \in Any!Extent /\ e[1] \in Nat /\ e[2] \in Nat /\ n \in Nat \ {0}
      /\ e[1] + n <= e[2]
      /\ given' = given \cup {b}
      /\ offered' = (offered \ {e}) \cup Any!Rest(e, n)
      /\ words' = words
  BY DEF Any!Alloc, AnyInv, Any!TypeOK, Any!Extent
<1>2. b \in Any!Extent /\ b[1] = e[1] /\ b[2] = e[1] + n
  BY <1>1 DEF Any!Extent
<1>3. \A r \in Any!Rest(e, n) : r \in Any!Extent /\ r[1] = e[1] + n /\ r[2] = e[2]
  BY <1>1, AnyRest
<1>4. Any!TypeOK'
  BY <1>1, <1>2, <1>3 DEF AnyInv, Any!TypeOK
<1>5. \A x \in (given \cup offered) \ {e} :
        /\ x \in Any!Extent
        /\ Any!Apart(x, e)
        /\ Any!Apart(x, b) /\ Any!Apart(b, x) /\ x # b
        /\ \A r \in Any!Rest(e, n) : Any!Apart(x, r) /\ Any!Apart(r, x) /\ x # r
  BY <1>1, <1>2, <1>3 DEF AnyInv, Any!TypeOK, Any!NoOverlap, Any!Apart, Any!Extent
<1>6. \A r \in Any!Rest(e, n) : Any!Apart(b, r) /\ Any!Apart(r, b) /\ b # r
  BY <1>1, <1>2, <1>3 DEF Any!Apart, Any!Extent
<1>7. \A r, s \in Any!Rest(e, n) : r = s
  BY DEF Any!Rest
<1>8. Any!NoOverlap'
  <2>1. given' \cup offered' = ((given \cup offered) \ {e}) \cup {b} \cup Any!Rest(e, n)
    BY <1>1 DEF AnyInv, Any!NoOverlap
  <2>2. \A x, y \in given' \cup offered' : x # y => Any!Apart(x, y)
    <3>1. \A x, y \in (given \cup offered) \ {e} : x # y => Any!Apart(x, y)
      BY DEF AnyInv, Any!NoOverlap
    <3>2. QED
      BY <2>1, <3>1, <1>5, <1>6, <1>7
  <2>3. given' \cap offered' = {}
    BY <1>1, <1>5, <1>6 DEF AnyInv, Any!NoOverlap
  <2>4. \A x \in given' \cup offered' : x[2] <= words'
    BY <2>1, <1>1, <1>2, <1>3 DEF AnyInv, Any!NoOverlap, Any!TypeOK, Any!Extent
  <2>5. QED
    BY <2>2, <2>3, <2>4 DEF Any!NoOverlap
<1>9. QED
  BY <1>4, <1>8 DEF AnyInv

LEMMA AnyAllocGrow ==
  ASSUME AnyInv, NEW m \in 1 .. heap_max_size - words, NEW n \in 1 .. m, Any!AllocGrow(m, n)
  PROVE  AnyInv'
<1> DEFINE e == <<words, words + m>>
           b == <<words, words + n>>
<1>1. /\ words \in Nat /\ n \in Nat \ {0} /\ n <= m /\ m \in Nat
      /\ words + m \in 0 .. heap_max_size
      /\ given' = given \cup {b}
      /\ offered' = offered \cup Any!Rest(e, n)
      /\ words' = words + m
  BY HeapMaxAssumption DEF Any!AllocGrow, AnyInv, Any!TypeOK
<1>2. /\ e \in Any!Extent /\ e[1] = words /\ e[2] = words + m
      /\ b \in Any!Extent /\ b[1] = words /\ b[2] = words + n
  BY <1>1 DEF Any!Extent
<1>3. \A r \in Any!Rest(e, n) : r \in Any!Extent /\ r[1] = words + n /\ r[2] = words + m
  BY <1>1, <1>2, AnyRest
<1>4. Any!TypeOK'
  BY <1>1, <1>2, <1>3 DEF AnyInv, Any!TypeOK
<1>5. \A x \in given \cup offered :
        /\ x \in Any!Extent /\ x[2] <= words
        /\ Any!Apart(x, b) /\ Any!Apart(b, x) /\ x # b
        /\ \A r \in Any!Rest(e, n) : Any!Apart(x, r) /\ Any!Apart(r, x) /\ x # r
  BY <1>1, <1>2, <1>3 DEF AnyInv, Any!TypeOK, Any!NoOverlap, Any!Apart, Any!Extent
<1>6. \A r \in Any!Rest(e, n) : Any!Apart(b, r) /\ Any!Apart(r, b) /\ b # r
  BY <1>1, <1>2, <1>3 DEF Any!Apart, Any!Extent
<1>7. \A r, s \in Any!Rest(e, n) : r = s
  BY DEF Any!Rest
<1>8. Any!NoOverlap'
  <2>1. given' \cup offered' = (given \cup offered) \cup {b} \cup Any!Rest(e, n)
    BY <1>1
  <2>2. \A x, y \in given' \cup offered' : x # y => Any!Apart(x, y)
    <3>1. \A x, y \in given \cup offered : x # y => Any!Apart(x, y)
      BY DEF AnyInv, Any!NoOverlap
    <3>2. QED
      BY <2>1, <3>1, <1>5, <1>6, <1>7
  <2>3. given' \cap offered' = {}
    BY <1>1, <1>5, <1>6 DEF AnyInv, Any!NoOverlap
  <2>4. \A x \in given' \cup offered' : x[2] <= words'
    BY <2>1, <1>1, <1>2, <1>3, <1>5 DEF Any!TypeOK, Any!Extent
  <2>5. QED
    BY <2>2, <2>3, <2>4 DEF Any!NoOverlap
<1>9. QED
  BY <1>4, <1>8 DEF AnyInv

LEMMA AnyGrowFailed ==
  ASSUME AnyInv, NEW m \in 1 .. heap_max_size - words, Any!GrowFailed(m)
  PROVE  AnyInv'
BY HeapMaxAssumption DEF Any!GrowFailed, AnyInv, Any!TypeOK, Any!NoOverlap, Any!Apart, Any!Extent

LEMMA AnyRelease ==
  ASSUME AnyInv, NEW e \in given, NEW before \in SUBSET offered,
         NEW after \in SUBSET offered, Any!Release(e, before, after)
  PROVE  AnyInv'
<1> DEFINE others == (given \ {e}) \cup (offered \ (before \cup after))
<1>1. /\ e \in Any!Extent /\ e[1] \in Nat /\ e[2] \in Nat /\ e[1] < e[2]
      /\ \A b \in before : b[2] = e[1]
      /\ \A a \in after : a[1] = e[2]
      /\ given' = given \ {e}
      /\ words' = words /\ words \in Nat
  BY HeapMaxAssumption DEF Any!Release, AnyInv, Any!TypeOK, Any!Extent
<1>2. PICK lo \in 0 .. words, hi \in 0 .. words :
        /\ IF before = {} THEN lo = e[1] ELSE \E b \in before : lo = b[1]
        /\ IF after = {} THEN hi = e[2] ELSE \E a \in after : hi = a[2]
        /\ offered' = (offered \ (before \cup after)) \cup { <<lo, hi>> }
  BY DEF Any!Release
<1> DEFINE n == <<lo, hi>>
<1>3. \A x \in given \cup offered :
        x \in Any!Extent /\ x[1] \in Nat /\ x[2] \in Nat /\ x[1] < x[2] /\ x[2] <= words
  BY DEF AnyInv, Any!TypeOK, Any!NoOverlap, Any!Extent
<1>4. lo <= e[1] /\ e[2] <= hi /\ hi <= words
  BY <1>1, <1>2, <1>3
<1>5. n \in Any!Extent /\ n[1] = lo /\ n[2] = hi
  BY <1>1, <1>4 DEF Any!Extent
<1>6. Any!TypeOK'
  BY <1>1, <1>2, <1>5 DEF AnyInv, Any!TypeOK
<1>7. ASSUME NEW x \in others
      PROVE  x[2] <= lo \/ hi <= x[1]
  <2>1. /\ x \in given \cup offered
        /\ x # e /\ x \notin before /\ x \notin after
    BY <1>7 DEF AnyInv, Any!NoOverlap
  <2>2. x[1] \in Nat /\ x[2] \in Nat /\ x[1] < x[2]
    BY <1>3, <2>1
  <2>3. x[2] <= e[1] \/ e[2] <= x[1]
    BY <2>1 DEF AnyInv, Any!NoOverlap, Any!Apart
  <2>4. \A b \in before : x[2] <= b[1] \/ b[2] <= x[1]
    BY <2>1 DEF AnyInv, Any!NoOverlap, Any!Apart
  <2>5. \A a \in after : x[2] <= a[1] \/ a[2] <= x[1]
    BY <2>1 DEF AnyInv, Any!NoOverlap, Any!Apart
  <2>6. x[2] <= e[1] => x[2] <= lo
    <3>1. CASE before = {}
      BY <1>2, <3>1
    <3>2. CASE before # {}
      <4>1. PICK b \in before : lo = b[1]
        BY <1>2, <3>2
      <4>2. b[1] \in Nat /\ b[2] \in Nat /\ b[2] = e[1]
        BY <1>1, <1>3, <4>1
      <4>3. QED
        BY <1>1, <2>2, <2>4, <4>1, <4>2
    <3>3. QED
      BY <3>1, <3>2
  <2>7. e[2] <= x[1] => hi <= x[1]
    <3>1. CASE after = {}
      BY <1>2, <3>1
    <3>2. CASE after # {}
      <4>1. PICK a \in after : hi = a[2]
        BY <1>2, <3>2
      <4>2. a[1] \in Nat /\ a[2] \in Nat /\ a[1] = e[2]
        BY <1>1, <1>3, <4>1
      <4>3. QED
        BY <1>1, <2>2, <2>5, <4>1, <4>2
    <3>3. QED
      BY <3>1, <3>2
  <2>8. QED
    BY <2>3, <2>6, <2>7
<1>8. \A x \in others : Any!Apart(x, n) /\ Any!Apart(n, x) /\ x # n
  <2>1. \A x \in others : x[1] \in Nat /\ x[2] \in Nat /\ x[1] < x[2]
    BY <1>3
  <2>2. lo < hi
    BY <1>1, <1>4
  <2>3. QED
    BY <1>5, <1>7, <2>1, <2>2 DEF Any!Apart
<1>9. Any!NoOverlap'
  <2>1. given' \cup offered' = others \cup {n}
    BY <1>1, <1>2
  <2>2. others \subseteq given \cup offered
    OBVIOUS
  <2>3. \A x, y \in others : x # y => Any!Apart(x, y)
    BY <2>2 DEF AnyInv, Any!NoOverlap
  <2>4. \A x, y \in given' \cup offered' : x # y => Any!Apart(x, y)
    BY <2>1, <2>3, <1>8
  <2>5. given' \cap offered' = {}
    BY <1>1, <1>2, <1>8 DEF AnyInv, Any!NoOverlap
  <2>6. \A x \in given' \cup offered' : x[2] <= words'
    BY <2>1, <2>2, <1>1, <1>3, <1>4, <1>5
  <2>7. QED
    BY <2>4, <2>5, <2>6 DEF Any!NoOverlap
<1>10. QED
  BY <1>6, <1>9 DEF AnyInv

LEMMA AnyInductive == Any!Spec => []AnyInv
<1>1. AnyInv /\ UNCHANGED Any!vars => AnyInv'
  BY DEF AnyInv, Any!TypeOK, Any!NoOverlap, Any!Apart, Any!vars
<1>2. AnyInv /\ [Any!Next]_(Any!vars) => AnyInv'
  BY <1>1, AnyAlloc, AnyAllocGrow, AnyGrowFailed, AnyRelease DEF Any!Next
<1>3. QED
  BY AnyInit, <1>2, PTL DEF Any!Spec

\* Every heap that keeps to the steps of HeapSpec: blocks in use and free blocks
\* never share a word and never leave the mapped part of the heap.
THEOREM BlocksNeverOverlap == Any!Spec => [](Any!TypeOK /\ Any!NoOverlap)
BY AnyInductive, PTL DEF AnyInv

\* Every heap that keeps to the steps of HeapSpec: a step takes at most one
\* block out of use and frees its words.
THEOREM OthersKeepTheirBlocks == Any!Spec => Any!OthersUndisturbed
<1> DEFINE A == \A a, b \in given \ given' :
                  /\ a = b
                  /\ \E f \in offered' : f[1] <= a[1] /\ a[2] <= f[2]
<1>1. ASSUME AnyInv, NEW e \in given, NEW before \in SUBSET offered,
             NEW after \in SUBSET offered, Any!Release(e, before, after)
      PROVE  A
  <2>1. given \ given' = {e} /\ e[1] \in Nat /\ e[2] \in Nat
    BY <1>1 DEF Any!Release, AnyInv, Any!TypeOK, Any!Extent
  <2>2. PICK lo \in 0 .. words, hi \in 0 .. words :
          /\ IF before = {} THEN lo = e[1] ELSE \E b \in before : lo = b[1]
          /\ IF after = {} THEN hi = e[2] ELSE \E a \in after : hi = a[2]
          /\ offered' = (offered \ (before \cup after)) \cup { <<lo, hi>> }
    BY <1>1 DEF Any!Release
  <2>3. \A b \in before : b[1] \in Nat /\ b[2] = e[1] /\ b[1] < b[2]
    BY <1>1 DEF Any!Release, AnyInv, Any!TypeOK, Any!Extent
  <2>4. \A a \in after : a[2] \in Nat /\ a[1] = e[2] /\ a[1] < a[2]
    BY <1>1 DEF Any!Release, AnyInv, Any!TypeOK, Any!Extent
  <2>5. lo <= e[1] /\ e[2] <= hi
    BY <2>1, <2>2, <2>3, <2>4
  <2>6. <<lo, hi>> \in offered'
    BY <2>2
  <2>7. QED
    BY <2>1, <2>5, <2>6
<1>2. AnyInv /\ [Any!Next]_(Any!vars) => [A]_(Any!vars)
  BY <1>1 DEF Any!Next, Any!Alloc, Any!AllocGrow, Any!GrowFailed, Any!vars
<1>3. QED
  BY AnyInductive, <1>2, PTL DEF Any!Spec, Any!OthersUndisturbed
=============================================================================
