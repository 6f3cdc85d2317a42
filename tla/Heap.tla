-------------------------------- MODULE Heap --------------------------------
(***************************************************************************)
(* The kernel heap of kernel/heap.c: a bump allocator over pages mapped on *)
(* demand, free lists per slab class, and a sorted, coalescing free list   *)
(* of large blocks.  kalloc and kfree hold heap_lock with interrupts off,  *)
(* so each is one step.                                                    *)
(*                                                                         *)
(* Addresses and sizes count words of 8 bytes (every request of the kernel *)
(* is a multiple of one), from HEAP_BASE.  A header is 3 words; the first  *)
(* of them is class_idx while the block is in use and the next pointer     *)
(* while it is free.  The counters of kheap_get_stats are left out.        *)
(***************************************************************************)
EXTENDS Integers, SequencesExt, FiniteSets

CONSTANTS
  Classes,  \* slab_classes, in words, increasing
  Page,     \* words of a page
  MaxHeap,  \* bound: pmm_alloc_page panics past this address
  Sizes,    \* the sizes that callers of kalloc ask for
  Aligns    \* the alignments, after raising to 16 bytes

HdrSize == 3        \* HEAP_HDR_SIZE
PayloadOffset == 4  \* HEAP_PAYLOAD_OFFSET
MinAlign == 2
SplitMin == PayloadOffset + 4  \* large_split_min
LARGE == -1         \* LARGE_CLASS
NULL == 0

Class == 0 .. Len(Classes) - 1
ClassSize(c) == Classes[c + 1]

\* The smallest address kheap_init hands out; below it no pointer is valid.
Base == Page

\* Sizes of which the words between HdrSize and PayloadOffset decide the class
\* are left out: only the self-test of kernel.c asks for one (40 bytes) and it
\* does not write to it.
ASSUME HeapAssumption ==
  /\ Classes # <<>> /\ \A c \in Class : ClassSize(c) % MinAlign = 0
  /\ \A c \in Class : c # 0 => ClassSize(c - 1) < ClassSize(c)
  /\ Page % MinAlign = 0 /\ Page > Len(Classes)
  /\ MaxHeap \in Nat
  /\ Sizes \subseteq Nat \ ({0} \cup {ClassSize(c) - HdrSize : c \in Class})
  /\ \A a \in Aligns : a % MinAlign = 0 /\ a > 0

VARIABLES
  heap_cur, heap_end,
  free_lists,     \* per class, the addresses of its free blocks
  free_large,     \* list of [addr, size]
  frees_enabled,
  hdr,            \* headers of blocks in use and on slab lists
  live            \* what callers hold: block address -> size asked for

vars == <<heap_cur, heap_end, free_lists, free_large, frees_enabled, hdr, live>>

Addr == Base .. MaxHeap
Node == [addr : Addr, size : 1 .. MaxHeap]
Header == [class_idx : Class \cup {LARGE} \cup Addr, size : 1 .. MaxHeap]

Init ==
  /\ heap_cur = Base
  /\ heap_end = Base + Page
  /\ free_lists = [c \in Class |-> <<>>]
  /\ free_large = <<>>
  /\ frees_enabled = FALSE
  /\ hdr = <<>>
  /\ live = <<>>

\* f with x mapped to y.
With(f, x, y) == [z \in DOMAIN f \cup {x} |-> IF z = x THEN y ELSE f[z]]

Without(f, x) == [z \in DOMAIN f \ {x} |-> f[z]]

\* align_up_uint.
AlignUp(n, a) == ((n + a - 1) \div a) * a

\* Where a block starts so that its payload is aligned.
PayloadAlign(n, a) == AlignUp(n + PayloadOffset, a) - PayloadOffset

End(n) == n.addr + n.size
-----------------------------------------------------------------------------
(* The list of large blocks.                                               *)

\* Node i absorbs its successor when it ends where that begins.
Coalesce(list, i) ==
  IF i < Len(list) /\ End(list[i]) = list[i + 1].addr
  THEN [RemoveAt(list, i + 1) EXCEPT ![i].size = @ + list[i + 1].size]
  ELSE list

\* Where the scan for an address stops.
Position(list, addr) ==
  CHOOSE i \in 1 .. Len(list) + 1 :
    /\ \A j \in 1 .. i - 1 : list[j].addr < addr
    /\ i <= Len(list) => list[i].addr >= addr

\* insert_large_node.
InsertNode(list, node) ==
  LET i == Position(list, node.addr)
      l == Coalesce(InsertAt(list, i, node), i)
  IN  IF i > 1 /\ End(l[i - 1]) = node.addr
      THEN Coalesce(Coalesce(l, i - 1), i - 1)
      ELSE l

\* insert_large_fragment; a fragment that is too small is lost.
InsertFragment(list, addr, size) ==
  IF size < SplitMin THEN list
  ELSE InsertNode(list, [addr |-> addr, size |-> size])
-----------------------------------------------------------------------------
(* Allocation.                                                             *)

TotalNeed(size) == size + PayloadOffset

\* Large blocks that hold size words with this alignment, by index.
Fitting(size, align) ==
  {i \in DOMAIN free_large :
     /\ free_large[i].size >= TotalNeed(size)
     /\ PayloadAlign(free_large[i].addr, align) + TotalNeed(size) <= End(free_large[i])}

\* pick_slab_class: the first class that is large enough, if any.
PickSlabClass(size, align) ==
  LET enough(c) == ClassSize(c) >= size + HdrSize /\ ClassSize(c) >= align
  IN  {c \in Class : enough(c) /\ \A d \in Class : d < c => ~enough(d)}

\* ensure_space, with map_next_page until need words from start on are mapped.
EnsureSpace(start, need) ==
  /\ start + need <= MaxHeap
  /\ heap_end' = IF start + need > heap_end THEN AlignUp(start + need, Page) ELSE heap_end

\* The caller gets the block at addr.
Hand(addr, size) == live' = With(live, addr, size)

\* kalloc from the first large block that fits, whatever the size; what is
\* left of it before and behind goes back to the list.
AllocLarge(size, align) ==
  /\ Fitting(size, align) # {}
  /\ LET i == CHOOSE i \in Fitting(size, align) : \A j \in Fitting(size, align) : i <= j
         node == free_large[i]
         start == PayloadAlign(node.addr, align)
         rest == start + TotalNeed(size)
     IN  /\ free_large' = InsertFragment(
                            InsertFragment(RemoveAt(free_large, i), node.addr, start - node.addr),
                            rest, End(node) - rest)
         /\ hdr' = With(hdr, start, [class_idx |-> LARGE, size |-> TotalNeed(size)])
         /\ Hand(start, size)
  /\ UNCHANGED <<heap_cur, heap_end, free_lists, frees_enabled>>

\* Mutant of AllocReuse: the block stays on the list.
AllocReuseKeeps(size, align) ==
  /\ Fitting(size, align) = {}
  /\ \E c \in PickSlabClass(size, align) :
       free_lists[c] # <<>> /\ Hand(Head(free_lists[c]), size)
  /\ UNCHANGED <<heap_cur, heap_end, free_lists, free_large, frees_enabled, hdr>>

\* kalloc from the free list of a class.  The header is not written again.
AllocReuse(size, align) ==
  /\ Fitting(size, align) = {}
  /\ \E c \in PickSlabClass(size, align) :
       /\ free_lists[c] # <<>>
       /\ free_lists' = [free_lists EXCEPT ![c] = Tail(@)]
       /\ Hand(Head(free_lists[c]), size)
  /\ UNCHANGED <<heap_cur, heap_end, free_large, frees_enabled, hdr>>

\* Mutant of AllocSlab: heap_cur moves on by the size asked for.
AllocSlabShort(size, align) ==
  /\ Fitting(size, align) = {}
  /\ \E c \in PickSlabClass(size, align) :
       LET block == AlignUp(heap_cur, align)
       IN  /\ free_lists[c] = <<>>
           /\ EnsureSpace(block, ClassSize(c))
           /\ heap_cur' = block + size
           /\ hdr' = With(hdr, block, [class_idx |-> c, size |-> ClassSize(c)])
           /\ Hand(block, size)
  /\ UNCHANGED <<free_lists, free_large, frees_enabled>>

\* kalloc of a new block of a class.
AllocSlab(size, align) ==
  /\ Fitting(size, align) = {}
  /\ \E c \in PickSlabClass(size, align) :
       LET block == AlignUp(heap_cur, align)
       IN  /\ free_lists[c] = <<>>
           /\ EnsureSpace(block, ClassSize(c))
           /\ heap_cur' = block + ClassSize(c)
           /\ hdr' = With(hdr, block, [class_idx |-> c, size |-> ClassSize(c)])
           /\ Hand(block, size)
  /\ UNCHANGED <<free_lists, free_large, frees_enabled>>

\* kalloc of a new block above all classes.
AllocBump(size, align) ==
  /\ Fitting(size, align) = {}
  /\ PickSlabClass(size, align) = {}
  /\ LET block == PayloadAlign(heap_cur, align)
     IN  /\ EnsureSpace(block, TotalNeed(size))
         /\ heap_cur' = block + TotalNeed(size)
         /\ hdr' = With(hdr, block, [class_idx |-> LARGE, size |-> TotalNeed(size)])
         /\ Hand(block, size)
  /\ UNCHANGED <<free_lists, free_large, frees_enabled>>

Kalloc(size, align) ==
  \/ AllocLarge(size, align)
  \/ AllocReuse(size, align)
  \/ AllocSlab(size, align)
  \/ AllocBump(size, align)
-----------------------------------------------------------------------------
(* Freeing.  A caller frees what it holds, once.                           *)

\* kfree before kalloc_enable_frees, or with a class_idx that is no class:
\* the block is lost.
FreeIgnored(block) ==
  /\ ~frees_enabled \/ hdr[block].class_idx \notin Class \cup {LARGE}
  /\ hdr' = Without(hdr, block)
  /\ UNCHANGED <<free_lists, free_large>>

FreeLarge(block) ==
  /\ frees_enabled /\ hdr[block].class_idx = LARGE
  /\ free_large' = InsertNode(free_large, [addr |-> block, size |-> hdr[block].size])
  /\ hdr' = Without(hdr, block)
  /\ UNCHANGED free_lists

\* Mutant of FreeSlab: a block of any class is taken for one of the last.
FreeSlabLast(block) ==
  /\ frees_enabled /\ hdr[block].class_idx \in Class
  /\ LET c == Len(Classes) - 1
     IN  /\ free_lists' = [free_lists EXCEPT ![c] = <<block>> \o @]
         /\ hdr' = [hdr EXCEPT ![block].class_idx =
                      IF free_lists[c] = <<>> THEN NULL ELSE Head(free_lists[c])]
  /\ UNCHANGED free_large

\* A block goes to the list its header names; the next pointer of a free block
\* lies where class_idx did.
FreeSlab(block) ==
  /\ frees_enabled /\ hdr[block].class_idx \in Class
  /\ LET c == hdr[block].class_idx
     IN  /\ free_lists' = [free_lists EXCEPT ![c] = <<block>> \o @]
         /\ hdr' = [hdr EXCEPT ![block].class_idx =
                      IF free_lists[c] = <<>> THEN NULL ELSE Head(free_lists[c])]
  /\ UNCHANGED free_large

Kfree(block) ==
  /\ FreeIgnored(block) \/ FreeLarge(block) \/ FreeSlab(block)
  /\ live' = Without(live, block)
  /\ UNCHANGED <<heap_cur, heap_end, frees_enabled>>

\* kalloc_enable_frees.
EnableFrees ==
  /\ ~frees_enabled
  /\ frees_enabled' = TRUE
  /\ UNCHANGED <<heap_cur, heap_end, free_lists, free_large, hdr, live>>

Next ==
  \/ \E size \in Sizes, align \in Aligns : Kalloc(size, align)
  \/ \E block \in DOMAIN live : Kfree(block)
  \/ EnableFrees

Spec == Init /\ [][Next]_vars
-----------------------------------------------------------------------------
(* Properties.                                                             *)

OnSlabList(c) == ToSet(free_lists[c])

\* The words of the blocks in use and on slab lists, and of the large free ones.
Blocks ==
  {[addr |-> a, size |-> hdr[a].size] : a \in DOMAIN hdr} \cup ToSet(free_large)

\* Blocks in use, free slab blocks and free large blocks never overlap and lie
\* below heap_cur, after any order of splits, merges, reuses and frees; and the
\* list of large blocks is in order with no two of them adjacent, as
\* kheap_verify wants it.
BlocksApart ==
  /\ \A b \in Blocks : Base <= b.addr /\ End(b) <= heap_cur
  /\ \A b, d \in Blocks : b # d => End(b) <= d.addr \/ End(d) <= b.addr
  /\ \A i \in 1 .. Len(free_large) - 1 : End(free_large[i]) < free_large[i + 1].addr

\* A block is in one place: in use, or once on one free list; kalloc never
\* returns a block that somebody holds.
OnePlace ==
  /\ \A c \in Class : IsInjective(free_lists[c]) /\ OnSlabList(c) \cap DOMAIN live = {}
  /\ \A c, d \in Class : c # d => OnSlabList(c) \cap OnSlabList(d) = {}
  /\ DOMAIN hdr = DOMAIN live \cup UNION {OnSlabList(c) : c \in Class}

\* What a caller asked for lies within its block, also when the block was freed
\* to the list of another class than its own, and the payload is aligned to 16
\* bytes, also when it is cut from a fragment that is not.
HoldsRequest ==
  \A a \in DOMAIN live :
    /\ TotalNeed(live[a]) <= hdr[a].size
    /\ (a + PayloadOffset) % MinAlign = 0

\* kheap_verify: the free list of a class holds blocks of that class ("check
\* slab free lists for canonical addresses and sane sizes").
SlabListsSane ==
  \A c \in Class : \A a \in OnSlabList(c) : hdr[a].size = ClassSize(c)
=============================================================================
