----------------------------- MODULE MemLayout -----------------------------
(***************************************************************************)
(* What mem_init makes of the boot loader's memory map: arch_mem_init      *)
(* (arch/x86_64/hal.c) turns the available entries into page-aligned       *)
(* regions that avoid the kernel, setup_bitmaps (kernel/mem.c) places the  *)
(* bitmaps of all regions at the start of one low region and reserves      *)
(* their pages.  Addresses are bytes; sizes are parameters.                *)
(***************************************************************************)
EXTENDS Integers, Sequences

LOCAL INSTANCE SequencesExt

CONSTANTS
  PageSize,      \* 4096
  BitsPerByte,   \* 8: pages one byte of a bitmap stands for
  MetaLimit,     \* META_REGION_LIMIT
  MaxRegions,    \* MAX_PMM_REGIONS
  KernelStart, KernelEnd

AlignUp(x, n) == ((x + n - 1) \div n) * n
AlignDown(x, n) == (x \div n) * n

\* The part of an available entry that arch_mem_init passes on.
Start(e) ==
  AlignUp(IF e.start < KernelEnd /\ e.end > KernelStart THEN KernelEnd ELSE e.start,
          PageSize)
End(e) == AlignDown(e.end, PageSize)
Kept(e) == e.available /\ e.end > KernelStart /\ End(e) > Start(e)

\* The regions of memory map m, in the order of its entries.
Regions(m) ==
  LET K == SelectSeq(m, Kept)
  IN  [i \in 1..Len(K) |->
        [start |-> Start(K[i]), end |-> End(K[i]),
         total_pages |-> (End(K[i]) - Start(K[i])) \div PageSize]]

\* The bytes of region r's bitmap.
BitmapBytes(r) == AlignUp(r.total_pages, BitsPerByte) \div BitsPerByte

\* The bytes of the bitmaps of R[1] to R[n].
BytesUpTo(R, n) == FoldLeft(LAMBDA sum, r : sum + BitmapBytes(r), 0, SubSeq(R, 1, n))

\* The regions that can hold all bitmaps; the lowest one does.
MetaCandidates(R) ==
  {i \in 1..Len(R) : /\ R[i].start < MetaLimit
                     /\ R[i].end - R[i].start >= BytesUpTo(R, Len(R))}
Meta(R) ==
  CHOOSE i \in MetaCandidates(R) :
    \A j \in MetaCandidates(R) : R[i].start <= R[j].start

\* Where the bitmap of R[i] begins.
BitmapPhys(R, i) == R[Meta(R)].start + BytesUpTo(R, i - 1)

\* Mutant: the last, incomplete page of bitmaps is not reserved.
ReservedRoundedDown(R, i) ==
  IF i = Meta(R) THEN BytesUpTo(R, Len(R)) \div PageSize ELSE 0

\* The pages reserved at the start of R[i].
ReservedPages(R, i) ==
  IF i = Meta(R) THEN AlignUp(BytesUpTo(R, Len(R)), PageSize) \div PageSize ELSE 0

ManagedPages(R) ==
  FoldLeft(LAMBDA sum, i : sum + R[i].total_pages - ReservedPages(R, i), 0,
           [i \in 1..Len(R) |-> i])

\* mem_init succeeds: none of its panics.
Boots(R) ==
  /\ Len(R) \in 1..MaxRegions
  /\ MetaCandidates(R) # {}
  /\ ManagedPages(R) > 0

\* The layout the allocator of module Pmm works on, in pages.
LayoutOf(R) ==
  [r \in 0..Len(R) - 1 |->
    [start |-> R[r + 1].start \div PageSize,
     total_pages |-> R[r + 1].total_pages,
     reserved_pages |-> ReservedPages(R, r + 1)]]
=============================================================================
