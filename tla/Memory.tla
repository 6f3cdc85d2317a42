------------------------------- MODULE Memory -------------------------------
(***************************************************************************)
(* Physical memory from the boot on: mem_init (module MemLayout) makes     *)
(* the regions and bitmaps of the boot loader's memory map, and the page   *)
(* allocator (module Pmm) works on what it left.  A map that mem_init      *)
(* panics on never reaches the allocator.                                  *)
(***************************************************************************)
EXTENDS Pmm, MemLayout

CONSTANTS
  Maps,      \* the memory maps: sequences of [start, end, available]
  Followed   \* bound: the maps whose allocations are followed

VARIABLES
  memmap,
  phys       \* the regions in bytes: where each begins, its pages and its bitmap

\* The maps the kernel boots with, and what the allocator may then start on.
Booting == {m \in Maps : Boots(Regions(m))}
BootLayouts == {LayoutOf(Regions(m)) : m \in Booting}

\* mem_init has returned.
MemInit ==
  /\ memmap \in Booting
  /\ phys = [i \in 1..Len(Regions(memmap)) |->
               [region |-> Regions(memmap)[i],
                bitmap |-> BitmapPhys(Regions(memmap), i),
                reserved |-> ReservedPages(Regions(memmap), i)]]
  /\ regions = LayoutOf(Regions(memmap))
  /\ Init

MemNext ==
  /\ memmap \in Followed
  /\ Next
  /\ UNCHANGED <<memmap, phys>>

MemSpec == MemInit /\ [][MemNext]_<<vars, memmap, phys>>

-----------------------------------------------------------------------------
(* Properties. *)

Bytes(x, n) == x..x + n - 1
Extent(f) == Bytes(f.region.start, f.region.total_pages * PageSize)
BitmapOf(f) == Bytes(f.bitmap, BitmapBytes(f.region))
Kernel == KernelStart..KernelEnd - 1
Available ==
  UNION {memmap[k].start..memmap[k].end - 1 : k \in {k \in 1..Len(memmap) : memmap[k].available}}

\* A page that pmm_alloc_page or pmm_alloc_pages hands out, whatever was
\* allocated and freed before, holds no byte of the kernel and no byte of a
\* bitmap, and the boot loader called all of it available: what its owner
\* writes there cannot change what the allocator believes.
HandedOutClean ==
  \A a \in held :
    LET page == Bytes(a * PageSize, PageSize)
    IN  /\ page \cap Kernel = {}
        /\ page \subseteq Available
        /\ \A i \in 1..Len(phys) : page \cap BitmapOf(phys[i]) = {}
=============================================================================
