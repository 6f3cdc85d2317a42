--------------------------- MODULE MCPageTables ---------------------------
(***************************************************************************)
(* Instances of PageTables for TLC.                                        *)
(***************************************************************************)
EXTENDS PageTables

\* boot.s' tables lie below the higher-half sections.
BootTables ==
  [pml4_table |-> 1, pdpt_identity |-> 2, pdpt_higher |-> 3,
   pd_identity |-> 4, pd_higher |-> 5, pd_higher_extra |-> 6]

\* .text takes two pages, the other sections one.
KernelSections ==
  << [first |-> 7, pages |-> 2, flags |-> {}],
     [first |-> 9, pages |-> 1, flags |-> {"NX"}],
     [first |-> 10, pages |-> 1, flags |-> {"W", "NX"}],
     [first |-> 11, pages |-> 1, flags |-> {"W", "NX"}] >>

\* Code at the bottom of the address space, a stack at the top of the half.
ProgramPages == {33, 180}
GrowingPages == {179, 180}

\* Both ends of every table in use, the kernel's sections, the frames handed
\* out under the direct map and the higher half, the heap, the programs'
\* pages and their neighbours.
WatchedPages ==
  {0, 7, 8, 31, 32, 33, 34, 179, 180, 181} \cup (71..75)
    \cup {HHDM_BASE + p : p \in {0, 7, 8, 24, 31, 32, 34, 39, 40}}
    \cup {HEAP_BASE + p : p \in {0, 1, 2, 3, 7, 8}}
    \cup {HIGHER_HALF_BASE + p : p \in (6..12) \cup (15..24) \cup {0, 31, 32}}

\* Code, constants, and data or stack.
ProgramFlags == {{}, {"NX"}, {"W", "NX"}}
=============================================================================
