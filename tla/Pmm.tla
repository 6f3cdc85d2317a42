-------------------------------- MODULE Pmm --------------------------------
(***************************************************************************)
(* The physical page allocator of NeptuneOS (kernel/mem.c) once mem_init   *)
(* is done: the regions with their bitmaps, the next-fit cursor and the    *)
(* page counters.  Addresses count pages: arch_mem_init aligns regions to  *)
(* pages (module MemLayout), and pmm_free_page drops the rest of an        *)
(* address.  Every operation holds pmm_lock with interrupts off from       *)
(* beginning to end and is one step.                                       *)
(***************************************************************************)
EXTENDS Integers, FiniteSets

CONSTANTS
  Layouts,    \* what mem_init may leave in regions
  MaxPages,   \* bound: the largest n of pmm_alloc_pages
  Addr        \* bound: the addresses passed to pmm_free_page

\* A layout: regions 0..region_count - 1 that do not overlap.
Layout(L) ==
  LET n == Cardinality(DOMAIN L)
  IN  /\ n \in Nat \ {0}
      /\ L \in [0..n - 1 -> [start : Nat, total_pages : Nat, reserved_pages : Nat]]
      /\ \A r \in 0..n - 1 : L[r].reserved_pages <= L[r].total_pages
      /\ \A r, s \in 0..n - 1 : r # s =>
           \/ L[r].start + L[r].total_pages <= L[s].start
           \/ L[s].start + L[s].total_pages <= L[r].start

ASSUME PmmAssumption ==
  /\ \A L \in Layouts : Layout(L)
  /\ MaxPages \in Nat /\ Addr \subseteq Nat

VARIABLES
  regions,
  bitmap,         \* the set bits of all bitmaps: <<region, page>>
  used_pages,
  cursor_region,  \* pmm_cursor_region
  cursor_page,    \* pmm_cursor_page_idx
  held,           \* history: the page addresses handed out and not freed
  panicked        \* why the kernel stopped, or "no"

vars == <<regions, bitmap, used_pages, cursor_region, cursor_page, held, panicked>>

Region == DOMAIN regions
Pages(r) == 0..regions[r].total_pages - 1
Reserved == UNION {{r} \X (0..regions[r].reserved_pages - 1) : r \in Region}
AddrOf(r, p) == regions[r].start + p

\* The pages of region r with a clear bit, besides the reserved ones.
FreeIn(r) == {p \in Pages(r) : p >= regions[r].reserved_pages /\ <<r, p>> \notin bitmap}

Panic(why) ==
  /\ panicked' = why
  /\ UNCHANGED <<regions, bitmap, used_pages, cursor_region, cursor_page, held>>

-----------------------------------------------------------------------------
\* The region pmm_alloc_page visits in its turn i = 0, 1, ...
Visited(i) == (cursor_region + i) % Cardinality(Region)

\* Where the search in region r begins (p_current): at the cursor in the
\* cursor's region, unless the cursor is out of range.
From(r) ==
  IF r = cursor_region /\ cursor_page \in regions[r].reserved_pages..regions[r].total_pages - 1
  THEN cursor_page ELSE regions[r].reserved_pages

\* The clear bits the first loop over region r meets: up to its last page.
ToTheEnd(r) == {p \in From(r)..regions[r].total_pages - 1 : <<r, p>> \notin bitmap}

\* Mutant: the search does not wrap around.
WrapsNever(r) == {}

\* The second loop, in the cursor's region only: the pages before the cursor.
Wrapped(r) ==
  {p \in regions[r].reserved_pages..From(r) - 1 : r = cursor_region /\ <<r, p>> \notin bitmap}

\* The visit of region r ends with page p: the first clear bit of the first
\* loop, or else of the second.  A region of metadata only is passed over.
FindsPage(r, p) ==
  /\ regions[r].total_pages > regions[r].reserved_pages
  /\ IF ToTheEnd(r) # {} THEN p \in ToTheEnd(r) /\ \A q \in ToTheEnd(r) : p <= q
                         ELSE p \in Wrapped(r) /\ \A q \in Wrapped(r) : p <= q

\* The visit of region r ends without a page.
FindsNone(r) ==
  regions[r].total_pages > regions[r].reserved_pages => ToTheEnd(r) = {} /\ Wrapped(r) = {}

Turns == 0..Cardinality(Region) - 1

\* Mutant: the bit of the page is not set.
AllocPageUnmarked(i, p) ==
  LET r == Visited(i)
  IN  /\ panicked = "no"
      /\ \A j \in Turns : j < i => FindsNone(Visited(j))
      /\ FindsPage(r, p)
      /\ used_pages' = used_pages + 1
      /\ cursor_region' = r
      /\ cursor_page' = p + 1
      /\ held' = held \cup {AddrOf(r, p)}
      /\ UNCHANGED <<regions, bitmap, panicked>>

\* pmm_alloc_page finds page p in turn i.
AllocPage(i, p) ==
  LET r == Visited(i)
  IN  /\ panicked = "no"
      /\ \A j \in Turns : j < i => FindsNone(Visited(j))
      /\ FindsPage(r, p)
      /\ bitmap' = bitmap \cup {<<r, p>>}
      /\ used_pages' = used_pages + 1
      /\ cursor_region' = r
      /\ cursor_page' = p + 1
      /\ held' = held \cup {AddrOf(r, p)}
      /\ UNCHANGED <<regions, panicked>>

\* The loop over the turns ends without a page.
OutOfMemory ==
  /\ panicked = "no"
  /\ \A i \in Turns : FindsNone(Visited(i))
  /\ Panic("out_of_memory")

\* The starts of n free pages in a row that pmm_alloc_pages considers: it
\* skips a region that has no more than n pages besides the reserved ones.
Runs(r, n) ==
  {p \in FreeIn(r) : /\ regions[r].total_pages > regions[r].reserved_pages + n
                     /\ p..p + n - 1 \subseteq FreeIn(r)}

\* pmm_alloc_pages finds its first run (n > 1; one page is pmm_alloc_page).
AllocPages(n, r, p) ==
  /\ panicked = "no"
  /\ p \in Runs(r, n)
  /\ \A s \in Region : s < r => Runs(s, n) = {}
  /\ \A q \in Runs(r, n) : p <= q
  /\ bitmap' = bitmap \cup ({r} \X (p..p + n - 1))
  /\ used_pages' = used_pages + n
  /\ held' = held \cup {AddrOf(r, q) : q \in p..p + n - 1}
  /\ UNCHANGED <<regions, cursor_region, cursor_page, panicked>>

NoRun(n) ==
  /\ panicked = "no"
  /\ \A r \in Region : Runs(r, n) = {}
  /\ Panic("no_run")

\* find_region takes the first region that contains address a.
Contains(r, a) ==
  a >= regions[r].start /\ a < regions[r].start + regions[r].total_pages

\* pmm_free_page finds that address a is an allocated page of region r.
PageAt(r, a) ==
  /\ Contains(r, a) /\ \A s \in Region : s < r => ~Contains(s, a)
  /\ a - regions[r].start >= regions[r].reserved_pages
  /\ <<r, a - regions[r].start>> \in bitmap

FreePage(a) ==
  /\ panicked = "no"
  /\ \E r \in Region : /\ PageAt(r, a)
                       /\ bitmap' = bitmap \ {<<r, a - regions[r].start>>}
  /\ used_pages' = used_pages - 1
  /\ held' = held \ {a}
  /\ UNCHANGED <<regions, cursor_region, cursor_page, panicked>>

\* Its panics: no such page, metadata, or a page that is not allocated.
FreePanics(a) ==
  /\ panicked = "no"
  /\ \A r \in Region : ~PageAt(r, a)
  /\ Panic("bad_free")

\* setup_bitmaps has marked the reserved pages.
Init ==
  /\ regions \in Layouts
  /\ bitmap = Reserved
  /\ used_pages = Cardinality(Reserved)
  /\ cursor_region = 0 /\ cursor_page = 0
  /\ held = {}
  /\ panicked = "no"

Next ==
  \/ \E i \in Turns : \E p \in Pages(Visited(i)) : AllocPage(i, p)
  \/ OutOfMemory
  \/ \E n \in 2..MaxPages :
       NoRun(n) \/ \E r \in Region : \E p \in Pages(r) : AllocPages(n, r, p)
  \/ \E a \in Addr : FreePage(a) \/ FreePanics(a)

Spec == Init /\ [][Next]_vars

-----------------------------------------------------------------------------
(* Properties. *)

\* Types: bits are bits of pages that exist, the cursor names a region.
TypeOK ==
  /\ regions \in Layouts
  /\ bitmap \subseteq UNION {{r} \X Pages(r) : r \in Region}
  /\ used_pages \in Nat
  /\ cursor_region \in Region /\ cursor_page \in Nat
  /\ held \subseteq Nat
  /\ panicked \in {"no", "out_of_memory",
                   "no_run", "bad_free"}

\* A bit is set for the metadata and for the pages handed out, and for no
\* other; no metadata page is ever handed out.
BitmapExact ==
  /\ \A r \in Region : \A p \in Pages(r) :
       <<r, p>> \in bitmap <=> (p < regions[r].reserved_pages \/ AddrOf(r, p) \in held)
  /\ \A a \in held : \E r \in Region : \E p \in Pages(r) :
       p >= regions[r].reserved_pages /\ a = AddrOf(r, p)

\* used_pages counts the metadata and the pages handed out: no page is given
\* to two owners, and giving back what was taken restores the count (the
\* self-test of kernel_main panics with "Allocator leak detected" otherwise).
UsedExact ==
  /\ IsFiniteSet(held)
  /\ used_pages = Cardinality(Reserved) + Cardinality(held)

\* pmm_free_page panics exactly on a page that is not handed out: it finds
\* the right region and bit for every page the allocator gave away.
FreeExact ==
  \A a \in Addr : (\E r \in Region : PageAt(r, a)) <=> a \in held

\* pmm_alloc_page panics only when every page it manages is handed out: the
\* turns come to every region and the two loops to every page of it, wherever
\* the cursor stands, also past the end of its region.
OutOfMemoryIsReal ==
  panicked = "out_of_memory" =>
    \A r \in Region : \A p \in Pages(r) :
      p >= regions[r].reserved_pages => AddrOf(r, p) \in held
=============================================================================
