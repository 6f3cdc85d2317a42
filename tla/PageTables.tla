----------------------------- MODULE PageTables -----------------------------
(***************************************************************************)
(* The four-level page tables of NeptuneOS: what boot.s sets up, what      *)
(* arch/x86_64/mmu.c builds on it during kernel_main, the growth of the    *)
(* heap and of address spaces afterwards, and the page faults of idt.c     *)
(* that grow a stack or copy a page on write.                              *)
(*                                                                         *)
(* Virtual and physical addresses count pages.  A table is the function    *)
(* from the indexes of its present entries to the entries; an entry names  *)
(* a page and carries flags.  pmm_alloc_page hands pages out upwards and   *)
(* nothing gives one back.  The global bit and the TLB are left out.  Each *)
(* operation is one step: the boot is alone, and later calls come from     *)
(* threads that are not preempted in the kernel.                           *)
(***************************************************************************)
EXTENDS Integers, Sequences, SequencesExt

CONSTANTS
  Pml4Len, PdptLen, PdLen, PtLen,  \* entries of a table, 512 in the code
  RamTop,     \* pages of RAM
  KernelEnd,  \* the first page the allocator may hand out
  Tables,     \* the pages of boot.s' tables, by name
  Sections,   \* pages and permissions of .text, .rodata, .data and .bss
  UserPages,  \* lower-half pages programs use
  UserFlags,  \* flag sets the loader asks for
  StackPages, \* those of them below USER_STACK_TOP
  Watched,    \* bound: virtual pages whose translation is followed
  MaxSpaces   \* bound: address spaces

Pages2M == PtLen
Pages1G == PdLen * Pages2M
Pages512G == PdptLen * Pages1G
VirtTop == Pml4Len * Pages512G
Half == (Pml4Len \div 2) * Pages512G

HHDM_BASE == Half
HEAP_BASE == Half + Pages512G
HIGHER_HALF_BASE == VirtTop - 2 * Pages1G

Flag == {"W", "U", "NX", "PS", "COW"}

ASSUME PageTablesAssumption ==
  /\ {Pml4Len, PdptLen, PdLen, PtLen} \subseteq Nat \ {0, 1}
  /\ Pml4Len % 2 = 0 /\ Pml4Len >= 6 /\ PdptLen % 2 = 0
  /\ RamTop \in Nat /\ RamTop <= Pages512G /\ KernelEnd \in 1..Pages1G
  /\ \A n \in DOMAIN Tables : Tables[n] \in 1..KernelEnd - 1
  /\ UserPages \cup StackPages \subseteq 0..Half - 1 /\ Watched \subseteq 0..VirtTop - 1

VARIABLES
  mem,       \* [tab: the tables, next: the allocator's cursor,
             \*  halt: why the kernel has stopped, or "no"]
  heap_end,  \* heap.c
  spaces,    \* pml4_phys of the user spaces, in the order of creation
  zero_phys, \* get_zero_page's page, 0 before it is needed
  stage,     \* how far kernel_main has come
  tr         \* history: what the processor makes of the tables

pml4_index(v) == (v \div Pages512G) % Pml4Len
pdpt_index(v) == (v \div Pages1G) % PdptLen
pd_index(v) == (v \div Pages2M) % PdLen
pt_index(v) == v % PtLen

Entry(page, flags) == [to |-> page, fl |-> flags]

phys_to_higher_half(p) == (p + HIGHER_HALF_BASE) % VirtTop

phys_to_hhdm(p) == (p + HHDM_BASE) % VirtTop

\* Every address of the upper half counts as one of the direct map.
virt_to_phys(v) == IF v >= HHDM_BASE THEN v - HHDM_BASE
                   ELSE (v - HIGHER_HALF_BASE) % VirtTop

-----------------------------------------------------------------------------
(* Tables.  The operations take the record mem and return the new one.     *)

Halted(m, why) == [m EXCEPT !.halt = why]

\* pmm_alloc_page panics when the memory is used up.
pmm_alloc_page(m) ==
  IF m.next >= RamTop THEN Halted(m, "panic") ELSE [m EXCEPT !.next = @ + 1]

\* A new table behind entry i of table t.  table_ptr reaches the first GiB;
\* clearing a page beyond faults.
NewTable(m, t, i, contents, flags) ==
  LET a == pmm_alloc_page(m) IN
  IF a.halt # "no" THEN a
  ELSE IF m.next >= Pages1G THEN Halted(a, "fault")
  ELSE [a EXCEPT !.tab = (t :> ((i :> Entry(m.next, flags)) @@ m.tab[t]))
                           @@ (m.next :> contents) @@ m.tab]

\* The 4 KiB entries a 2 MiB entry is split into.
Split(e) == [j \in 0..PtLen - 1 |-> Entry(e.to + j, e.fl \ {"PS", "COW"})]

\* An entry's page is taken with & ~0xFFF, which leaves NX in the address:
\* following such an entry faults.
ensure_table(m, t, i, flags) ==
  IF i \notin DOMAIN m.tab[t]
    THEN NewTable(m, t, i, <<>>, {"W"} \cup (flags \cap {"U"}))
  ELSE IF "PS" \in m.tab[t][i].fl
    THEN NewTable(m, t, i, Split(m.tab[t][i]), m.tab[t][i].fl \ {"PS", "COW"})
  ELSE IF "NX" \in m.tab[t][i].fl THEN Halted(m, "fault")
  ELSE [m EXCEPT !.tab[t][i].fl = @ \cup (flags \cap {"U"})]

\* One level down from table r.t.
Down(m, t, i) == [m |-> m, t |-> IF m.halt = "no" THEN m.tab[t][i].to ELSE t]
Descend(r, i, flags) ==
  IF r.m.halt # "no" THEN r
  ELSE Down(ensure_table(r.m, r.t, i, flags), r.t, i)

\* The table that holds the last entry for v.
PageTable(m, root, v, flags) ==
  Descend(Descend(Descend([m |-> m, t |-> root], pml4_index(v), flags),
                  pdpt_index(v), flags),
          pd_index(v), flags)

\* Is entry i present and not for this page?  NX stays in the address again.
Taken(table, i, phys) ==
  i \in DOMAIN table /\ (table[i].to # phys \/ "NX" \in table[i].fl)

SetEntry(m, t, i, e) == [m EXCEPT !.tab[t] = (i :> e) @@ @]

\* mmu_map_page and mmu_map_page_in from the last table on; conflict is what
\* the one and the other do when the page is taken.
MapAt(r, i, phys, flags, conflict(_)) ==
  IF r.m.halt # "no" THEN r.m
  ELSE IF Taken(r.m.tab[r.t], i, phys) THEN conflict(r.m)
  ELSE SetEntry(r.m, r.t, i, Entry(phys, flags))

Panics(m) == Halted(m, "panic")
Refuses(m) == m

mmu_map_page(m, virt, phys, flags) ==
  MapAt(PageTable(m, Tables["pml4_table"], virt, flags), pt_index(virt),
        phys, flags, Panics)

mmu_map_page_in(m, pml4_phys, virt, phys, flags) ==
  MapAt(PageTable(m, pml4_phys, virt, flags), pt_index(virt),
        phys, flags, Refuses)

-----------------------------------------------------------------------------
(* kernel_main and its callees.                                            *)

\* ensure_hhdm_pdpt and ensure_hhdm_pd: neither entry is ever a large page.
ensure_hhdm_pdpt(m) ==
  Descend([m |-> m, t |-> Tables["pml4_table"]], pml4_index(HHDM_BASE), {})

ensure_hhdm_pd(r, i) == Descend(r, i, {})

\* One round of the loop: a 2 MiB entry for the frames from phys on.
DirectEntry(r, phys) ==
  IF r.m.halt # "no" THEN r.m
  ELSE SetEntry(r.m, r.t, pd_index(phys_to_hhdm(phys)),
                Entry(phys, {"W", "PS", "NX"}))

mmu_map_hhdm_2m(m, end) ==
  FoldLeft(LAMBDA a, k :
             DirectEntry(ensure_hhdm_pd(ensure_hhdm_pdpt(a),
                                        pdpt_index(phys_to_hhdm((k - 1) * Pages2M))),
                         (k - 1) * Pages2M),
           m, [k \in 1..((end + Pages2M - 1) \div Pages2M) |-> k])

\* The four loops of mmu_protect_kernel_sections: every page of a section is
\* mapped again with the section's flags.
ProtectPage(m, phys, flags) ==
  IF m.halt # "no" THEN m
  ELSE mmu_map_page(m, phys_to_higher_half(phys), phys, flags)

ProtectSection(m, s) ==
  FoldLeft(LAMBDA a, p : ProtectPage(a, p, s.flags), m,
           [k \in 1..s.pages |-> virt_to_phys(HIGHER_HALF_BASE + s.first) + k - 1])

mmu_protect_kernel_sections(m) == FoldLeft(ProtectSection, m, Sections)

\* A page for the heap, mapped at heap_end.
HeapPage(m, a, v) ==
  IF a.halt # "no" THEN a
  ELSE mmu_map_page(a, v, m.next, {"W", "NX"})

\* mmu_kmap of a new page, as the NX self-test does.
mmu_kmap(m, a, flags) ==
  IF a.halt # "no" THEN a
  ELSE mmu_map_page(a, phys_to_higher_half(m.next), m.next, flags)

-----------------------------------------------------------------------------
(* The view of the processor.                                              *)

\* What the processor makes of v: the frame and the permissions all levels
\* agree on.
Found(m, t, i) == IF i \in DOMAIN m.tab[t] THEN m.tab[t][i] ELSE Entry(-1, {})

Merge(up, e) ==
  Entry(e.to, ((up.fl \cap e.fl) \cap {"W", "U"})
                \cup ((up.fl \cup e.fl) \cap {"NX"}) \cup (e.fl \cap {"PS"}))

Lookup(m, up, i) == IF up.to = -1 THEN up ELSE Merge(up, Found(m, up.to, i))

PdEntry(m, root, v) ==
  Lookup(m, Lookup(m, Lookup(m, Entry(root, {"W", "U"}), pml4_index(v)),
                   pdpt_index(v)),
         pd_index(v))

Leaf(m, e, v) == IF "PS" \in e.fl THEN Entry(e.to + pt_index(v), e.fl \ {"PS"})
                 ELSE Lookup(m, e, pt_index(v))

Clean(e) == IF e.to = -1 THEN Entry(-1, {}) ELSE e

Translate(m, root, v) == Clean(Leaf(m, PdEntry(m, root, v), v))

\* pte_lookup, up to the page table: -1 where an entry is missing or large.
Follow(m, t, i) ==
  IF t = -1 \/ i \notin DOMAIN m.tab[t] \/ "PS" \in m.tab[t][i].fl THEN -1
  ELSE m.tab[t][i].to

pte_lookup(m, root, v) ==
  Follow(m, Follow(m, Follow(m, root, pml4_index(v)), pdpt_index(v)), pd_index(v))

-----------------------------------------------------------------------------
(* The steps.                                                              *)

\* A 2 MiB entry for every index of a page directory, from frame 0 on.
FirstGiB == [i \in 0..PdLen - 1 |-> Entry(i * Pages2M, {"W", "PS"})]

\* setup_paging: the first GiB at its own addresses and at HIGHER_HALF_BASE.
setup_paging ==
  (Tables["pml4_table"] :>
     ((0 :> Entry(Tables["pdpt_identity"], {"W"}))
        @@ ((Pml4Len - 1) :> Entry(Tables["pdpt_higher"], {"W"}))))
  @@ (Tables["pdpt_identity"] :> (0 :> Entry(Tables["pd_identity"], {"W"})))
  @@ (Tables["pdpt_higher"] :>
        (((PdptLen - 2) :> Entry(Tables["pd_higher"], {"W"}))
           @@ ((PdptLen - 1) :> Entry(Tables["pd_higher_extra"], {"W"}))))
  @@ (Tables["pd_identity"] :> FirstGiB)
  @@ (Tables["pd_higher"] :> FirstGiB)
  @@ (Tables["pd_higher_extra"] :> <<>>)

Init ==
  /\ mem = [tab |-> setup_paging, next |-> KernelEnd, halt |-> "no"]
  /\ heap_end = HEAP_BASE /\ spaces = <<>> /\ zero_phys = 0 /\ stage = "boot"

\* A step of kernel_main, from one stage to the next.
Step(from, to) == stage = from /\ stage' = to /\ mem.halt = "no"

MapHhdm ==
  /\ Step("boot", "direct")
  /\ mem' = mmu_map_hhdm_2m(mem, RamTop)
  /\ UNCHANGED <<heap_end, spaces, zero_phys>>

ProtectSections ==
  /\ Step("direct", "protected")
  /\ mem' = mmu_protect_kernel_sections(mem)
  /\ UNCHANGED <<heap_end, spaces, zero_phys>>

\* kheap_init leaves the first page of the heap unmapped.
kheap_init ==
  /\ Step("protected", "heap")
  /\ mem' = HeapPage(mem, pmm_alloc_page(mem), HEAP_BASE + 1)
  /\ heap_end' = HEAP_BASE + (IF mem'.halt = "no" THEN 2 ELSE 1)
  /\ UNCHANGED <<spaces, zero_phys>>

NxTest ==
  /\ Step("heap", "tested")
  /\ mem' = mmu_kmap(mem, pmm_alloc_page(mem), {"W", "NX"})
  /\ UNCHANGED <<heap_end, spaces, zero_phys>>

arch_drop_identity_map ==
  /\ Step("tested", "running")
  /\ mem' = [mem EXCEPT !.tab[Tables["pml4_table"]] =
               [i \in DOMAIN @ \ {0} |-> @[i]]]
  /\ UNCHANGED <<heap_end, spaces, zero_phys>>

\* The heap may grow from kheap_init on, under any allocation.
map_next_page ==
  /\ stage \in {"heap", "tested", "running"} /\ mem.halt = "no"
  /\ mem' = HeapPage(mem, pmm_alloc_page(mem), heap_end)
  /\ heap_end' = heap_end + (IF mem'.halt = "no" THEN 1 ELSE 0)
  /\ UNCHANGED <<spaces, zero_phys, stage>>

\* Mutant of KernelHalf: copies the entries from 257 on.
KernelHalfLate(top) == [i \in {j \in DOMAIN top : j > Pml4Len \div 2} |-> top[i]]

\* The upper half of the kernel's top table.
KernelHalf(top) == [i \in {j \in DOMAIN top : j >= Pml4Len \div 2} |-> top[i]]

\* user_space_init and mmu_create_user_pml4.
mmu_create_user_pml4 ==
  /\ stage = "running" /\ mem.halt = "no"
  /\ Len(spaces) < MaxSpaces
  /\ LET a == pmm_alloc_page(mem) IN
     \/ /\ a.halt = "no" /\ mem.next < Pages1G
        /\ mem' = [a EXCEPT !.tab =
                     (mem.next :> KernelHalf(mem.tab[Tables["pml4_table"]])) @@ @]
        /\ spaces' = Append(spaces, mem.next)
     \/ /\ a.halt # "no"
        /\ mem' = a /\ UNCHANGED spaces
     \/ /\ a.halt = "no" /\ mem.next >= Pages1G
        /\ mem' = Halted(a, "fault") /\ UNCHANGED spaces
  /\ UNCHANGED <<heap_end, zero_phys, stage>>

\* user_space_map_page with a new page, as the loader and the first stack do.
user_space_map_page(k, virt, flags) ==
  /\ stage = "running" /\ mem.halt = "no"
  /\ LET a == pmm_alloc_page(mem) IN
     mem' = IF a.halt # "no" THEN a
            ELSE mmu_map_page_in(a, spaces[k], virt, mem.next, flags \cup {"U"})
  /\ UNCHANGED <<heap_end, spaces, zero_phys, stage>>

\* handle_user_page_fault on a page that is not there: the stack grows by the
\* page of zeroes that all stacks share, to be copied when it is written.
GrowStack(k, virt) ==
  /\ stage = "running" /\ mem.halt = "no"
  /\ Translate(mem, spaces[k], virt).to = -1
  /\ LET new == zero_phys = 0
         a == IF new THEN pmm_alloc_page(mem) ELSE mem
         zero == IF new THEN mem.next ELSE zero_phys
     IN  IF a.halt # "no" THEN mem' = a /\ UNCHANGED zero_phys
         ELSE /\ mem' = mmu_map_page_in(a, spaces[k], virt, zero, {"U", "NX", "COW"})
              /\ zero_phys' = zero
  /\ UNCHANGED <<heap_end, spaces, stage>>

\* handle_user_cow_fault on an entry with the COW bit.  The page to copy from is
\* taken with & ~0xFFF as well: reading one with NX faults, in the kernel.
handle_user_cow_fault(k, virt) ==
  LET t == pte_lookup(mem, spaces[k], virt)
      i == pt_index(virt)
      a == pmm_alloc_page(mem)
  IN  /\ stage = "running" /\ mem.halt = "no"
      /\ t # -1 /\ i \in DOMAIN mem.tab[t] /\ "COW" \in mem.tab[t][i].fl
      /\ mem' = IF a.halt # "no" THEN a
                ELSE IF "NX" \in mem.tab[t][i].fl THEN Halted(a, "fault")
                ELSE SetEntry(a, t, i,
                       Entry(mem.next, (mem.tab[t][i].fl \cup {"W"}) \ {"COW"}))
      /\ UNCHANGED <<heap_end, spaces, zero_phys, stage>>

Next ==
  \/ MapHhdm \/ ProtectSections \/ kheap_init \/ NxTest
  \/ arch_drop_identity_map \/ map_next_page \/ mmu_create_user_pml4
  \/ \E k \in DOMAIN spaces, v \in UserPages, f \in UserFlags :
       user_space_map_page(k, v, f)
  \/ \E k \in DOMAIN spaces, v \in StackPages : GrowStack(k, v)
  \/ \E k \in DOMAIN spaces, v \in UserPages \cup StackPages : handle_user_cow_fault(k, v)

-----------------------------------------------------------------------------
(* The specification.                                                      *)

\* The translations of all spaces, the kernel's as number 0.
Translations(m, users) ==
  [s \in 0..Len(users) |->
     [v \in Watched |->
        Translate(m, IF s = 0 THEN Tables["pml4_table"] ELSE users[s], v)]]

vars == <<mem, heap_end, spaces, zero_phys, stage, tr>>

ViewInit == Init /\ tr = Translations(mem, spaces)

ViewNext == Next /\ tr' = Translations(mem', spaces')

Spec == ViewInit /\ [][ViewNext]_vars

-----------------------------------------------------------------------------
(* Properties.                                                             *)


\* The frames of the direct map, from address 0 to max_phys in 2 MiB pages.
DirectFrames == ((RamTop + Pages2M - 1) \div Pages2M) * Pages2M
DirectMap ==
  [v \in Watched \cap (HHDM_BASE..HHDM_BASE + DirectFrames - 1) |-> v - HHDM_BASE]

Spaces == INSTANCE AddressSpaces
            WITH Virt <- Watched, Identity <- Watched \cap (0..Pages1G - 1),
                 Direct <- DirectMap, zero <- zero_phys

\* The tables implement one translation per space: a mapping changes the page
\* asked for and no other, through the split of a 2 MiB page as well; the
\* kernel's half stays the same in every space although each has its own top
\* table, copied once by mmu_create_user_pml4; programs get their pages in
\* their own half, on frames no other program has, or share the page of zeroes
\* where their stacks have grown, which none of them can write.
ImplementsSpaces == Spaces!SpacesSpec

\* "Apply proper permissions to kernel sections (text RX, rodata RO/NX,
\* data/bss RW/NX)" (include/kernel/mmu.h): from mmu_protect_kernel_sections
\* on, a page of a section has the permissions of the section.
SectionsProtected ==
  stage \notin {"boot", "direct"} /\ mem.halt = "no" =>
    \A k \in DOMAIN Sections : \A p \in 0..Sections[k].pages - 1 :
      LET q == Sections[k].first + p IN
      tr[0][HIGHER_HALF_BASE + q] = Entry(q, Sections[k].flags)
=============================================================================
