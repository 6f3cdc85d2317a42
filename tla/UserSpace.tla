----------------------------- MODULE UserSpace -----------------------------
(***************************************************************************)
(* The address spaces of NeptuneOS programs: loading an image              *)
(* (kernel/elf.c, kernel/user.c), mapping pages (arch/x86_64/mmu.c), the   *)
(* page faults of programs (arch/x86_64/idt.c), and what the kernel reads  *)
(* and writes for them after user_ptr_range (kernel/syscall.c).            *)
(*                                                                         *)
(* Addresses count words from the bottom of the address space, PageWords   *)
(* to a page, and wrap at AddrSpace.  Physical pages are numbered in the   *)
(* order pmm_alloc_page hands them out: nothing here frees one.  The       *)
(* tables of a space count as one page.  Programs are not preempted in the *)
(* kernel, and faults and calls run with interrupts off: each is one step. *)
(***************************************************************************)
EXTENDS Integers, Sequences

CONSTANTS
  Threads,     \* user threads
  AddrSpace,   \* 2^64, in words
  PageWords,   \* words of a page
  BasePage,    \* the page of USER_BASE
  TopPage,     \* the page of USER_STACK_TOP
  StackMax,    \* USER_STACK_MAX_PAGES
  GuardPages,  \* USER_STACK_GUARD_PAGES
  Image,       \* what memfs_lookup finds: image name to its segments
  Paths,       \* names programs ask for, in or outside DOMAIN Image
  Vectors,     \* arguments and environments of launches, by string size
  ArgMax,      \* USER_ARG_MAX and USER_ENV_MAX
  PathSize,    \* size of the string that stands in for an empty argv
  PageBytes,   \* bytes of a page, for the initial stack
  Lens,        \* lengths of user buffers
  Touched,     \* bound: the addresses programs access
  Rsps,        \* stack pointers of programs, when they fault
  MaxPhys      \* bound: physical pages

Addr == 0..AddrSpace - 1
UserBase == BasePage * PageWords
StackTop == TopPage * PageWords
StackLow == TopPage - StackMax
Page == 0..TopPage - 1
Phys == 1..MaxPhys
PageOf(a) == a \div PageWords
Offset == 0..PageWords - 1

Segment == [vaddr : Addr, memsz : Nat, filesz : Nat, w : BOOLEAN, x : BOOLEAN]

ASSUME UserSpaceAssumption ==
  /\ PageWords \in Nat \ {0} /\ MaxPhys \in Nat
  /\ BasePage \in Nat \ {0} /\ TopPage \in Nat /\ BasePage < TopPage
  /\ AddrSpace \in Nat /\ AddrSpace > TopPage * PageWords
  /\ StackMax \in 1..TopPage /\ GuardPages \in Nat
  /\ Touched \subseteq Addr /\ Lens \subseteq Addr
  /\ \A n \in DOMAIN Image : Image[n] \in Seq(Segment)

VARIABLES
  used,      \* pages pmm_alloc_page has handed out
  mem,       \* what they hold, word by word
  pt,        \* the page table of each thread's space
  zero,      \* zero_phys of get_zero_page, or 0
  state,     \* of a thread: none, user or dead
  image,     \* the image it was loaded from
  panic      \* why the kernel has stopped, or "no"

vars == <<used, mem, pt, zero, state, image, panic>>

Pte(phys, w, nx, cow) == [phys |-> phys, w |-> w, nx |-> nx, cow |-> cow]
NoPte == Pte(0, FALSE, FALSE, FALSE)
Present(t, v) == t[v].phys # 0
Unmapped == [v \in Page |-> NoPte]

\* Words: zero, what was in a page before, the word of an image, or what the
\* thread t wrote.
Zero == <<>>
Junk == <<"junk">>
FileWord(n, a) == <<n, a>>
Mark(t) == <<t>>

-----------------------------------------------------------------------------
(* elf.c *)

SegEnd(s) ==                 \* align_up, which may wrap
  PageOf((s.vaddr + s.memsz + PageWords - 1) % AddrSpace)

SegPages(s) == [i \in 1..SegEnd(s) - PageOf(s.vaddr) |-> PageOf(s.vaddr) + i - 1]

SegOk(s) ==
  /\ s.memsz # 0 /\ s.filesz <= s.memsz
  /\ (s.vaddr + s.memsz) % AddrSpace >= s.vaddr
  /\ PageOf(s.vaddr) >= BasePage - 1 /\ SegEnd(s) <= TopPage

\* The pages elf_load_user maps, in order, up to the first segment it refuses.
PagesOf(segs) ==
  LET upto[i \in 0..Len(segs)] ==
        IF i = 0 THEN <<>>
        ELSE upto[i - 1] \o (IF \A j \in 1..i : SegOk(segs[j]) THEN SegPages(segs[i]) ELSE <<>>)
  IN  upto[Len(segs)]

SegOf(segs, v) ==
  segs[CHOOSE i \in DOMAIN segs : \E j \in DOMAIN SegPages(segs[i]) : SegPages(segs[i])[j] = v]

\* Mutant: the copy runs on to the end of the page.
LoadTooFar(n, v) ==
  LET s == SegOf(Image[n], v)
  IN  [o \in Offset |->
         LET a == v * PageWords + o
         IN  IF s.filesz # 0 /\ s.vaddr <= a /\ PageOf(a) <= PageOf(s.vaddr + s.filesz - 1)
             THEN FileWord(n, a) ELSE Zero]

\* What elf_load_user leaves in page v: zeros, and the part of the file's data
\* from copy_start to copy_end.
LoadPage(n, v) ==
  LET s == SegOf(Image[n], v)
      page == v * PageWords
      start == IF page > s.vaddr THEN page ELSE s.vaddr
      end == IF page + PageWords < s.vaddr + s.filesz THEN page + PageWords
             ELSE s.vaddr + s.filesz
  IN  [o \in Offset |-> IF page + o >= start /\ page + o < end
                        THEN FileWord(n, page + o) ELSE Zero]

-----------------------------------------------------------------------------
(* user.c *)

\* user_space_map_stack(pages): the pages it maps, in order.
user_space_map_stack(pages) == [i \in 1..pages |-> TopPage - pages + i - 1]

\* push_string: where each of the strings begins, pushed one after the other.
Pushed(strings) ==
  LET addr[i \in 0..Len(strings)] == IF i = 0 THEN PageBytes ELSE addr[i - 1] - strings[i]
  IN  addr

\* user_stack_setup on a stack of one page, whose bottom is address 0: where
\* the stack pointer ends up below the strings and, under a multiple of 16, a
\* NULL, the environment, a NULL, the arguments and their number.
user_stack_setup(args, envs) ==
  LET all == args \o envs
  IN  (Pushed(all)[Len(all)] \div 16) * 16 - 8 * (Len(all) + 3)

\* user_prepare_image: user_space_init, elf_load_user, user_space_map_stack(1)
\* and user_stack_setup.  mmu_map_page_in refuses a page that is mapped
\* already, after its physical page was allocated.  No failure frees anything.
user_prepare_image(n, args, envs) ==
  LET sp == user_stack_setup(args, envs)
      pages == PagesOf(Image[n]) \o user_space_map_stack(1)
      twice == {i \in DOMAIN pages : \E j \in 1..i - 1 : pages[i] = pages[j]}
      refused == \E i \in DOMAIN Image[n] : ~SegOk(Image[n][i])
      nth(v) == CHOOSE i \in DOMAIN pages : pages[i] = v
      flags(v) == IF v = TopPage - 1 THEN [w |-> TRUE, x |-> FALSE] ELSE SegOf(Image[n], v)
      space == [v \in Page |->
                  IF \E i \in DOMAIN pages : pages[i] = v
                  THEN Pte(used + 1 + nth(v), flags(v).w, ~flags(v).x, FALSE) ELSE NoPte]
      all == used + 1 + Len(pages)
  IN  IF n \notin DOMAIN Image THEN [rc |-> -1, used |-> used + 1]
      ELSE IF twice # {}
      THEN [rc |-> -1, used |-> used + 1 + CHOOSE i \in twice : \A j \in twice : i <= j]
      ELSE IF refused THEN [rc |-> -1, used |-> all - 1]
      ELSE IF sp < 0 THEN [rc |-> -1, used |-> all]
      ELSE [rc |-> 0, used |-> all, space |-> space,
            mem |-> [q \in Phys |->
                       CASE q = all -> [o \in Offset |-> Junk]
                         [] q \in used + 2..all - 1 -> LoadPage(n, pages[q - used - 1])
                         [] OTHER -> mem[q]]]

\* user_vec_copy wants the NULL within ArgMax entries; user_launch_fill puts
\* the path in an empty argv.
VectorOk(v) == Len(v) < ArgMax
Argv(v) == IF v = <<>> THEN <<PathSize>> ELSE v

\* Thread t enters the space r, or the call fails; pmm_alloc_page panics when
\* it has no page left.
Enter(t, n, r, otherwise) ==
  IF r.used > MaxPhys
  THEN panic' = "memory" /\ UNCHANGED <<used, mem, pt, zero, state, image>>
  ELSE /\ used' = r.used
       /\ UNCHANGED <<zero, panic>>
       /\ IF r.rc = 0
          THEN /\ mem' = r.mem
               /\ pt' = [pt EXCEPT ![t] = r.space]
               /\ state' = [state EXCEPT ![t] = "user"]
               /\ image' = [image EXCEPT ![t] = n]
          ELSE /\ state' = [state EXCEPT ![t] = otherwise]
               /\ UNCHANGED <<mem, pt, image>>

\* SYSCALL_SPAWN and user_launch_thread, or user_smoke_thread.
Launch(t, n, args, envs) ==
  /\ panic = "no" /\ state[t] # "user"
  /\ VectorOk(args) /\ VectorOk(envs)
  /\ Enter(t, n, user_prepare_image(n, Argv(args), envs), "dead")

\* SYSCALL_EXEC: the thread leaves its old space, which stays allocated.
Exec(t, n, args, envs) ==
  /\ panic = "no" /\ state[t] = "user"
  /\ VectorOk(args) /\ VectorOk(envs)
  /\ Enter(t, n, user_prepare_image(n, Argv(args), envs), "user")

\* user_exit_common, by SYSCALL_EXIT or after a fault: nothing is unmapped.
user_exit(t) ==
  /\ state' = [state EXCEPT ![t] = "dead"]
  /\ UNCHANGED <<used, mem, pt, zero, image, panic>>

Exit(t) == panic = "no" /\ state[t] = "user" /\ user_exit(t)

-----------------------------------------------------------------------------
(* idt.c *)

Panics(why) ==
  /\ panic' = why
  /\ UNCHANGED <<used, mem, pt, zero, state, image>>

\* pte_lookup: the entry of page v.
pte_lookup(t, v) == pt[t][v]

\* handle_user_cow_fault.  old_phys keeps bit 63 of the entry, so that the
\* copy from a page that is not executable reads a non-canonical address.
handle_user_cow_fault(t, v) ==
  LET e == pte_lookup(t, v)
  IN  IF ~e.cow THEN user_exit(t)
      ELSE IF used = MaxPhys THEN Panics("memory")
      ELSE IF e.nx THEN Panics("cow")
      ELSE /\ used' = used + 1
           /\ mem' = [mem EXCEPT ![used + 1] = mem[e.phys]]
           /\ pt' = [pt EXCEPT ![t][v] = Pte(used + 1, TRUE, e.nx, FALSE)]
           /\ UNCHANGED <<zero, state, image, panic>>

\* Mutant: the fault maps a writable page.
MapZeroWritable(t, v) ==
  IF zero = 0 /\ used = MaxPhys THEN Panics("memory")
  ELSE /\ zero' = IF zero = 0 THEN used + 1 ELSE zero
       /\ used' = IF zero = 0 THEN used + 1 ELSE used
       /\ mem' = IF zero = 0 THEN [mem EXCEPT ![used + 1] = [o \in Offset |-> Zero]] ELSE mem
       /\ pt' = [pt EXCEPT ![t][v] = Pte(zero', TRUE, TRUE, FALSE)]
       /\ UNCHANGED <<state, image, panic>>

\* get_zero_page, and the entry that maps it.
MapZero(t, v) ==
  IF zero = 0 /\ used = MaxPhys THEN Panics("memory")
  ELSE /\ zero' = IF zero = 0 THEN used + 1 ELSE zero
       /\ used' = IF zero = 0 THEN used + 1 ELSE used
       /\ mem' = IF zero = 0 THEN [mem EXCEPT ![used + 1] = [o \in Offset |-> Zero]] ELSE mem
       /\ pt' = [pt EXCEPT ![t][v] = Pte(zero', FALSE, TRUE, TRUE)]
       /\ UNCHANGED <<state, image, panic>>

\* The checks of handle_user_page_fault on a page that is not present.
StackGrows(v, rsp) ==
  LET guard == GuardPages * PageWords
      low == StackLow * PageWords
      min == IF rsp > guard /\ rsp - guard > low THEN rsp - guard ELSE low
  IN  /\ v >= StackLow /\ v < TopPage
      /\ rsp >= low /\ rsp < StackTop
      /\ v * PageWords >= min

\* An access of a program in user mode, with the stack pointer rsp, and
\* exception_handler and handle_user_page_fault when it faults.
Allowed(e, kind) ==
  \/ kind = "read"
  \/ kind = "write" /\ e.w
  \/ kind = "run" /\ ~e.nx

Access(t, a, kind, rsp) ==
  /\ panic = "no" /\ state[t] = "user"
  /\ LET v == PageOf(a)
         e == pt[t][v]
     IN  IF v < TopPage /\ Present(pt[t], v)
         THEN IF Allowed(e, kind)
              THEN /\ mem' = IF kind = "write"
                             THEN [mem EXCEPT ![e.phys][a % PageWords] = Mark(t)] ELSE mem
                   /\ UNCHANGED <<used, pt, zero, state, image, panic>>
              ELSE IF kind = "write" THEN handle_user_cow_fault(t, v) ELSE user_exit(t)
         ELSE IF StackGrows(v, rsp) THEN MapZero(t, v) ELSE user_exit(t)

-----------------------------------------------------------------------------
(* syscall.c *)

\* Mutant: only the page of the first word is looked at.
FirstPageOnly(t, a, len) ==
  /\ len # 0 /\ a >= UserBase
  /\ (a + len) % AddrSpace >= a
  /\ (a + len) % AddrSpace <= StackTop
  /\ Present(pt[t], PageOf(a))

user_ptr_range(t, a, len) ==
  /\ len # 0 /\ a >= UserBase
  /\ (a + len) % AddrSpace >= a
  /\ (a + len) % AddrSpace <= StackTop
  /\ \A v \in PageOf(a)..PageOf(a + len - 1) : Present(pt[t], v)

\* The kernel reads a buffer or a string of a program, or fills a buffer
\* (SYSCALL_READ, SYSCALL_PIPE, SYSCALL_WAIT, SYSCALL_GETCWD).  CR0 protects
\* read-only pages from the kernel too, and a fault in the kernel is a panic.
KernelCopy(t, a, len, kind) ==
  /\ panic = "no" /\ state[t] = "user"
  /\ user_ptr_range(t, a, len)
  /\ LET words == a..a + len - 1
     IN  IF \E b \in words : PageOf(b) >= TopPage \/ ~Present(pt[t], PageOf(b))
         THEN Panics("unmapped")
         ELSE IF kind = "write" /\ (\E b \in words : ~pt[t][PageOf(b)].w)
         THEN Panics("readonly")
         ELSE /\ mem' = IF kind = "read" THEN mem
                        ELSE [q \in Phys |-> [o \in Offset |->
                                IF \E b \in words : pt[t][PageOf(b)].phys = q /\ b % PageWords = o
                                THEN Mark(t) ELSE mem[q][o]]]
              /\ UNCHANGED <<used, pt, zero, state, image, panic>>

-----------------------------------------------------------------------------
Init ==
  /\ used = 0 /\ zero = 0 /\ panic = "no"
  /\ mem = [q \in Phys |-> [o \in Offset |-> Junk]]
  /\ pt = [t \in Threads |-> Unmapped]
  /\ state = [t \in Threads |-> "none"]
  /\ image = [t \in Threads |-> "none"]

Next ==
  \E t \in Threads :
    \/ \E n \in Paths, v \in Vectors : Launch(t, n, v.args, v.envs) \/ Exec(t, n, v.args, v.envs)
    \/ Exit(t)
    \/ \E a \in Touched, kind \in {"read", "write", "run"}, rsp \in Rsps : Access(t, a, kind, rsp)
    \/ \E a \in Addr, len \in Lens, kind \in {"read", "write"} : KernelCopy(t, a, len, kind)

Spec == Init /\ [][Next]_vars

-----------------------------------------------------------------------------
(* Properties *)

Words == {Zero, Junk} \cup {Mark(t) : t \in Threads}
           \cup {FileWord(n, a) : n \in DOMAIN Image, a \in Addr}

\* Only the zero page is ever mapped at two places, by user_prepare_image,
\* get_zero_page and handle_user_cow_fault together: what one program
\* writes no other program, and no other page of its own, shows.
PagesPrivate ==
  \A t, u \in Threads : \A v, w \in Page :
    <<t, v>> # <<u, w>> /\ Present(pt[t], v) /\ pt[t][v].phys = pt[u][w].phys
      => pt[t][v].phys = zero

\* The page get_zero_page shares between all stacks stays zero, and no
\* entry lets a program or the kernel write to it.
ZeroPageClean ==
  zero # 0 =>
    /\ \A o \in Offset : mem[zero][o] = Zero
    /\ \A t \in Threads, v \in Page : pt[t][v].phys = zero => ~pt[t][v].w

\* The two together: what a program writes shows nowhere else.
PagesIsolated == PagesPrivate /\ ZeroPageClean

InSegment(n, a) == \E i \in DOMAIN Image[n] :
  Image[n][i].vaddr <= a /\ a < Image[n][i].vaddr + Image[n][i].memsz
InFile(n, a) == \E i \in DOMAIN Image[n] :
  Image[n][i].vaddr <= a /\ a < Image[n][i].vaddr + Image[n][i].filesz
Writable(n, a) == \E i \in DOMAIN Image[n] :
  Image[n][i].w /\ PageOf(Image[n][i].vaddr) <= PageOf(a)
    /\ PageOf(a) <= PageOf(Image[n][i].vaddr + Image[n][i].memsz - 1)

\* A program runs in the image elf_load_user was asked for: every word of
\* a segment is mapped and holds the file's word, or zero past the file's
\* data, until the program itself changes a word that it may write.  No
\* fault, call or launch of another program shows in it, and faults map
\* pages only in the USER_STACK_MAX_PAGES below USER_STACK_TOP.
LoadedAsLinked ==
  \A t \in Threads : state[t] = "user" =>
    \A a \in 0..StackLow * PageWords - 1 :
      LET e == pt[t][PageOf(a)]
          n == image[t]
      IN  /\ InSegment(n, a) => Present(pt[t], PageOf(a))
          /\ Present(pt[t], PageOf(a)) =>
               /\ e.w <=> Writable(n, a)
               /\ \/ mem[e.phys][a % PageWords] = IF InFile(n, a) THEN FileWord(n, a) ELSE Zero
                  \/ e.w /\ mem[e.phys][a % PageWords] = Mark(t)
               /\ \E o \in Offset : InSegment(n, PageOf(a) * PageWords + o)

\* user_ptr_range keeps the kernel off pages that a program has not mapped,
\* for every buffer, at the ends of the user range and where ptr + len wraps.
PtrRangeSound == panic # "unmapped"

\* A fault of a program ends at most that program, as exception_handler
\* reports ("User-mode exception; terminating user task", idt.c:415).
UserFaultContained == panic # "cow"
=============================================================================
