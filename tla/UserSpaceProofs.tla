-------------------------- MODULE UserSpaceProofs --------------------------
(***************************************************************************)
(* What keeps the pages of programs apart, for any number of threads, any  *)
(* images, any layout of the address space and any amount of memory.       *)
(***************************************************************************)
EXTENDS UserSpace, SequenceTheorems, WellFoundedInduction, TLAPS

\* A set of naturals that is not empty has a least member.
LEMMA Least ==
  ASSUME NEW T, T \subseteq Nat, T # {}
  PROVE  \E i \in T : \A j \in T : i <= j
<1>1. PICK i \in T : \A j \in T : ~(<<j, i>> \in OpToRel(<, Nat))
  BY NatLessThanWellFounded, WFMin, ZenonT(30)
<1>2. \A j \in T : ~(j < i)
  <2> TAKE j \in T
  <2>1. <<j, i>> \in Nat \X Nat
    BY ZenonT(30)
  <2> QED
    BY <1>1, <2>1, ZenonT(30) DEF OpToRel
<1> QED
  BY <1>2

-----------------------------------------------------------------------------
(* The pages of an image are a sequence: elf_load_user maps them in order. *)

\* A function on 1..k is a sequence, also when k is not positive.
LEMMA RangeSeq ==
  ASSUME NEW k \in Int, NEW S, NEW f \in [1..k -> S]
  PROVE  f \in Seq(S)
<1>1. CASE k \in Nat
  BY <1>1
<1>2. CASE k \notin Nat
  <2>1. 1..k = 1..0
    BY <1>2
  <2> QED
    BY <2>1
<1> QED
  BY <1>1, <1>2, ZenonT(30)

\* The pages of one segment are a sequence.
LEMMA SegPagesSeq ==
  ASSUME NEW s \in Segment
  PROVE  SegPages(s) \in Seq(Int)
<1>1. SegEnd(s) \in Int /\ PageOf(s.vaddr) \in Int
  BY UserSpaceAssumption DEF SegEnd, PageOf, Segment, Addr
<1>2. SegPages(s) \in [1..SegEnd(s) - PageOf(s.vaddr) -> Int]
  BY <1>1 DEF SegPages
<1> QED
  BY <1>1, <1>2, RangeSeq

\* What elf_load_user adds for segment i.
Added(segs, i) == IF \A j \in 1..i : SegOk(segs[j]) THEN SegPages(segs[i]) ELSE <<>>

\* g is the table of the pages of the first 0, 1, ... n segments.
Table(segs, n, g) ==
  g = [i \in 0..n |-> IF i = 0 THEN <<>> ELSE g[i - 1] \o Added(segs, i)]

\* The recursion in PagesOf defines a table.
LEMMA TableExists ==
  ASSUME NEW segs, NEW n \in Nat
  PROVE  \E g : Table(segs, n, g)
<1> DEFINE Bad == {k \in Nat : ~\E g : Table(segs, k, g)}
<1>1. SUFFICES ASSUME Bad # {} PROVE FALSE
  BY ZenonT(30)
<1>2. PICK k \in Bad : \A j \in Bad : k <= j
  BY <1>1, Least, ZenonT(30)
<1>3. k # 0
  <2>1. Table(segs, 0, [i \in 0..0 |-> <<>>])
    BY DEF Table
  <2> QED
    BY <2>1, ZenonT(30)
<1>4. PICK h : Table(segs, k - 1, h)
  BY <1>2, <1>3
<1> DEFINE g == [i \in 0..k |-> IF i = k THEN h[k - 1] \o Added(segs, k) ELSE h[i]]
<1>5. \A i \in 0..k : g[i] = IF i = 0 THEN <<>> ELSE g[i - 1] \o Added(segs, i)
  <2> TAKE i \in 0..k
  <2>1. CASE i = k
    <3>1. k - 1 \in 0..k /\ k - 1 # k
      BY <1>3
    <3>2. g[k - 1] = h[k - 1] /\ g[k] = h[k - 1] \o Added(segs, k)
      BY <3>1
    <3> QED
      BY <2>1, <1>3, <3>2, ZenonT(30)
  <2>2. CASE i # k
    <3>1. i \in 0..k - 1 /\ g[i] = h[i] /\ (i # 0 => g[i - 1] = h[i - 1])
      BY <2>2
    <3>2. h[i] = IF i = 0 THEN <<>> ELSE h[i - 1] \o Added(segs, i)
      BY <3>1, <1>4, ZenonT(30) DEF Table
    <3> QED
      BY <3>1, <3>2, ZenonT(30)
  <2> QED
    BY <2>1, <2>2, ZenonT(30)
<1>6. Table(segs, k, g)
  <2> HIDE DEF g
  <2>1. g = [i \in 0..k |-> g[i]]
    BY ZenonT(30) DEF g
  <2> QED
    BY <2>1, <1>5, ZenonT(30) DEF Table
<1> QED
  BY <1>6, ZenonT(30)

\* Every entry of a table is a sequence of pages.
LEMMA TableSeq ==
  ASSUME NEW segs \in Seq(Segment), NEW g, Table(segs, Len(segs), g)
  PROVE  \A n \in 0..Len(segs) : g[n] \in Seq(Int)
<1> DEFINE Bad == {n \in 0..Len(segs) : g[n] \notin Seq(Int)}
<1>1. SUFFICES ASSUME Bad # {} PROVE FALSE
  BY ZenonT(30)
<1>0. Bad \subseteq Nat
  OBVIOUS
<1>2. PICK n \in Bad : \A j \in Bad : n <= j
  <2> HIDE DEF Bad
  <2> QED
    BY <1>0, <1>1, Least, ZenonT(30)
<1>3. \A i \in 0..Len(segs) : g[i] = IF i = 0 THEN <<>> ELSE g[i - 1] \o Added(segs, i)
  BY Zenon DEF Table
<1>4. n # 0
  <2>1. g[0] = <<>>
    BY <1>3
  <2>2. <<>> \in Seq(Int)
    OBVIOUS
  <2> QED
    BY <2>1, <2>2, ZenonT(30)
<1>5. g[n - 1] \in Seq(Int)
  BY <1>2, <1>4
<1>6. Added(segs, n) \in Seq(Int)
  <2>1. segs[n] \in Segment
    BY <1>4
  <2> QED
    BY <2>1, SegPagesSeq DEF Added
<1> QED
  BY <1>3, <1>4, <1>5, <1>6, ConcatProperties, ZenonT(30)

\* The pages elf_load_user maps are a sequence.
LEMMA PagesSeq ==
  ASSUME NEW segs \in Seq(Segment)
  PROVE  PagesOf(segs) \in Seq(Int)
<1>1. PICK g : Table(segs, Len(segs), g)
  BY TableExists
<1>2. \E h : Table(segs, Len(segs), h) /\ PagesOf(segs) = h[Len(segs)]
  BY <1>1, ZenonT(30) DEF PagesOf, Table, Added
<1> QED
  BY <1>2, TableSeq

-----------------------------------------------------------------------------
(* The invariant *)

\* A page table names only pages that were allocated, so that the next page of
\* pmm_alloc_page is mapped nowhere and is not the zero page.
IInv ==
  /\ used \in 0..MaxPhys /\ zero \in 0..used
  /\ DOMAIN mem = Phys /\ \A q \in Phys : DOMAIN mem[q] = Offset
  /\ DOMAIN pt = Threads /\ \A t \in Threads : DOMAIN pt[t] = Page
  /\ \A t \in Threads, v \in Page : pt[t][v].phys \in 0..used
  /\ PagesPrivate /\ ZeroPageClean /\ PtrRangeSound

\* Nothing is allocated, mapped or shared at the start.
LEMMA InitIInv == Init => IInv
<1> SUFFICES ASSUME Init PROVE IInv
  BY ZenonT(30)
<1>1. used \in 0..MaxPhys /\ zero \in 0..used /\ PtrRangeSound /\ ZeroPageClean
  BY UserSpaceAssumption DEF Init, PtrRangeSound, ZeroPageClean
<1>2. DOMAIN mem = Phys /\ \A q \in Phys : DOMAIN mem[q] = Offset
  BY ZenonT(30) DEF Init
<1>3. /\ DOMAIN pt = Threads /\ \A t \in Threads : DOMAIN pt[t] = Page
      /\ \A t \in Threads, v \in Page : pt[t][v].phys = 0
  BY ZenonT(30) DEF Init, Unmapped, NoPte, Pte
<1>4. PagesPrivate
  BY <1>3, ZenonT(30) DEF PagesPrivate, Present
<1> QED
  BY <1>1, <1>2, <1>3, <1>4 DEF IInv

\* The space s maps new pages only, the ones after before and up to after, each
\* of them once.
FreshSpace(s, before, after) ==
  /\ DOMAIN s = Page
  /\ \A v \in Page : s[v].phys = 0 \/ s[v].phys \in before + 1..after
  /\ \A v, w \in Page : v # w /\ s[v].phys # 0 => s[v].phys # s[w].phys

\* m has the pages up to before as they were.
KeepsPages(m, before) ==
  /\ DOMAIN m = Phys /\ \A q \in Phys : DOMAIN m[q] = Offset
  /\ \A q \in Phys : q <= before => m[q] = mem[q]

\* user_prepare_image takes pages from the allocator, whether it succeeds or
\* not, and changes no page that was handed out before.
LEMMA Prepared ==
  ASSUME IInv, NEW n, NEW args, NEW envs
  PROVE  LET r == user_prepare_image(n, args, envs)
         IN  /\ r.used \in Nat /\ used <= r.used
             /\ r.rc = 0 => FreshSpace(r.space, used, r.used) /\ KeepsPages(r.mem, used)
<1> DEFINE sp == user_stack_setup(args, envs)
           pages == PagesOf(Image[n]) \o user_space_map_stack(1)
           twice == {i \in DOMAIN pages : \E j \in 1..i - 1 : pages[i] = pages[j]}
           least == CHOOSE i \in twice : \A j \in twice : i <= j
           refused == \E i \in DOMAIN Image[n] : ~SegOk(Image[n][i])
           nth(v) == CHOOSE i \in DOMAIN pages : pages[i] = v
           flags(v) == IF v = TopPage - 1 THEN [w |-> TRUE, x |-> FALSE] ELSE SegOf(Image[n], v)
           space == [v \in Page |->
                       IF \E i \in DOMAIN pages : pages[i] = v
                       THEN Pte(used + 1 + nth(v), flags(v).w, ~flags(v).x, FALSE) ELSE NoPte]
           all == used + 1 + Len(pages)
           loaded == [q \in Phys |->
                       CASE q = all -> [o \in Offset |-> Junk]
                         [] q \in used + 2..all - 1 -> LoadPage(n, pages[q - used - 1])
                         [] OTHER -> mem[q]]
           r == user_prepare_image(n, args, envs)
<1>0. used \in Nat /\ DOMAIN mem = Phys /\ \A q \in Phys : DOMAIN mem[q] = Offset
  BY UserSpaceAssumption DEF IInv
<1>1. CASE n \notin DOMAIN Image
  <2>1. r = [rc |-> -1, used |-> used + 1]
    BY <1>1, ZenonT(30) DEF user_prepare_image
  <2> QED
    BY <1>0, <2>1
<1>2. CASE n \in DOMAIN Image
  <2>1. pages \in Seq(Int)
    <3>1. PagesOf(Image[n]) \in Seq(Int)
      BY <1>2, UserSpaceAssumption, PagesSeq, ZenonT(30)
    <3>2. user_space_map_stack(1) \in Seq(Int)
      BY UserSpaceAssumption DEF user_space_map_stack
    <3> QED
      BY <3>1, <3>2, ConcatProperties, ZenonT(30)
  <2>2. r = IF twice # {} THEN [rc |-> -1, used |-> used + 1 + least]
            ELSE IF refused THEN [rc |-> -1, used |-> all - 1]
            ELSE IF sp < 0 THEN [rc |-> -1, used |-> all]
            ELSE [rc |-> 0, used |-> all, space |-> space, mem |-> loaded]
    BY <1>2, Zenon DEF user_prepare_image
  <2> HIDE DEF pages
  <2>3. twice # {} => least \in Nat
    <3>1. twice \subseteq Nat
      BY <2>1
    <3> HIDE DEF twice
    <3> QED
      BY <3>1, Least, ZenonT(30)
  <2>4. all \in Nat /\ used + 1 <= all
    BY <1>0, <2>1
  <2>5. FreshSpace(space, used, all)
    <3>1. \A v \in Page : (\E i \in DOMAIN pages : pages[i] = v)
                         => nth(v) \in 1..Len(pages) /\ pages[nth(v)] = v
      BY <2>1
    <3> HIDE DEF nth
    <3>2. \A v \in Page : space[v].phys = IF \E i \in DOMAIN pages : pages[i] = v
                                        THEN used + 1 + nth(v) ELSE 0
      BY ZenonT(30) DEF Pte, NoPte
    <3>3. DOMAIN space = Page
      BY ZenonT(30)
    <3> HIDE DEF space
    <3>4. Len(pages) \in Nat
      BY <2>1
    <3>5. \A v \in Page : space[v].phys = 0 \/ space[v].phys \in used + 1..all
      BY <1>0, <3>1, <3>2, <3>4
    <3>6. ASSUME NEW v \in Page, NEW w \in Page, v # w, space[v].phys # 0
          PROVE  space[v].phys # space[w].phys
      BY <1>0, <3>1, <3>2, <3>4, <3>6
    <3> QED
      BY <3>3, <3>5, <3>6, ZenonT(30) DEF FreshSpace
  <2>6. KeepsPages(loaded, used)
    <3>1. \A v : DOMAIN LoadPage(n, v) = Offset
      BY ZenonT(30) DEF LoadPage
    <3>2. \A q \in Phys : q <= used => loaded[q] = mem[q]
      BY <1>0, <2>4 DEF Phys
    <3>3. \A q \in Phys : DOMAIN loaded[q] = Offset
      BY <1>0, <3>1, ZenonT(30)
    <3> QED
      BY <3>2, <3>3, ZenonT(30) DEF KeepsPages
  <2> HIDE DEF all, least, space, loaded, twice, refused, sp
  <2>7. CASE twice # {}
    BY <2>2, <2>3, <2>7, <1>0
  <2>8. CASE twice = {}
    <3>1. \/ r.rc = -1 /\ r.used \in {all - 1, all}
          \/ r.used = all /\ r.space = space /\ r.mem = loaded
      BY <2>2, <2>8
    <3> QED
      BY <3>1, <2>4, <2>5, <2>6, <1>0
  <2> QED
    BY <2>7, <2>8, ZenonT(30)
<1> QED
  BY <1>1, <1>2, ZenonT(30)

-----------------------------------------------------------------------------
(* The steps.  What a step does to the tables and to the zero page is put   *)
(* into one form for all of them.                                          *)

\* Thread t gets entry e for page v, and e maps the next page of the allocator
\* or the zero page, which a thread may not write to.
LEMMA OneEntry ==
  ASSUME IInv, NEW t \in Threads, NEW v \in Page, NEW e,
         pt' = [pt EXCEPT ![t][v] = e],
         \/ used' = used + 1 /\ zero' = zero /\ e.phys = used + 1
         \/ used' = used + 1 /\ zero = 0 /\ zero' = used + 1 /\ e.phys = used + 1 /\ ~e.w
         \/ used' = used /\ zero' = zero /\ zero # 0 /\ e.phys = zero /\ ~e.w,
         used' <= MaxPhys
  PROVE  /\ used' \in 0..MaxPhys /\ zero' \in 0..used'
         /\ DOMAIN pt' = Threads /\ \A u \in Threads : DOMAIN pt'[u] = Page
         /\ \A u \in Threads, w \in Page : pt'[u][w].phys \in 0..used'
         /\ PagesPrivate'
         /\ \A u \in Threads, w \in Page : zero' # 0 /\ pt'[u][w].phys = zero' => ~pt'[u][w].w
<1>0. /\ used \in 0..MaxPhys /\ zero \in 0..used /\ MaxPhys \in Nat
      /\ DOMAIN pt = Threads /\ \A u \in Threads : DOMAIN pt[u] = Page
      /\ \A u \in Threads, w \in Page : pt[u][w].phys \in 0..used
  BY UserSpaceAssumption, ZenonT(30) DEF IInv
<1>1. /\ DOMAIN pt' = Threads /\ \A u \in Threads : DOMAIN pt'[u] = Page
      /\ \A u \in Threads, w \in Page :
           pt'[u][w] = IF u = t /\ w = v THEN e ELSE pt[u][w]
  BY <1>0, ZenonT(30)
<1>2. used' \in 0..MaxPhys /\ zero' \in 0..used'
  BY <1>0
<1>3. \A u \in Threads, w \in Page : pt'[u][w].phys \in 0..used'
  BY <1>0, <1>1
<1>4. PagesPrivate'
  <2>1. SUFFICES ASSUME NEW a \in Threads, NEW b \in Threads, NEW x \in Page, NEW y \in Page,
                        a # b \/ x # y, pt'[a][x].phys # 0, pt'[a][x].phys = pt'[b][y].phys
                 PROVE  pt'[a][x].phys = zero'
    BY DEF PagesPrivate, Present
  <2>2. /\ a # b \/ x # y
        /\ pt[a][x].phys # 0
        /\ pt[a][x].phys = pt[b][y].phys
        => pt[a][x].phys = zero
    BY DEF IInv, PagesPrivate, Present
  <2>3. CASE a = t /\ x = v
    BY <2>1, <2>3, <1>0, <1>1
  <2>4. CASE b = t /\ y = v
    BY <2>1, <2>4, <1>0, <1>1
  <2>5. CASE ~(a = t /\ x = v) /\ ~(b = t /\ y = v)
    <3>1. pt'[a][x] = pt[a][x] /\ pt'[b][y] = pt[b][y]
      BY <2>5, <1>1
    <3>2. pt[a][x].phys = zero /\ zero # 0
      BY <2>1, <2>2, <3>1, ZenonT(30)
    <3> QED
      BY <3>1, <3>2, ZenonT(30)
  <2> QED
    BY <2>3, <2>4, <2>5, ZenonT(30)
<1>5. ASSUME NEW u \in Threads, NEW w \in Page, zero' # 0, pt'[u][w].phys = zero'
      PROVE  ~pt'[u][w].w
  <2>1. CASE u = t /\ w = v
    BY <2>1, <1>0, <1>1, <1>5
  <2>2. CASE ~(u = t /\ w = v)
    <3>1. pt'[u][w] = pt[u][w]
      BY <2>2, <1>1, ZenonT(30)
    <3>2. zero' = zero
      BY <3>1, <1>0, <1>5
    <3>3. pt[u][w].phys = zero => ~pt[u][w].w
      BY <3>2, <1>5, ZenonT(30) DEF IInv, ZeroPageClean
    <3> QED
      BY <3>1, <3>2, <3>3, <1>5, ZenonT(30)
  <2> QED
    BY <2>1, <2>2, ZenonT(30)
<1> QED
  BY <1>1, <1>2, <1>3, <1>4, <1>5, ZenonT(30)

\* A step that maps nothing and does not touch the zero page.
LEMMA SameTables ==
  ASSUME IInv, UNCHANGED <<used, pt, zero>>, panic' # "unmapped",
         DOMAIN mem' = Phys, \A q \in Phys : DOMAIN mem'[q] = Offset,
         \A o \in Offset : zero # 0 => mem'[zero][o] = mem[zero][o]
  PROVE  IInv'
<1>1. /\ used' \in 0..MaxPhys /\ zero' \in 0..used'
      /\ DOMAIN pt' = Threads /\ \A u \in Threads : DOMAIN pt'[u] = Page
      /\ \A u \in Threads, w \in Page : pt'[u][w].phys \in 0..used'
  BY ZenonT(30) DEF IInv
<1>2. PagesPrivate'
  BY DEF IInv, PagesPrivate, Present
<1>3. ZeroPageClean'
  BY ZenonT(30) DEF IInv, ZeroPageClean
<1> QED
  BY <1>1, <1>2, <1>3, ZenonT(30) DEF IInv, PtrRangeSound

\* user_exit_common, and a panic for another reason than a buffer.
LEMMA ExitOrPanicStep ==
  ASSUME IInv, UNCHANGED <<used, mem, pt, zero>>, panic' # "unmapped"
  PROVE  IInv'
<1>1. DOMAIN mem' = Phys /\ \A q \in Phys : DOMAIN mem'[q] = Offset
  BY ZenonT(30) DEF IInv
<1> QED
  BY <1>1, SameTables, ZenonT(30)

\* Launch and Exec: the new space replaces the thread's, or nothing is mapped.
LEMMA EnterStep ==
  ASSUME IInv, panic = "no", NEW t \in Threads, NEW n, NEW args, NEW envs, NEW other,
         Enter(t, n, user_prepare_image(n, args, envs), other)
  PROVE  IInv'
<1> DEFINE r == user_prepare_image(n, args, envs)
<1>1. /\ r.used \in Nat /\ used <= r.used
      /\ r.rc = 0 => FreshSpace(r.space, used, r.used) /\ KeepsPages(r.mem, used)
  BY Prepared, ZenonT(30)
<1> HIDE DEF r
<1>e. Enter(t, n, r, other)
  BY ZenonT(30) DEF r
<1>0. /\ used \in 0..MaxPhys /\ zero \in 0..used /\ MaxPhys \in Nat
      /\ DOMAIN mem = Phys /\ \A q \in Phys : DOMAIN mem[q] = Offset
      /\ DOMAIN pt = Threads /\ \A u \in Threads : DOMAIN pt[u] = Page
      /\ \A u \in Threads, w \in Page : pt[u][w].phys \in 0..used
  BY UserSpaceAssumption, ZenonT(30) DEF IInv
<1>2. CASE r.used > MaxPhys
  BY <1>2, <1>e, ExitOrPanicStep, ZenonT(30) DEF Enter
<1>3. CASE ~(r.used > MaxPhys) /\ r.rc # 0
  <2>1. used' = r.used /\ UNCHANGED <<zero, panic, mem, pt>>
    BY <1>3, <1>e, ZenonT(30) DEF Enter
  <2>2. used' \in 0..MaxPhys /\ used <= used'
    BY <1>0, <1>1, <1>3, <2>1
  <2>3. /\ zero' \in 0..used' /\ DOMAIN mem' = Phys /\ \A q \in Phys : DOMAIN mem'[q] = Offset
        /\ DOMAIN pt' = Threads /\ \A u \in Threads : DOMAIN pt'[u] = Page
        /\ \A u \in Threads, w \in Page : pt'[u][w].phys \in 0..used'
    BY <1>0, <2>1, <2>2
  <2>4. PagesPrivate'
    BY <2>1 DEF IInv, PagesPrivate, Present
  <2>5. ZeroPageClean' /\ PtrRangeSound'
    BY <2>1, ZenonT(30) DEF IInv, ZeroPageClean, PtrRangeSound
  <2> QED
    BY <2>2, <2>3, <2>4, <2>5, ZenonT(30) DEF IInv
<1>4. CASE ~(r.used > MaxPhys) /\ r.rc = 0
  <2>1. /\ used' = r.used /\ zero' = zero /\ panic' = panic
        /\ mem' = r.mem /\ pt' = [pt EXCEPT ![t] = r.space]
    BY <1>4, <1>e, ZenonT(30) DEF Enter
  <2>2. used' \in 0..MaxPhys /\ used <= used' /\ zero' \in 0..used'
    BY <1>0, <1>1, <1>4, <2>1
  <2>3. /\ DOMAIN pt' = Threads /\ DOMAIN r.space = Page
        /\ \A u \in Threads : pt'[u] = IF u = t THEN r.space ELSE pt[u]
    BY <1>0, <1>1, <1>4, <2>1, ZenonT(30) DEF FreshSpace
  <2>4. \A u \in Threads : DOMAIN pt'[u] = Page
    BY <1>0, <2>3, ZenonT(30)
  <2>5. \A w \in Page : r.space[w].phys = 0 \/ r.space[w].phys \in used + 1..used'
    BY <1>1, <1>4, <2>1, ZenonT(30) DEF FreshSpace
  <2>6. \A u \in Threads, w \in Page : pt'[u][w].phys \in 0..used'
    BY <1>0, <2>2, <2>3, <2>5
  <2>7. PagesPrivate'
    <3>1. SUFFICES ASSUME NEW a \in Threads, NEW b \in Threads, NEW x \in Page, NEW y \in Page,
                          a # b \/ x # y, pt'[a][x].phys # 0, pt'[a][x].phys = pt'[b][y].phys
                   PROVE  pt'[a][x].phys = zero'
      BY DEF PagesPrivate, Present
    <3>2. CASE a = t /\ b = t
      <4>1. r.space[x].phys # 0 /\ r.space[x].phys = r.space[y].phys /\ x # y
        BY <3>1, <3>2, <2>3, ZenonT(30)
      <4> QED
        BY <4>1, <1>1, <1>4, ZenonT(30) DEF FreshSpace
    <3>3. CASE a = t /\ b # t
      <4>1. r.space[x].phys # 0 /\ r.space[x].phys = pt[b][y].phys
        BY <3>1, <3>3, <2>3, ZenonT(30)
      <4> QED
        BY <4>1, <2>5, <1>0
    <3>4. CASE a # t /\ b = t
      <4>1. pt[a][x].phys # 0 /\ r.space[y].phys = pt[a][x].phys
        BY <3>1, <3>4, <2>3, ZenonT(30)
      <4> QED
        BY <4>1, <2>5, <1>0
    <3>5. CASE a # t /\ b # t
      <4>1. pt'[a] = pt[a] /\ pt'[b] = pt[b]
        BY <3>5, <2>3, ZenonT(30)
      <4> QED
        BY <4>1, <3>1, <2>1 DEF IInv, PagesPrivate, Present
    <3> QED
      BY <3>2, <3>3, <3>4, <3>5, ZenonT(30)
  <2>8. KeepsPages(mem', used)
    BY <1>1, <1>4, <2>1, ZenonT(30)
  <2>9. ZeroPageClean'
    <3>1. SUFFICES ASSUME zero' # 0
                   PROVE  /\ \A o \in Offset : mem'[zero'][o] = Zero
                          /\ \A u \in Threads, w \in Page :
                               pt'[u][w].phys = zero' => ~pt'[u][w].w
      BY ZenonT(30) DEF ZeroPageClean
    <3>2. mem'[zero'] = mem[zero]
      BY <3>1, <2>1, <2>8, <1>0 DEF KeepsPages, Phys
    <3>3. \A u \in Threads, w \in Page : pt'[u][w].phys = zero' => pt'[u][w] = pt[u][w]
      BY <3>1, <2>1, <2>3, <2>5, <1>0
    <3> QED
      BY <3>1, <3>2, <3>3, <2>1 DEF IInv, ZeroPageClean
  <2> QED
    BY <2>1, <2>2, <2>3, <2>4, <2>6, <2>7, <2>8, <2>9, ZenonT(30) DEF IInv, KeepsPages, PtrRangeSound
<1> QED
  BY <1>2, <1>3, <1>4, ZenonT(30)

\* Pages follow addresses, and what lies below USER_STACK_TOP has a page.
LEMMA PageOrder ==
  /\ \A x, y \in Nat : x <= y => PageOf(x) \in Nat /\ PageOf(x) <= PageOf(y)
  /\ \A x \in Nat : x < StackTop => PageOf(x) \in Page
  BY UserSpaceAssumption DEF PageOf, StackTop, Page

\* get_zero_page, and the entry of the stack that maps it.
LEMMA MapZeroStep ==
  ASSUME IInv, panic = "no", NEW t \in Threads, NEW v \in Page, MapZero(t, v)
  PROVE  IInv'
<1>0. /\ used \in 0..MaxPhys /\ zero \in 0..used /\ MaxPhys \in Nat
      /\ DOMAIN mem = Phys /\ \A q \in Phys : DOMAIN mem[q] = Offset
  BY UserSpaceAssumption, ZenonT(30) DEF IInv
<1>1. CASE zero = 0 /\ used = MaxPhys
  BY <1>1, ExitOrPanicStep, ZenonT(30) DEF MapZero, Panics
<1>2. CASE ~(zero = 0 /\ used = MaxPhys)
  <2> DEFINE e == Pte(zero', FALSE, TRUE, TRUE)
  <2>1. /\ zero' = IF zero = 0 THEN used + 1 ELSE zero
        /\ used' = IF zero = 0 THEN used + 1 ELSE used
        /\ mem' = IF zero = 0 THEN [mem EXCEPT ![used + 1] = [o \in Offset |-> Zero]] ELSE mem
        /\ pt' = [pt EXCEPT ![t][v] = e]
        /\ panic' = panic
    BY <1>2, Zenon DEF MapZero
  <2>2. e.phys = zero' /\ ~e.w
    BY ZenonT(30) DEF Pte
  <2> HIDE DEF e
  <2>3. used' <= MaxPhys
    BY <1>0, <1>2, <2>1
  <2>4. \/ used' = used + 1 /\ zero = 0 /\ zero' = used + 1 /\ e.phys = used + 1 /\ ~e.w
        \/ used' = used /\ zero' = zero /\ zero # 0 /\ e.phys = zero /\ ~e.w
    BY <2>1, <2>2, <1>0, ZenonT(30)
  <2>5. /\ used' \in 0..MaxPhys /\ zero' \in 0..used'
        /\ DOMAIN pt' = Threads /\ \A u \in Threads : DOMAIN pt'[u] = Page
        /\ \A u \in Threads, w \in Page : pt'[u][w].phys \in 0..used'
        /\ PagesPrivate'
        /\ \A u \in Threads, w \in Page : zero' # 0 /\ pt'[u][w].phys = zero' => ~pt'[u][w].w
    BY <2>1, <2>3, <2>4, OneEntry, ZenonT(30)
  <2>6. DOMAIN mem' = Phys /\ \A q \in Phys : DOMAIN mem'[q] = Offset
    BY <1>0, <2>1, ZenonT(30)
  <2>7. \A o \in Offset : mem'[zero'][o] = Zero
    <3>1. CASE zero = 0
      <4>1. used + 1 \in Phys
        BY <3>1, <1>0, <1>2 DEF Phys
      <4> QED
        BY <3>1, <4>1, <1>0, <2>1, ZenonT(30)
    <3>2. CASE zero # 0
      BY <3>2, <2>1, ZenonT(30) DEF IInv, ZeroPageClean
    <3> QED
      BY <3>1, <3>2, ZenonT(30)
  <2>8. ZeroPageClean' /\ PtrRangeSound'
    BY <2>1, <2>5, <2>7, ZenonT(30) DEF ZeroPageClean, PtrRangeSound
  <2> QED
    BY <2>5, <2>6, <2>8, ZenonT(30) DEF IInv
<1> QED
  BY <1>1, <1>2, ZenonT(30)

\* handle_user_cow_fault: a private copy of a page.
LEMMA CowStep ==
  ASSUME IInv, panic = "no", NEW t \in Threads, NEW v \in Page, Present(pt[t], v),
         handle_user_cow_fault(t, v)
  PROVE  IInv'
<1> DEFINE e == pt[t][v]
<1>0. /\ used \in 0..MaxPhys /\ zero \in 0..used /\ MaxPhys \in Nat
      /\ DOMAIN mem = Phys /\ \A q \in Phys : DOMAIN mem[q] = Offset
      /\ e.phys \in 1..used
  BY UserSpaceAssumption DEF IInv, Present
<1>1. CASE ~e.cow \/ used = MaxPhys \/ e.nx
  <2>1. UNCHANGED <<used, mem, pt, zero>> /\ panic' # "unmapped"
    BY <1>1, ZenonT(30) DEF handle_user_cow_fault, pte_lookup, user_exit, Panics
  <2> QED
    BY <2>1, ExitOrPanicStep, ZenonT(30)
<1>2. CASE ~(~e.cow \/ used = MaxPhys \/ e.nx)
  <2> DEFINE c == Pte(used + 1, TRUE, e.nx, FALSE)
  <2>1. /\ used' = used + 1 /\ zero' = zero /\ panic' = panic
        /\ mem' = [mem EXCEPT ![used + 1] = mem[e.phys]]
        /\ pt' = [pt EXCEPT ![t][v] = c]
    BY <1>2, Zenon DEF handle_user_cow_fault, pte_lookup
  <2>2. c.phys = used + 1
    BY ZenonT(30) DEF Pte
  <2> HIDE DEF c
  <2>3. used' <= MaxPhys
    BY <1>0, <1>2, <2>1
  <2>4. /\ used' \in 0..MaxPhys /\ zero' \in 0..used'
        /\ DOMAIN pt' = Threads /\ \A u \in Threads : DOMAIN pt'[u] = Page
        /\ \A u \in Threads, w \in Page : pt'[u][w].phys \in 0..used'
        /\ PagesPrivate'
        /\ \A u \in Threads, w \in Page : zero' # 0 /\ pt'[u][w].phys = zero' => ~pt'[u][w].w
    BY <2>1, <2>2, <2>3, OneEntry, ZenonT(30)
  <2>5. DOMAIN mem' = Phys /\ \A q \in Phys : DOMAIN mem'[q] = Offset
    <3>1. e.phys \in Phys
      BY <1>0 DEF Phys
    <3> QED
      BY <3>1, <1>0, <2>1, ZenonT(30)
  <2>6. zero # 0 => mem'[zero] = mem[zero]
    BY <1>0, <2>1 DEF Phys
  <2>7. ZeroPageClean' /\ PtrRangeSound'
    BY <2>1, <2>4, <2>6, ZenonT(30) DEF IInv, ZeroPageClean, PtrRangeSound
  <2> QED
    BY <2>4, <2>5, <2>7, ZenonT(30) DEF IInv
<1> QED
  BY <1>1, <1>2, ZenonT(30)

\* An access of a program: a write through an entry that allows it does not
\* reach the zero page, and a fault is one of the steps above.
LEMMA AccessStep ==
  ASSUME IInv, NEW t \in Threads, NEW a \in Addr, NEW kind, NEW rsp, Access(t, a, kind, rsp)
  PROVE  IInv'
<1> DEFINE v == PageOf(a)
           e == pt[t][v]
<1>0. panic = "no" /\ v \in Nat
  BY UserSpaceAssumption, PageOrder DEF Access, Addr
<1>1. CASE v < TopPage /\ Present(pt[t], v) /\ Allowed(e, kind)
  <2>1. v \in Page
    BY <1>0, <1>1, UserSpaceAssumption DEF Page
  <2>2. /\ UNCHANGED <<used, pt, zero, panic>>
        /\ mem' = IF kind = "write"
                  THEN [mem EXCEPT ![e.phys][a % PageWords] = Mark(t)] ELSE mem
    BY <1>1, Zenon DEF Access
  <2>3. DOMAIN mem' = Phys /\ \A q \in Phys : DOMAIN mem'[q] = Offset
    BY <2>2, ZenonT(30) DEF IInv
  <2>4. zero # 0 => mem'[zero] = mem[zero]
    <3>1. kind = "write" => e.w
      BY <1>1, ZenonT(30) DEF Allowed
    <3>2. zero # 0 /\ kind = "write" => e.phys # zero
      BY <3>1, <2>1, ZenonT(30) DEF IInv, ZeroPageClean
    <3>3. zero # 0 => zero \in DOMAIN mem
      BY UserSpaceAssumption DEF IInv, Phys
    <3> QED
      BY <2>2, <3>2, <3>3, ZenonT(30)
  <2> QED
    BY <1>0, <2>2, <2>3, <2>4, SameTables, ZenonT(30)
<1>2. CASE v < TopPage /\ Present(pt[t], v) /\ ~Allowed(e, kind)
  <2>1. v \in Page
    BY <1>0, <1>2, UserSpaceAssumption DEF Page
  <2>2. handle_user_cow_fault(t, v) \/ user_exit(t)
    BY <1>2, Zenon DEF Access
  <2>3. CASE user_exit(t)
    BY <1>0, <2>3, ExitOrPanicStep, ZenonT(30) DEF user_exit
  <2> QED
    BY <1>0, <1>2, <2>1, <2>2, <2>3, CowStep, ZenonT(30)
<1>3. CASE ~(v < TopPage /\ Present(pt[t], v))
  <2>1. (StackGrows(v, rsp) /\ MapZero(t, v)) \/ user_exit(t)
    BY <1>3, Zenon DEF Access
  <2>2. CASE StackGrows(v, rsp) /\ MapZero(t, v)
    <3>1. v \in Page
      BY <1>0, <2>2, UserSpaceAssumption DEF StackGrows, Page
    <3> QED
      BY <1>0, <2>2, <3>1, MapZeroStep, ZenonT(30)
  <2>3. CASE user_exit(t)
    BY <1>0, <2>3, ExitOrPanicStep, ZenonT(30) DEF user_exit
  <2> QED
    BY <2>1, <2>2, <2>3, ZenonT(30)
<1> QED
  BY <1>1, <1>2, <1>3, ZenonT(30)

\* A buffer that user_ptr_range accepts lies below USER_STACK_TOP, also when
\* the sum of its ends wraps, and all its pages are mapped.
LEMMA BufferMapped ==
  ASSUME NEW t, NEW a \in Addr, NEW len \in Lens, user_ptr_range(t, a, len)
  PROVE  \A b \in a..a + len - 1 : PageOf(b) \in Page /\ Present(pt[t], PageOf(b))
<1>0. /\ AddrSpace \in Nat /\ StackTop \in Nat /\ StackTop < AddrSpace
      /\ a \in 0..AddrSpace - 1 /\ len \in 1..AddrSpace - 1
  BY UserSpaceAssumption DEF StackTop, Addr, user_ptr_range
<1>1. (a + len) % AddrSpace >= a /\ (a + len) % AddrSpace <= StackTop
  BY ZenonT(30) DEF user_ptr_range
<1>2. a + len <= StackTop
  <2>1. CASE a + len < AddrSpace
    BY <1>0, <1>1, <2>1
  <2>2. CASE a + len >= AddrSpace
    <3>1. (a + len) % AddrSpace = a + len - AddrSpace
      BY <1>0, <2>2
    <3> QED
      BY <3>1, <1>0, <1>1
  <2> QED
    BY <1>0, <2>1, <2>2
<1>3. SUFFICES ASSUME NEW b \in a..a + len - 1
               PROVE  PageOf(b) \in Page /\ Present(pt[t], PageOf(b))
  BY ZenonT(30)
<1>4. a \in Nat /\ b \in Nat /\ a + len - 1 \in Nat /\ a <= b /\ b <= a + len - 1 /\ b < StackTop
  BY <1>0, <1>2
<1>5. PageOf(b) \in Page /\ PageOf(b) \in PageOf(a)..PageOf(a + len - 1)
  <2>1. /\ PageOf(a) \in Nat /\ PageOf(b) \in Nat /\ PageOf(a + len - 1) \in Nat
        /\ PageOf(a) <= PageOf(b) /\ PageOf(b) <= PageOf(a + len - 1)
    BY <1>4, PageOrder
  <2> QED
    BY <1>4, <2>1, PageOrder
<1> QED
  BY <1>5, ZenonT(30) DEF user_ptr_range

\* The kernel writes a buffer only through entries that allow writing.
LEMMA KernelCopyStep ==
  ASSUME IInv, NEW t \in Threads, NEW a \in Addr, NEW len \in Lens,
         NEW kind \in {"read", "write"}, KernelCopy(t, a, len, kind)
  PROVE  IInv'
<1> DEFINE words == a..a + len - 1
<1>0. panic = "no" /\ user_ptr_range(t, a, len)
  BY ZenonT(30) DEF KernelCopy
<1>1. \A b \in words : PageOf(b) \in Page /\ Present(pt[t], PageOf(b))
  BY <1>0, BufferMapped, ZenonT(30)
<1>2. ~\E b \in words : PageOf(b) >= TopPage \/ ~Present(pt[t], PageOf(b))
  <2>1. \A p \in Page : ~(p >= TopPage)
    BY UserSpaceAssumption DEF Page
  <2> QED
    BY <1>1, <2>1, ZenonT(30)
<1>3. CASE kind = "write" /\ \E b \in words : ~pt[t][PageOf(b)].w
  <2>1. Panics("readonly")
    BY <1>2, <1>3, Zenon DEF KernelCopy
  <2> QED
    BY <2>1, ExitOrPanicStep, ZenonT(30) DEF Panics
<1>4. CASE ~(kind = "write" /\ \E b \in words : ~pt[t][PageOf(b)].w)
  <2> DEFINE written == [q \in Phys |-> [o \in Offset |->
                IF \E b \in words : pt[t][PageOf(b)].phys = q /\ b % PageWords = o
                THEN Mark(t) ELSE mem[q][o]]]
  <2>1. UNCHANGED <<used, pt, zero, panic>> /\ mem' = IF kind = "read" THEN mem ELSE written
    BY <1>2, <1>4, Zenon DEF KernelCopy
  <2>2. DOMAIN mem' = Phys /\ \A q \in Phys : DOMAIN mem'[q] = Offset
    BY <2>1, ZenonT(30) DEF IInv
  <2>3. ASSUME zero # 0 PROVE \A o \in Offset : mem'[zero][o] = mem[zero][o]
    <3>1. zero \in Phys
      BY <2>3, UserSpaceAssumption DEF IInv, Phys
    <3>2. CASE kind = "read"
      BY <2>1, <3>2, ZenonT(30)
    <3>3. CASE kind # "read"
      <4>1. \A b \in words : pt[t][PageOf(b)].phys # zero
        BY <1>1, <1>4, <2>3, <3>3, ZenonT(30) DEF IInv, ZeroPageClean
      <4> QED
        BY <2>1, <3>1, <3>3, <4>1, ZenonT(30)
    <3> QED
      BY <3>2, <3>3, ZenonT(30)
  <2> QED
    BY <1>0, <2>1, <2>2, <2>3, SameTables, ZenonT(30)
<1> QED
  BY <1>3, <1>4, ZenonT(30)

\* Every step keeps the invariant.
LEMMA StepIInv == IInv /\ [Next]_vars => IInv'
<1> SUFFICES ASSUME IInv, [Next]_vars PROVE IInv'
  BY ZenonT(30)
<1>1. CASE UNCHANGED vars
  BY <1>1, ExitOrPanicStep, ZenonT(30) DEF vars, IInv, PtrRangeSound
<1>2. CASE Next
  <2> PICK t \in Threads :
        \/ \E n \in Paths, v \in Vectors : Launch(t, n, v.args, v.envs) \/ Exec(t, n, v.args, v.envs)
        \/ Exit(t)
        \/ \E a \in Touched, kind \in {"read", "write", "run"}, rsp \in Rsps : Access(t, a, kind, rsp)
        \/ \E a \in Addr, len \in Lens, kind \in {"read", "write"} : KernelCopy(t, a, len, kind)
    BY <1>2, Zenon DEF Next
  <2>1. ASSUME NEW n \in Paths, NEW v \in Vectors, Launch(t, n, v.args, v.envs)
        PROVE  IInv'
    BY <2>1, EnterStep, ZenonT(30) DEF Launch
  <2>2. ASSUME NEW n \in Paths, NEW v \in Vectors, Exec(t, n, v.args, v.envs)
        PROVE  IInv'
    BY <2>2, EnterStep, ZenonT(30) DEF Exec
  <2>3. CASE Exit(t)
    BY <2>3, ExitOrPanicStep, ZenonT(30) DEF Exit, user_exit
  <2>4. ASSUME NEW a \in Touched, NEW kind, NEW rsp, Access(t, a, kind, rsp)
        PROVE  IInv'
    BY <2>4, UserSpaceAssumption, AccessStep, ZenonT(30)
  <2>5. ASSUME NEW a \in Addr, NEW len \in Lens, NEW kind \in {"read", "write"},
               KernelCopy(t, a, len, kind)
        PROVE  IInv'
    BY <2>5, KernelCopyStep, ZenonT(30)
  <2> QED
    BY <2>1, <2>2, <2>3, <2>4, <2>5, ZenonT(30)
<1> QED
  BY <1>1, <1>2, ZenonT(30)

\* The invariant holds in every state.
LEMMA Invariance == Spec => []IInv
  BY InitIInv, StepIInv, PTL DEF Spec

\* Programs share no page but the zero page, which stays zero, whatever they
\* load, touch and ask the kernel to fill, in whatever order.
THEOREM Isolation == Spec => []PagesIsolated
<1>1. IInv => PagesIsolated
  BY ZenonT(30) DEF IInv, PagesIsolated
<1> QED
  BY <1>1, Invariance, PTL

\* user_ptr_range is enough of a check for any buffer address and any length
\* below 2^64: the kernel never runs into a page that is not mapped.
THEOREM CheckedBuffers == Spec => []PtrRangeSound
<1>1. IInv => PtrRangeSound
  BY ZenonT(30) DEF IInv
<1> QED
  BY <1>1, Invariance, PTL
=============================================================================
