----------------------------- MODULE PmmProofs -----------------------------
(***************************************************************************)
(* The page allocator is safe on every layout mem_init can leave, for any  *)
(* number of regions and pages.                                            *)
(***************************************************************************)
EXTENDS Pmm, FiniteSetTheorems, TLAPS

\* The inductive invariant.  BitmapExact ties the bits to the pages handed
\* out, which is what makes the page found by a search a new one.
IInv == TypeOK /\ BitmapExact /\ UsedExact /\ OutOfMemoryIsReal

\* The turns of pmm_alloc_page come to regions only, and to every one.
LEMMA TurnsArithmetic ==
  ASSUME NEW n \in Nat \ {0}, NEW c \in 0..n - 1
  PROVE  /\ \A i \in 0..n - 1 : (c + i) % n \in 0..n - 1
         /\ \A r \in 0..n - 1 : \E i \in 0..n - 1 : (c + i) % n = r
<1>1. ASSUME NEW r \in 0..n - 1 PROVE r % n = r /\ (r + n) % n = r
  BY <1>1
<1>2. ASSUME NEW i \in 0..n - 1 PROVE (c + i) % n \in 0..n - 1
  BY <1>2
<1>3. ASSUME NEW r \in 0..n - 1 PROVE \E i \in 0..n - 1 : (c + i) % n = r
  <2>1. CASE r >= c
    <3>1. r - c \in 0..n - 1 /\ c + (r - c) = r
      BY <1>3, <2>1
    <3>2. QED
      BY <1>1, <1>3, <3>1
  <2>2. CASE r < c
    <3>1. r - c + n \in 0..n - 1 /\ c + (r - c + n) = r + n
      BY <1>3, <2>2
    <3>2. QED
      BY <1>1, <1>3, <3>1
  <2>3. QED
    BY <1>3, <2>1, <2>2
<1>4. QED
  BY <1>2, <1>3, ZenonT(30)

\* What a layout is, for the current regions.
LEMMA RegionsFacts ==
  ASSUME regions \in Layouts
  PROVE  /\ Cardinality(DOMAIN regions) \in Nat \ {0}
         /\ Region = 0..Cardinality(DOMAIN regions) - 1
         /\ \A r \in Region : /\ regions[r].start \in Nat
                              /\ regions[r].total_pages \in Nat
                              /\ regions[r].reserved_pages \in Nat
                              /\ regions[r].reserved_pages <= regions[r].total_pages
         /\ \A r, s \in Region : r # s =>
              \/ regions[r].start + regions[r].total_pages <= regions[s].start
              \/ regions[s].start + regions[s].total_pages <= regions[r].start
<1>1. Layout(regions)
  BY PmmAssumption, ZenonT(30)
<1> DEFINE n == Cardinality(DOMAIN regions)
<1>2. n \in Nat \ {0} /\ regions \in [0..n - 1 -> [start : Nat, total_pages : Nat, reserved_pages : Nat]]
  BY <1>1, ZenonT(30) DEF Layout
<1>3. Region = 0..n - 1
  BY <1>2, ZenonT(30) DEF Region
<1>4. QED
  BY <1>1, <1>2, <1>3, ZenonT(30) DEF Layout

\* The same for the current regions and cursor.
LEMMA TurnsCover ==
  ASSUME regions \in Layouts, cursor_region \in Region
  PROVE  /\ \A i \in Turns : Visited(i) \in Region
         /\ \A r \in Region : \E i \in Turns : Visited(i) = r
<1> DEFINE n == Cardinality(DOMAIN regions)
<1>1. n \in Nat \ {0} /\ Region = 0..n - 1
  BY RegionsFacts, ZenonT(30)
<1>2. Turns = 0..n - 1 /\ \A i : Visited(i) = (cursor_region + i) % n
  BY ZenonT(30) DEF Turns, Visited, Region
<1> HIDE DEF n
<1>3. /\ \A i \in 0..n - 1 : (cursor_region + i) % n \in 0..n - 1
      /\ \A r \in 0..n - 1 : \E i \in 0..n - 1 : (cursor_region + i) % n = r
  BY <1>1, TurnsArithmetic, ZenonT(30)
<1>4. QED
  BY <1>1, <1>2, <1>3, ZenonT(30)

\* A visit looks at the pages that are free, and at every one of them.
LEMMA VisitLooks ==
  ASSUME regions \in Layouts, NEW r \in Region
  PROVE  /\ \A p : FindsPage(r, p) => p \in FreeIn(r)
         /\ FindsNone(r) => FreeIn(r) = {}
<1>1. /\ regions[r].total_pages \in Nat /\ regions[r].reserved_pages \in Nat
      /\ regions[r].reserved_pages <= regions[r].total_pages
  BY RegionsFacts, ZenonT(30)
<1> DEFINE t == regions[r].total_pages
           m == regions[r].reserved_pages
           f == From(r)
<1>2. /\ f \in Int /\ m <= f
      /\ m < t => f < t
      /\ r # cursor_region => f = m
  BY <1>1 DEF From
<1>3. ToTheEnd(r) \subseteq FreeIn(r) /\ (m < t => Wrapped(r) \subseteq FreeIn(r))
  <2>1. ASSUME NEW p \in ToTheEnd(r) PROVE p \in FreeIn(r)
    <3>1. p \in f..t - 1 /\ <<r, p>> \notin bitmap
      BY <2>1, ZenonT(30) DEF ToTheEnd
    <3>2. p \in 0..t - 1 /\ p >= m
      BY <1>1, <1>2, <3>1
    <3>3. QED
      BY <3>1, <3>2, ZenonT(30) DEF FreeIn, Pages
  <2>2. ASSUME m < t, NEW p \in Wrapped(r) PROVE p \in FreeIn(r)
    <3>1. p \in m..f - 1 /\ <<r, p>> \notin bitmap
      BY <2>2, ZenonT(30) DEF Wrapped
    <3>2. p \in 0..t - 1 /\ p >= m
      BY <1>1, <1>2, <2>2, <3>1
    <3>3. QED
      BY <3>1, <3>2, ZenonT(30) DEF FreeIn, Pages
  <2>3. QED
    BY <2>1, <2>2, ZenonT(30)
<1>4. ASSUME NEW p, FindsPage(r, p) PROVE p \in FreeIn(r)
  <2>1. m < t
    BY <1>1, <1>4 DEF FindsPage
  <2>2. p \in ToTheEnd(r) \/ p \in Wrapped(r)
    BY <1>4, ZenonT(30) DEF FindsPage
  <2>3. QED
    BY <1>3, <2>1, <2>2, ZenonT(30)
<1>5. ASSUME FindsNone(r), NEW p \in FreeIn(r) PROVE FALSE
  <2>1. p \in 0..t - 1 /\ p >= m /\ <<r, p>> \notin bitmap
    BY <1>5, ZenonT(30) DEF FreeIn, Pages
  <2>2. t > m
    BY <1>1, <2>1
  <2>3. ToTheEnd(r) = {} /\ Wrapped(r) = {}
    BY <1>5, <2>2, ZenonT(30) DEF FindsNone
  <2>4. p \notin f..t - 1
    BY <2>1, <2>3, ZenonT(30) DEF ToTheEnd
  <2>5. p \in m..f - 1 /\ r = cursor_region
    BY <1>1, <1>2, <2>1, <2>4
  <2>6. QED
    BY <2>1, <2>3, <2>5, ZenonT(30) DEF Wrapped
<1>6. QED
  BY <1>4, <1>5, ZenonT(30)

\* An address belongs to one page of one region.
LEMMA AddrUnique ==
  ASSUME regions \in Layouts,
         NEW r \in Region, NEW p \in Pages(r),
         NEW s \in Region, NEW q \in Pages(s),
         AddrOf(r, p) = AddrOf(s, q)
  PROVE  r = s /\ p = q
<1>1. /\ regions[r].start \in Nat /\ regions[r].total_pages \in Nat
      /\ regions[s].start \in Nat /\ regions[s].total_pages \in Nat
  BY RegionsFacts, ZenonT(30)
<1>2. /\ p \in Int /\ 0 <= p /\ p < regions[r].total_pages
      /\ q \in Int /\ 0 <= q /\ q < regions[s].total_pages
  BY <1>1 DEF Pages
<1>3. regions[r].start + p = regions[s].start + q
  BY ZenonT(30) DEF AddrOf
<1>4. r = s
  <2> SUFFICES ASSUME r # s PROVE FALSE
    BY ZenonT(30)
  <2>1. \/ regions[r].start + regions[r].total_pages <= regions[s].start
        \/ regions[s].start + regions[s].total_pages <= regions[r].start
    BY RegionsFacts, ZenonT(30)
  <2>2. QED
    BY <1>1, <1>2, <1>3, <2>1
<1>5. QED
  BY <1>1, <1>2, <1>3, <1>4

\* The metadata pages are finitely many.
LEMMA ReservedFinite ==
  ASSUME regions \in Layouts
  PROVE  IsFiniteSet(Reserved) /\ Cardinality(Reserved) \in Nat
<1> DEFINE f == [r \in Region |-> {r} \X (0..regions[r].reserved_pages - 1)]
           S == {{r} \X (0..regions[r].reserved_pages - 1) : r \in Region}
<1>1. IsFiniteSet(Region)
  BY RegionsFacts, FS_Interval
<1>2. f \in Surjection(Region, S)
  BY ZenonT(30) DEF Surjection
<1>3. IsFiniteSet(S)
  <2> HIDE DEF f, S
  <2> QED BY <1>1, <1>2, FS_Surjection, ZenonT(30)
<1>4. \A T \in S : IsFiniteSet(T)
  <2> SUFFICES ASSUME NEW r \in Region
               PROVE  IsFiniteSet({r} \X (0..regions[r].reserved_pages - 1))
    BY ZenonT(30)
  <2>1. IsFiniteSet({r})
    BY FS_Singleton, ZenonT(30)
  <2>2. regions[r].reserved_pages - 1 \in Int
    BY RegionsFacts
  <2>3. IsFiniteSet(0..regions[r].reserved_pages - 1)
    BY <2>2, FS_Interval
  <2>4. QED
    BY <2>1, <2>3, FS_Product, ZenonT(30)
<1>5. IsFiniteSet(UNION S)
  <2> HIDE DEF S
  <2> QED BY <1>3, <1>4, FS_UNION, ZenonT(30)
<1>6. QED
  BY <1>5, FS_CardinalityType, ZenonT(30) DEF Reserved

\* The state setup_bitmaps leaves satisfies the invariant.
LEMMA InitIInv == Init => IInv
<1> SUFFICES ASSUME Init PROVE IInv
  BY ZenonT(30)
<1>0. regions \in Layouts
  BY ZenonT(30) DEF Init
<1>1. TypeOK
  <2>1. Reserved \subseteq UNION {{r} \X Pages(r) : r \in Region}
    BY <1>0, RegionsFacts DEF Reserved, Pages
  <2>2. 0 \in Region
    BY <1>0, RegionsFacts
  <2>3. QED
    BY <1>0, <2>1, <2>2, ReservedFinite, ZenonT(30) DEF Init, TypeOK
<1>2. BitmapExact
  BY <1>0, RegionsFacts DEF Init, BitmapExact, Reserved, Pages
<1>3. UsedExact
  BY <1>0, ReservedFinite, FS_EmptySet DEF Init, UsedExact
<1>4. OutOfMemoryIsReal
  BY ZenonT(30) DEF Init, OutOfMemoryIsReal
<1>5. QED
  BY <1>1, <1>2, <1>3, <1>4, ZenonT(30) DEF IInv

\* Handing out the set A of new pages of region r.
LEMMA HandOut ==
  ASSUME IInv, panicked = "no",
         NEW r \in Region, NEW P, P \subseteq FreeIn(r),
         regions' = regions, panicked' = panicked,
         bitmap' = bitmap \cup ({r} \X P),
         held' = held \cup {AddrOf(r, q) : q \in P}
  PROVE  /\ bitmap' \subseteq UNION {{s} \X Pages(s) : s \in Region}
         /\ held' \subseteq Nat
         /\ BitmapExact'
         /\ held \cap {AddrOf(r, q) : q \in P} = {}
<1>0. regions \in Layouts /\ bitmap \subseteq UNION {{s} \X Pages(s) : s \in Region} /\ held \subseteq Nat
  BY ZenonT(30) DEF IInv, TypeOK
<1>1. \A q \in P : /\ q \in Pages(r) /\ q >= regions[r].reserved_pages
                    /\ <<r, q>> \notin bitmap
  BY ZenonT(30) DEF FreeIn
<1>2. bitmap' \subseteq UNION {{s} \X Pages(s) : s \in Region}
  BY <1>0, <1>1
<1>3. held' \subseteq Nat
  <2>1. regions[r].start \in Nat /\ regions[r].total_pages \in Nat
    BY <1>0, RegionsFacts, ZenonT(30)
  <2>2. ASSUME NEW q \in P PROVE AddrOf(r, q) \in Nat
    <3>1. q \in 0..regions[r].total_pages - 1
      BY <1>1, ZenonT(30) DEF Pages
    <3>2. q \in Nat
      BY <2>1, <3>1
    <3>3. QED
      BY <2>1, <3>2 DEF AddrOf
  <2>3. QED
    BY <1>0, <2>2, ZenonT(30)
<1>4. \A q \in P : AddrOf(r, q) \notin held
  BY <1>1, ZenonT(30) DEF IInv, BitmapExact
<1>5. ASSUME NEW s \in Region, NEW p \in Pages(s)
      PROVE  <<s, p>> \in bitmap' <=>
               (p < regions[s].reserved_pages \/ AddrOf(s, p) \in held')
  <2>1. <<s, p>> \in bitmap <=> (p < regions[s].reserved_pages \/ AddrOf(s, p) \in held)
    BY ZenonT(30) DEF IInv, BitmapExact
  <2>2. <<s, p>> \in {r} \X P <=> AddrOf(s, p) \in {AddrOf(r, q) : q \in P}
    <3>1. ASSUME NEW q \in P, AddrOf(s, p) = AddrOf(r, q)
          PROVE  s = r /\ p = q
      BY <1>0, <1>1, <3>1, AddrUnique, ZenonT(30)
    <3>2. QED
      BY <3>1, ZenonT(30)
  <2>3. QED
    BY <2>1, <2>2, ZenonT(30)
<1>6. ASSUME NEW a \in held'
      PROVE  \E s \in Region : \E p \in Pages(s) :
               p >= regions[s].reserved_pages /\ a = AddrOf(s, p)
  BY <1>1, ZenonT(30) DEF IInv, BitmapExact
<1>7. BitmapExact'
  BY <1>5, <1>6, ZenonT(30) DEF BitmapExact, Region, Pages, AddrOf
<1>8. QED
  BY <1>2, <1>3, <1>4, <1>7, ZenonT(30)

\* Counting a set A of new addresses.
LEMMA CountMore ==
  ASSUME IInv, NEW A, IsFiniteSet(A), held \cap A = {},
         regions' = regions, held' = held \cup A,
         used_pages' = used_pages + Cardinality(A)
  PROVE  UsedExact' /\ used_pages' \in Nat
<1>1. regions \in Layouts /\ IsFiniteSet(held) /\ used_pages \in Nat
      /\ used_pages = Cardinality(Reserved) + Cardinality(held)
  BY ZenonT(30) DEF IInv, TypeOK, UsedExact
<1>2. Cardinality(held) \in Nat /\ Cardinality(A) \in Nat /\ Cardinality(Reserved) \in Nat
  BY <1>1, FS_CardinalityType, ReservedFinite, ZenonT(30)
<1>3. IsFiniteSet(held') /\ Cardinality(held') = Cardinality(held) + Cardinality(A)
  BY <1>1, <1>2, FS_Union, FS_EmptySet
<1>4. Reserved' = Reserved
  BY ZenonT(30) DEF Reserved, Region
<1>5. QED
  BY <1>1, <1>2, <1>3, <1>4 DEF UsedExact

\* pmm_alloc_page preserves the invariant.
LEMMA AllocPageStep ==
  ASSUME IInv, NEW i \in Turns, NEW p \in Pages(Visited(i)), AllocPage(i, p)
  PROVE  IInv'
<1>a. PICK r \in Region : r = Visited(i)
  BY TurnsCover, ZenonT(30) DEF IInv, TypeOK
<1>b. p \in Pages(r) /\ FindsPage(r, p)
  BY <1>a, ZenonT(30) DEF AllocPage
<1>c. p \in FreeIn(r)
  BY <1>b, VisitLooks, ZenonT(30) DEF IInv, TypeOK
<1> DEFINE A == {AddrOf(r, q) : q \in {p}}
<1>0. regions \in Layouts /\ regions' = regions /\ panicked = "no" /\ panicked' = panicked
      /\ used_pages' = used_pages + 1 /\ cursor_region' = r /\ cursor_page' = p + 1
  BY <1>a, ZenonT(30) DEF IInv, TypeOK, AllocPage
<1>1. A = {AddrOf(r, p)} /\ held' = held \cup A /\ bitmap' = bitmap \cup ({r} \X {p})
      /\ {p} \subseteq FreeIn(r)
  BY <1>a, <1>c DEF AllocPage
<1>2. IsFiniteSet(A) /\ Cardinality(A) = 1
  BY <1>1, FS_Singleton, ZenonT(30)
<1>3. /\ bitmap' \subseteq UNION {{s} \X Pages(s) : s \in Region}
      /\ held' \subseteq Nat
      /\ BitmapExact'
      /\ held \cap A = {}
  BY <1>0, <1>1, HandOut, ZenonT(30)
<1>4. UsedExact' /\ used_pages' \in Nat
  <2> HIDE DEF A
  <2> QED BY <1>0, <1>1, <1>2, <1>3, CountMore, ZenonT(30)
<1>5. TypeOK'
  <2>1. Region' = Region /\ \A s \in Region : Pages(s)' = Pages(s)
    BY <1>0, ZenonT(30) DEF Region, Pages
  <2>2. cursor_page' \in Nat
    BY <1>0, <1>b, RegionsFacts DEF Pages
  <2>3. (UNION {{s} \X Pages(s) : s \in Region})' = UNION {{s} \X Pages(s) : s \in Region}
    BY <1>0, ZenonT(30) DEF Region, Pages
  <2>4. QED
    BY <1>0, <1>3, <1>4, <2>1, <2>2, <2>3, ZenonT(30) DEF TypeOK
<1>6. OutOfMemoryIsReal'
  BY <1>0, ZenonT(30) DEF OutOfMemoryIsReal
<1>7. QED
  BY <1>3, <1>4, <1>5, <1>6, ZenonT(30) DEF IInv

\* pmm_alloc_pages preserves it.
LEMMA AllocPagesStep ==
  ASSUME IInv, NEW n \in 2..MaxPages, NEW r \in Region, NEW p \in Pages(r),
         AllocPages(n, r, p)
  PROVE  IInv'
<1> DEFINE A == {AddrOf(r, q) : q \in p..p + n - 1}
<1>0. regions \in Layouts /\ regions' = regions /\ panicked = "no" /\ panicked' = panicked
      /\ used_pages' = used_pages + n
      /\ cursor_region' = cursor_region /\ cursor_page' = cursor_page
  BY ZenonT(30) DEF IInv, TypeOK, AllocPages
<1>1. held' = held \cup A /\ bitmap' = bitmap \cup ({r} \X (p..p + n - 1))
      /\ p..p + n - 1 \subseteq FreeIn(r)
  BY ZenonT(30) DEF AllocPages, Runs
<1>2. IsFiniteSet(A) /\ Cardinality(A) = n
  <2>1. n \in Nat /\ n >= 2 /\ p \in Nat /\ regions[r].start \in Nat
    BY <1>0, RegionsFacts, PmmAssumption DEF Pages
  <2> DEFINE b == regions[r].start + p
  <2>2. A = b..b + n - 1
    <3>1. ASSUME NEW x \in b..b + n - 1 PROVE x \in A
      <4>1. x - regions[r].start \in p..p + n - 1 /\ x = regions[r].start + (x - regions[r].start)
        BY <2>1
      <4>2. QED
        BY <4>1, ZenonT(30) DEF AddrOf
    <3>2. ASSUME NEW q \in p..p + n - 1 PROVE AddrOf(r, q) \in b..b + n - 1
      BY <2>1 DEF AddrOf
    <3>3. QED
      BY <3>1, <3>2, ZenonT(30)
  <2>3. QED
    <3>1. b \in Int /\ b + n - 1 \in Int
      BY <2>1
    <3>2. IsFiniteSet(b..b + n - 1)
          /\ Cardinality(b..b + n - 1) = IF b > b + n - 1 THEN 0 ELSE (b + n - 1) - b + 1
      <4> HIDE DEF b
      <4> QED BY <3>1, FS_Interval, ZenonT(30)
    <3>3. ~(b > b + n - 1) /\ (b + n - 1) - b + 1 = n
      BY <2>1, <3>1
    <3> HIDE DEF A, b
    <3>4. QED
      BY <2>2, <3>2, <3>3, ZenonT(30)
<1>3. /\ bitmap' \subseteq UNION {{s} \X Pages(s) : s \in Region}
      /\ held' \subseteq Nat
      /\ BitmapExact'
      /\ held \cap A = {}
  BY <1>0, <1>1, HandOut, ZenonT(30)
<1>4. UsedExact' /\ used_pages' \in Nat
  <2> HIDE DEF A
  <2> QED BY <1>0, <1>1, <1>2, <1>3, CountMore, ZenonT(30)
<1>5. TypeOK'
  <2>1. Region' = Region
    BY <1>0, ZenonT(30) DEF Region
  <2>2. (UNION {{s} \X Pages(s) : s \in Region})' = UNION {{s} \X Pages(s) : s \in Region}
    BY <1>0, ZenonT(30) DEF Region, Pages
  <2>3. QED
    BY <1>0, <1>3, <1>4, <2>1, <2>2, ZenonT(30) DEF TypeOK, IInv
<1>6. OutOfMemoryIsReal'
  BY <1>0, ZenonT(30) DEF OutOfMemoryIsReal
<1>7. QED
  BY <1>3, <1>4, <1>5, <1>6, ZenonT(30) DEF IInv

\* pmm_free_page preserves it.
LEMMA FreePageStep ==
  ASSUME IInv, NEW a \in Addr, FreePage(a)
  PROVE  IInv'
<1>0. /\ regions \in Layouts /\ regions' = regions /\ panicked = "no" /\ panicked' = panicked
      /\ used_pages' = used_pages - 1 /\ held' = held \ {a}
      /\ cursor_region' = cursor_region /\ cursor_page' = cursor_page
  BY ZenonT(30) DEF IInv, TypeOK, FreePage
<1> PICK r \in Region : PageAt(r, a) /\ bitmap' = bitmap \ {<<r, a - regions[r].start>>}
  BY ZenonT(30) DEF FreePage
<1> DEFINE p == a - regions[r].start
<1>1. /\ p \in Pages(r) /\ p >= regions[r].reserved_pages /\ <<r, p>> \in bitmap
      /\ a = AddrOf(r, p)
  <2>1. a \in Nat /\ regions[r].start \in Nat /\ regions[r].total_pages \in Nat
    BY <1>0, RegionsFacts, PmmAssumption, ZenonT(30)
  <2>2. QED
    BY <2>1 DEF PageAt, Contains, Pages, AddrOf
<1> HIDE DEF p
<1>2. bitmap' = bitmap \ {<<r, p>>}
  BY ZenonT(30) DEF p
<1>3. a \in held
  <2>1. ~(p < regions[r].reserved_pages)
    <3>1. regions[r].reserved_pages \in Nat /\ regions[r].total_pages \in Nat
      BY <1>0, RegionsFacts, ZenonT(30)
    <3>2. p \in Int
      BY <1>1, <3>1 DEF Pages
    <3>3. QED
      BY <1>1, <3>1, <3>2
  <2>2. QED
    BY <1>1, <2>1, ZenonT(30) DEF IInv, BitmapExact
<1>4. UsedExact' /\ used_pages' \in Nat
  <2>1. IsFiniteSet(held) /\ used_pages = Cardinality(Reserved) + Cardinality(held)
    BY ZenonT(30) DEF IInv, UsedExact
  <2>2. Cardinality(held) \in Nat /\ Cardinality(Reserved) \in Nat
    BY <1>0, <2>1, FS_CardinalityType, ReservedFinite, ZenonT(30)
  <2>3. IsFiniteSet(held') /\ Cardinality(held') = Cardinality(held) - 1
    BY <1>0, <1>3, <2>1, FS_RemoveElement, ZenonT(30)
  <2>4. Cardinality(held') \in Nat
    BY <2>3, FS_CardinalityType, ZenonT(30)
  <2>5. Reserved' = Reserved
    BY <1>0, ZenonT(30) DEF Reserved, Region
  <2>6. QED
    BY <1>0, <2>1, <2>2, <2>3, <2>4, <2>5 DEF UsedExact
<1>5. ASSUME NEW s \in Region, NEW q \in Pages(s)
      PROVE  <<s, q>> \in bitmap' <=>
               (q < regions[s].reserved_pages \/ AddrOf(s, q) \in held')
  <2>1. <<s, q>> \in bitmap <=> (q < regions[s].reserved_pages \/ AddrOf(s, q) \in held)
    BY ZenonT(30) DEF IInv, BitmapExact
  <2>2. CASE AddrOf(s, q) = a
    <3>1. s = r /\ q = p
      BY <1>0, <1>1, <2>2, AddrUnique
    <3>2. ~(q < regions[s].reserved_pages)
      <4>1. regions[r].reserved_pages \in Nat /\ regions[r].total_pages \in Nat
        BY <1>0, RegionsFacts, ZenonT(30)
      <4>2. p \in Int
        BY <1>1, <4>1 DEF Pages
      <4>3. QED
        BY <1>1, <3>1, <4>1, <4>2
    <3>3. QED
      BY <1>0, <1>2, <2>2, <3>1, <3>2, ZenonT(30)
  <2>3. CASE AddrOf(s, q) # a
    <3>1. <<s, q>> # <<r, p>>
      BY <1>1, <2>3, ZenonT(30)
    <3>2. QED
      BY <1>0, <1>2, <2>1, <2>3, <3>1, ZenonT(30)
  <2>4. QED
    BY <2>2, <2>3, ZenonT(30)
<1>6. ASSUME NEW b \in held'
      PROVE  \E s \in Region : \E q \in Pages(s) :
               q >= regions[s].reserved_pages /\ b = AddrOf(s, q)
  BY <1>0, ZenonT(30) DEF IInv, BitmapExact
<1>7. BitmapExact'
  BY <1>0, <1>5, <1>6 DEF BitmapExact, Region, Pages, AddrOf
<1>8. TypeOK'
  <2>1. Region' = Region
    BY <1>0, ZenonT(30) DEF Region
  <2>2. (UNION {{s} \X Pages(s) : s \in Region})' = UNION {{s} \X Pages(s) : s \in Region}
    BY <1>0, ZenonT(30) DEF Region, Pages
  <2>3. bitmap' \subseteq bitmap /\ held' \subseteq held
    BY <1>0, <1>2, ZenonT(30)
  <2>4. QED
    BY <1>0, <1>4, <2>1, <2>2, <2>3, ZenonT(30) DEF TypeOK, IInv
<1>9. OutOfMemoryIsReal'
  BY <1>0, ZenonT(30) DEF OutOfMemoryIsReal
<1>10. QED
  BY <1>4, <1>7, <1>8, <1>9, ZenonT(30) DEF IInv

\* A panic changes nothing but panicked; the one of pmm_alloc_page comes when
\* no turn has found a page, and the turns have looked at every free page.
LEMMA PanicStep ==
  ASSUME IInv,
         NEW why \in {"out_of_memory", "no_run", "bad_free"},
         Panic(why),
         why = "out_of_memory" => \A i \in Turns : FindsNone(Visited(i))
  PROVE  IInv'
<1>0. /\ regions' = regions /\ bitmap' = bitmap /\ used_pages' = used_pages
      /\ cursor_region' = cursor_region /\ cursor_page' = cursor_page /\ held' = held
      /\ panicked' = why
  BY ZenonT(30) DEF Panic
<1>1. TypeOK' /\ BitmapExact' /\ UsedExact'
  BY <1>0 DEF IInv, TypeOK, BitmapExact, UsedExact, Region, Pages, AddrOf, Reserved
<1>2. OutOfMemoryIsReal'
  <2> SUFFICES ASSUME panicked' = "out_of_memory",
                      NEW r \in Region, NEW p \in Pages(r), p >= regions[r].reserved_pages
               PROVE  AddrOf(r, p) \in held
    BY <1>0, ZenonT(30) DEF OutOfMemoryIsReal, Region, Pages, AddrOf
  <2>0. regions \in Layouts /\ cursor_region \in Region
    BY ZenonT(30) DEF IInv, TypeOK
  <2>1. FreeIn(r) = {}
    <3>1. PICK i \in Turns : Visited(i) = r
      BY <2>0, TurnsCover, ZenonT(30)
    <3>2. FindsNone(r)
      BY <1>0, <3>1, ZenonT(30)
    <3>3. QED
      BY <2>0, <3>2, VisitLooks, ZenonT(30)
  <2>2. <<r, p>> \in bitmap
    BY <2>1, ZenonT(30) DEF FreeIn
  <2>3. ~(p < regions[r].reserved_pages)
    <3>1. regions[r].reserved_pages \in Nat /\ regions[r].total_pages \in Nat
      BY RegionsFacts, ZenonT(30) DEF IInv, TypeOK
    <3>2. p \in Int
      BY <3>1 DEF Pages
    <3>3. QED
      BY <3>1, <3>2
  <2>4. QED
    BY <2>2, <2>3, ZenonT(30) DEF IInv, BitmapExact
<1>3. QED
  BY <1>1, <1>2, ZenonT(30) DEF IInv

\* Every step of the allocator preserves it.
LEMMA StepIInv == IInv /\ [Next]_vars => IInv'
<1> SUFFICES ASSUME IInv, [Next]_vars PROVE IInv'
  BY ZenonT(30)
<1>1. CASE \E i \in Turns : \E p \in Pages(Visited(i)) : AllocPage(i, p)
  BY <1>1, AllocPageStep, ZenonT(30)
<1>2. CASE \E n \in 2..MaxPages : \E r \in Region : \E p \in Pages(r) : AllocPages(n, r, p)
  BY <1>2, AllocPagesStep, ZenonT(30)
<1>3. CASE \E a \in Addr : FreePage(a)
  BY <1>3, FreePageStep, ZenonT(30)
<1>4. CASE OutOfMemory
  BY <1>4, PanicStep, ZenonT(30) DEF OutOfMemory
<1>5. CASE \E n \in 2..MaxPages : NoRun(n)
  BY <1>5, PanicStep, ZenonT(30) DEF NoRun
<1>6. CASE \E a \in Addr : FreePanics(a)
  BY <1>6, PanicStep, ZenonT(30) DEF FreePanics
<1>7. CASE UNCHANGED vars
  BY <1>7 DEF vars, IInv, TypeOK, BitmapExact, UsedExact, OutOfMemoryIsReal,
              Region, Pages, AddrOf, Reserved
<1>8. QED
  BY <1>1, <1>2, <1>3, <1>4, <1>5, <1>6, <1>7, ZenonT(30) DEF Next

\* Every reachable state of the allocator satisfies the invariant.
THEOREM Invariance == Spec => []IInv
  BY InitIInv, StepIInv, PTL DEF Spec

\* The allocator is type correct.
THEOREM TypeCorrect == Spec => []TypeOK
<1>1. IInv => TypeOK
  BY ZenonT(30) DEF IInv
<1>2. QED
  BY <1>1, Invariance, PTL

\* No page is handed out twice by pmm_alloc_page and pmm_alloc_pages, and no
\* page of the bitmaps ever.
THEOREM BitmapSafety == Spec => []BitmapExact
<1>1. IInv => BitmapExact
  BY ZenonT(30) DEF IInv
<1>2. QED
  BY <1>1, Invariance, PTL

\* used_pages is exact: the self-test of kernel_main cannot report a leak.
THEOREM CounterSafety == Spec => []UsedExact
<1>1. IInv => UsedExact
  BY ZenonT(30) DEF IInv
<1>2. QED
  BY <1>1, Invariance, PTL

\* When pmm_alloc_page panics, every page it manages is in use.
THEOREM PanicSafety == Spec => []OutOfMemoryIsReal
<1>1. IInv => OutOfMemoryIsReal
  BY ZenonT(30) DEF IInv
<1>2. QED
  BY <1>1, Invariance, PTL

\* pmm_free_page accepts an address exactly when its page is handed out.
THEOREM FreeSafety == Spec => []FreeExact
<1>1. IInv => FreeExact
  <2> SUFFICES ASSUME IInv, NEW a \in Addr
               PROVE  (\E r \in Region : PageAt(r, a)) <=> a \in held
    BY ZenonT(30) DEF FreeExact
  <2>0. regions \in Layouts /\ a \in Nat
    BY PmmAssumption, ZenonT(30) DEF IInv, TypeOK
  <2>1. ASSUME NEW r \in Region, PageAt(r, a) PROVE a \in held
    <3>1. /\ regions[r].start \in Nat /\ regions[r].total_pages \in Nat
          /\ regions[r].reserved_pages \in Nat
      BY <2>0, RegionsFacts, ZenonT(30)
    <3> DEFINE p == a - regions[r].start
    <3>2. p \in Pages(r) /\ a = AddrOf(r, p) /\ <<r, p>> \in bitmap
          /\ ~(p < regions[r].reserved_pages)
      BY <2>0, <2>1, <3>1 DEF PageAt, Contains, Pages, AddrOf
    <3> HIDE DEF p
    <3>3. QED
      BY <3>2, ZenonT(30) DEF IInv, BitmapExact
  <2>2. ASSUME a \in held PROVE \E r \in Region : PageAt(r, a)
    <3> PICK r \in Region : \E p \in Pages(r) : p >= regions[r].reserved_pages /\ a = AddrOf(r, p)
      BY <2>2, ZenonT(30) DEF IInv, BitmapExact
    <3>1. PICK p \in Pages(r) : p >= regions[r].reserved_pages /\ a = AddrOf(r, p)
      BY ZenonT(30)
    <3>2. /\ regions[r].start \in Nat /\ regions[r].total_pages \in Nat
          /\ regions[r].reserved_pages \in Nat
      BY <2>0, RegionsFacts, ZenonT(30)
    <3>3. p \in Int /\ 0 <= p /\ p < regions[r].total_pages
      BY <3>2 DEF Pages
    <3>4. a = regions[r].start + p /\ a - regions[r].start = p
      BY <3>1, <3>2, <3>3 DEF AddrOf
    <3>5. <<r, p>> \in bitmap
      BY <2>2, <3>1, ZenonT(30) DEF IInv, BitmapExact
    <3>6. Contains(r, a)
      BY <3>2, <3>3, <3>4 DEF Contains
    <3>7. ASSUME NEW s \in Region, s < r PROVE ~Contains(s, a)
      <4>1. s # r
        BY <2>0, <3>7, RegionsFacts
      <4>2. /\ regions[s].start \in Nat /\ regions[s].total_pages \in Nat
            /\ \/ regions[r].start + regions[r].total_pages <= regions[s].start
               \/ regions[s].start + regions[s].total_pages <= regions[r].start
        BY <2>0, <4>1, RegionsFacts, ZenonT(30)
      <4>3. QED
        BY <3>2, <3>3, <3>4, <4>2 DEF Contains
    <3>8. QED
      BY <3>1, <3>4, <3>5, <3>6, <3>7, ZenonT(30) DEF PageAt
  <2>3. QED
    BY <2>1, <2>2, ZenonT(30)
<1>2. QED
  BY <1>1, Invariance, PTL
=============================================================================
