----------------------------- MODULE HandleOpens ----------------------------
(***************************************************************************)
(* The calls that make handles and files: SYSCALL_OPEN and SYSCALL_PIPE    *)
(* preserve the invariant of Handles, and when they fail they leave the    *)
(* tables as they were.                                                    *)
(***************************************************************************)
EXTENDS HandleReferences

USE Z3T(30)

(* A new handle and a new descriptor. *)

\* handle_alloc returns a free handle or none.
LEMMA FirstFreeIs ==
  ASSUME Counting, NEW k
  PROVE  FirstFree(k) = None \/ (FirstFree(k) \in Handle /\ k.handles[FirstFree(k)].type = "FREE")
<1> DEFINE T == {h \in Handle : k.handles[h].type = "FREE"}
<1>1. CASE T = {}
  BY <1>1, ZenonT(30) DEF FirstFree
<1>2. CASE T # {}
  <2>1. T \subseteq Nat
    BY Sorts, Zenon
  <2>2. \E h \in T : \A g \in T : h <= g
    <3> HIDE DEF T
    <3> QED
      BY <1>2, <2>1, LeastNumber, Zenon
  <2>3. FirstFree(k) = CHOOSE h \in T : \A g \in T : h <= g
    BY <1>2, Zenon DEF FirstFree
  <2>4. FirstFree(k) \in T
    <3> HIDE DEF T
    <3> QED
      BY <2>2, <2>3, ZenonT(30)
  <2> QED
    BY <2>4, ZenonT(30)
<1> QED
  BY <1>1, <1>2, ZenonT(30)

\* sched_allocate_fd returns an unused descriptor or none.
LEMMA FirstFdIs ==
  ASSUME Counting, NEW t
  PROVE  FirstFd(t) = None \/ (FirstFd(t) \in Fd /\ t[FirstFd(t)] = None)
<1> DEFINE T == {d \in Fd : t[d] = None}
<1>1. CASE T = {}
  BY <1>1, ZenonT(30) DEF FirstFd
<1>2. CASE T # {}
  <2>1. T \subseteq Nat
    BY Sorts, Zenon
  <2>2. \E h \in T : \A g \in T : h <= g
    <3> HIDE DEF T
    <3> QED
      BY <1>2, <2>1, LeastNumber, Zenon
  <2>3. FirstFd(t) = CHOOSE h \in T : \A g \in T : h <= g
    BY <1>2, ZenonT(30) DEF FirstFd
  <2>4. FirstFd(t) \in T
    <3> HIDE DEF T
    <3> QED
      BY <2>2, <2>3, ZenonT(30)
  <2> QED
    BY <2>4, ZenonT(30)
<1> QED
  BY <1>1, <1>2, ZenonT(30)

\* Open files other than the ones in X are held; the tables are sound otherwise.
HeldBut(k, X) ==
  \A f \in File \ X : k.files[f] # NoFile =>
    \E h \in Handle : k.handles[h].type = "VFS" /\ k.handles[h].file = f

SoundBut(k, F, X) ==
  /\ k \in TablesType /\ F \in FdTables
  /\ HandlesSound(k) /\ HeldBut(k, X) /\ PipesSound(k) /\ CountsExact(k, F)

\* A file that no handle has.
Unheld(k, f) ==
  /\ f \in File /\ k.files[f] # NoFile
  /\ \A g \in Handle : k.handles[g].type = "VFS" => k.handles[g].file # f

\* What a new handle may be given: the console, or a file that no handle has.
Fits(k, type, f) == (type = "TTY" /\ f = None) \/ (type = "VFS" /\ Unheld(k, f))

\* The files of the handles of k are open in o.
FilesOpen(k, o) ==
  \A h \in Handle : k.handles[h].type = "VFS" => o.files[k.handles[h].file] # NoFile

\* The handles stay in order as long as their files stay open.
LEMMA HandlesStay ==
  ASSUME NEW k, HandlesSound(k), NEW o, o.handles = k.handles, o.leaked = k.leaked,
         FilesOpen(k, o)
  PROVE  HandlesSound(o)
  BY ZenonT(30) DEF HandlesSound, FilesOpen

\* Nothing is left out when X is empty.
LEMMA SoundAll ==
  ASSUME NEW k, NEW F
  PROVE  Sound(k, F) <=> SoundBut(k, F, {})
<1>1. File \ {} = File
  BY ZenonT(30)
<1> QED
  BY <1>1, ZenonT(30) DEF Sound, SoundBut, FilesHeld, HeldBut

\* k1 is k with a new handle h.
Installed(k, h, type, f, k1) ==
  /\ k1 \in TablesType
  /\ k1.files = k.files /\ k1.pipes = k.pipes /\ k1.leaked = k.leaked
  /\ k1.lost = k.lost /\ k1.twice = k.twice
  /\ k1.handles = [k.handles EXCEPT ![h] = [type |-> type, file |-> f, refcount |-> 1]]
  /\ k1.handles[h] = [type |-> type, file |-> f, refcount |-> 1]
  /\ \A g \in Handle \ {h} : k1.handles[g] = k.handles[g]

\* handle_alloc and what fills the handle in.
LEMMA InstallFields ==
  ASSUME NEW k \in TablesType, NEW h \in Handle, NEW type, NEW f, Fits(k, type, f),
         NEW k1, k1 = Install(k, h, type, f)
  PROVE  Installed(k, h, type, f, k1)
<1> DEFINE H == [k.handles EXCEPT ![h] = [type |-> type, file |-> f, refcount |-> 1]]
<1>1. [type |-> type, file |-> f, refcount |-> 1] \in HandleRec
  BY DEF Fits, Unheld, HandleRec
<1>2. H \in [Handle -> HandleRec]
  BY <1>1, ZenonT(30) DEF TablesType
<1>3. k1 = [k EXCEPT !.handles = H]
  BY ZenonT(30) DEF Install, TablesType
<1>4. /\ k1 \in TablesType /\ k1.handles = H
      /\ k1.files = k.files /\ k1.pipes = k.pipes /\ k1.leaked = k.leaked
      /\ k1.lost = k.lost /\ k1.twice = k.twice
  <2> HIDE DEF H
  <2> QED
    BY <1>2, <1>3, ZenonT(30) DEF TablesType
<1> QED
  BY <1>4, ZenonT(30) DEF TablesType, Installed

\* It keeps handles and files in order.
LEMMA InstallSound ==
  ASSUME NEW k \in TablesType, HandlesSound(k), PipesSound(k), NEW X, HeldBut(k, X),
         NEW h \in Handle, k.handles[h].type = "FREE",
         NEW type, NEW f, Fits(k, type, f), NEW k1, k1 = Install(k, h, type, f)
  PROVE  /\ HandlesSound(k1) /\ PipesSound(k1) /\ HeldBut(k1, X \ {f})
<1>1. /\ k1 \in TablesType
      /\ k1.files = k.files /\ k1.pipes = k.pipes /\ k1.leaked = k.leaked
      /\ k1.handles[h] = [type |-> type, file |-> f, refcount |-> 1]
      /\ \A g \in Handle \ {h} : k1.handles[g] = k.handles[g]
  <2>1. Installed(k, h, type, f, k1)
    BY InstallFields, ZenonT(30)
  <2> QED
    BY <2>1, ZenonT(30) DEF Installed
<1>2. k1.handles[h].type = type /\ k1.handles[h].file = f
  BY <1>1
<1>3. HandlesSound(k1)
  <2>1. \A g \in Handle : k1.handles[g].type = "FREE" =>
          k1.handles[g] = FreeHandle /\ k1.leaked[g] = 0
    BY <1>1, <1>2, ZenonT(30) DEF HandlesSound, Fits
  <2>2. \A g \in Handle : k1.handles[g].type = "TTY" => k1.handles[g].file = None
    BY <1>1, <1>2 DEF HandlesSound, Fits
  <2>3. \A g \in Handle : k1.handles[g].type = "VFS" =>
          k1.handles[g].file \in File /\ k1.files[k1.handles[g].file] # NoFile
    BY <1>1, <1>2 DEF HandlesSound, Fits, Unheld
  <2>4. \A g, e \in Handle :
          k1.handles[g].type = "VFS" /\ k1.handles[e].type = "VFS"
            /\ k1.handles[g].file = k1.handles[e].file => g = e
    BY <1>1, <1>2 DEF HandlesSound, Fits, Unheld
  <2> QED
    BY <2>1, <2>2, <2>3, <2>4, Zenon DEF HandlesSound
<1>4. HeldBut(k1, X \ {f})
  <2> SUFFICES ASSUME NEW e \in File \ (X \ {f}), k1.files[e] # NoFile
               PROVE  \E g \in Handle : k1.handles[g].type = "VFS" /\ k1.handles[g].file = e
    BY Zenon DEF HeldBut
  <2>1. CASE e = f
    BY <1>2, <2>1, Sorts, ZenonT(30) DEF Fits
  <2>2. CASE e # f
    <3>1. PICK g \in Handle : k.handles[g].type = "VFS" /\ k.handles[g].file = e
      BY <1>1, <2>2, Zenon DEF HeldBut
    <3> QED
      BY <1>1, <3>1, Zenon
  <2> QED
    BY <2>1, <2>2, Zenon
<1> QED
  BY <1>1, <1>3, <1>4 DEF PipesSound

\* A new handle and the descriptor that gets it.
LEMMA InstallStep ==
  ASSUME Counting, NEW k, NEW F, NEW X, SoundBut(k, F, X), NEW h \in Handle,
         k.handles[h].type = "FREE", NEW type, NEW f, Fits(k, type, f),
         NEW k1, k1 = Install(k, h, type, f),
         NEW p \in Proc, NEW d \in Fd, F[p][d] = None,
         NEW F1, F1 = [F EXCEPT ![p][d] = h]
  PROVE  SoundBut(k1, F1, X \ {f})
<1>1. /\ k \in TablesType /\ F \in FdTables
      /\ HandlesSound(k) /\ HeldBut(k, X) /\ PipesSound(k) /\ CountsExact(k, F)
  BY ZenonT(30) DEF SoundBut
<1>2. F1 \in FdTables /\ OneMore(F, F1, h)
  BY <1>1, NamesAdd, Zenon
<1>3. HandlesSound(k1) /\ PipesSound(k1) /\ HeldBut(k1, X \ {f})
  BY <1>1, InstallSound, ZenonT(30)
<1>4. /\ k1 \in TablesType
      /\ k1.leaked = k.leaked /\ k1.lost = k.lost
      /\ k1.handles[h] = [type |-> type, file |-> f, refcount |-> 1]
      /\ \A g \in Handle \ {h} : k1.handles[g] = k.handles[g]
  <2>1. Installed(k, h, type, f, k1)
    BY <1>1, InstallFields, ZenonT(30)
  <2> QED
    BY <2>1, Zenon DEF Installed
<1>5. CountsExact(k1, F1)
  <2> SUFFICES ASSUME ~k1.lost PROVE
        /\ \A g \in Handle : k1.handles[g].refcount + Untaken(g) =
                               Cardinality(Names(F1, g)) + k1.leaked[g]
        /\ \A g \in Std : k1.handles[g].type = "TTY"
        /\ \A g \in Handle \ Std :
             k1.handles[g].type # "FREE" => k1.handles[g].refcount >= 1
    BY Zenon DEF CountsExact
  <2>1. ~k.lost
    BY <1>4, ZenonT(30)
  <2>2. h \notin Std /\ Cardinality(Names(F, h)) = 0
    BY <1>1, <2>1, FreeUnnamed, ZenonT(30)
  <2>3. /\ \A g \in Handle : k.handles[g].refcount + Untaken(g) =
                               Cardinality(Names(F, g)) + k.leaked[g]
        /\ \A g \in Std : k.handles[g].type = "TTY"
        /\ \A g \in Handle \ Std :
             k.handles[g].type # "FREE" => k.handles[g].refcount >= 1
    BY <1>1, <2>1, Zenon DEF CountsExact
  <2>4. ASSUME NEW g \in Handle
        PROVE  k1.handles[g].refcount + Untaken(g) =
                 Cardinality(Names(F1, g)) + k1.leaked[g]
    <3>1. Cardinality(Names(F1, g)) =
            IF g = h THEN Cardinality(Names(F, g)) + 1 ELSE Cardinality(Names(F, g))
      BY <1>2, Zenon DEF OneMore
    <3>2. CASE g = h
      <4>1. k1.handles[g].refcount = 1 /\ k1.leaked[g] = 0
        BY <1>1, <1>4, <3>2 DEF HandlesSound
      <4>2. Untaken(g) = 0
        BY <2>2, <3>2, UntakenNat, ZenonT(30)
      <4>3. Cardinality(Names(F1, g)) = 0 + 1
        BY <2>2, <3>1, <3>2, ZenonT(30)
      <4> QED
        BY <4>1, <4>2, <4>3
    <3>3. CASE g # h
      BY <1>4, <2>3, <3>1, <3>3, Zenon
    <3> QED
      BY <3>2, <3>3, Zenon
  <2>5. \A g \in Std : k1.handles[g].type = "TTY"
    BY <1>4, <2>2, <2>3, Sorts, Zenon
  <2>6. ASSUME NEW g \in Handle \ Std, k1.handles[g].type # "FREE"
        PROVE  k1.handles[g].refcount >= 1
    BY <1>4, <2>3, <2>6
  <2> QED
    BY <2>4, <2>5, <2>6, Zenon
<1> QED
  BY <1>2, <1>3, <1>4, <1>5, Zenon DEF SoundBut

-----------------------------------------------------------------------------
(* The ways back: an open or a pipe that fails leaves the tables alone. *)

\* Tables with the same fields are the same.
LEMMA TablesEq ==
  ASSUME NEW k \in TablesType, NEW k1 \in TablesType,
         k1.handles = k.handles, k1.files = k.files, k1.pipes = k.pipes,
         k1.leaked = k.leaked, k1.lost = k.lost, k1.twice = k.twice
  PROVE  k1 = k
  BY DEF TablesType

\* What closing a file does to the pipes depends on files and pipes only.
LEMMA ClosesAlike ==
  ASSUME NEW k \in TablesType, NEW i \in TablesType, PipesSound(k),
         i.files = k.files, i.pipes = k.pipes, NEW f \in File, k.files[f] # NoFile
  PROVE  VfsClose(i, f).pipes = VfsClose(k, f).pipes
<1>1. PipesSound(i)
  BY DEF PipesSound
<1>2. Closed(k, f, VfsClose(k, f)) /\ Closed(i, f, VfsClose(i, f))
  BY <1>1, CloseFields, ZenonT(30)
<1>3. k.files[f].kind \in {"file", "reader", "writer"}
  <2>1. k.files[f] \in FileRec
    BY ZenonT(30) DEF TablesType
  <2>2. k.files[f].kind = "none" => k.files[f].pipe = None
    BY <2>1, Zenon DEF PipesSound, IsEnd, FileRec
  <2> QED
    BY <2>1, <2>2, ZenonT(30) DEF FileRec, NoFile
<1> DEFINE v == VfsClose(k, f)
           u == VfsClose(i, f)
<1> HIDE DEF v, u
<1>4. Closed(k, f, v) /\ Closed(i, f, u)
  BY <1>2, ZenonT(30) DEF v, u
<1>5. u.pipes = v.pipes
  <2>1. CASE k.files[f].kind = "file"
    BY <1>4, <2>1, ZenonT(30) DEF Closed
  <2>2. CASE k.files[f].kind = "reader"
    <3>1. v.pipes = [k.pipes EXCEPT ![k.files[f].pipe].readers = @ - 1]
      BY <1>4, <2>2, Zenon DEF Closed
    <3>2. u.pipes = [i.pipes EXCEPT ![i.files[f].pipe].readers = @ - 1]
      BY <1>4, <2>2, Zenon DEF Closed
    <3> QED
      BY <3>1, <3>2, Zenon
  <2>3. CASE k.files[f].kind = "writer"
    <3>1. v.pipes = [k.pipes EXCEPT ![k.files[f].pipe].writers = @ - 1]
      BY <1>4, <2>3, Zenon DEF Closed
    <3>2. u.pipes = [i.pipes EXCEPT ![i.files[f].pipe].writers = @ - 1]
      BY <1>4, <2>3, Zenon DEF Closed
    <3> QED
      BY <3>1, <3>2, Zenon
  <2> QED
    BY <1>3, <2>1, <2>2, <2>3, ZenonT(30)
<1> QED
  BY <1>5, ZenonT(30) DEF v, u

\* A handle released as soon as it is made leaves nothing but its file closed.
LEMMA ReleaseNew ==
  ASSUME NEW k \in TablesType, NEW X, HandlesSound(k), HeldBut(k, X), PipesSound(k),
         NEW h \in Handle, ~k.lost => h \notin Std,
         k.handles[h].type = "FREE", NEW type, NEW f, Fits(k, type, f),
         NEW i, i = Install(k, h, type, f)
  PROVE  /\ type = "VFS" => Release(i, h) = VfsClose(k, f)
         /\ type = "TTY" => Release(i, h) = k
<1> DEFINE r == Release(i, h)
<1>2. Installed(k, h, type, f, i)
  BY InstallFields, ZenonT(30)
<1>3. HandlesSound(i) /\ PipesSound(i)
  BY InstallSound, Zenon
<1>4. /\ i \in TablesType
      /\ i.files = k.files /\ i.pipes = k.pipes /\ i.leaked = k.leaked
      /\ i.lost = k.lost /\ i.twice = k.twice
      /\ i.handles = [k.handles EXCEPT ![h] = [type |-> type, file |-> f, refcount |-> 1]]
      /\ i.handles[h].type = type /\ i.handles[h].file = f /\ i.handles[h].refcount = 1
      /\ type # "FREE"
  BY <1>2 DEF Installed, Fits
<1>5. Freed(i, h, r)
  <2>1. i.handles[h].type # "FREE" /\ ~(i.handles[h].refcount - 1 > 0)
    BY <1>4
  <2> QED
    BY <1>3, <1>4, <2>1, ReleaseFreed, Zenon
<1> HIDE DEF r
<1>6. r.handles = k.handles
  <2>1. r.handles = [i.handles EXCEPT ![h] = FreeHandle]
    BY <1>5, Zenon DEF Freed
  <2>2. k.handles[h] = FreeHandle
    BY Zenon DEF HandlesSound
  <2> QED
    BY <1>4, <2>1, <2>2, Zenon DEF TablesType
<1>7. r.leaked = k.leaked
  <2>1. r.leaked = [i.leaked EXCEPT ![h] = 0]
    BY <1>5, Zenon DEF Freed
  <2>2. k.leaked[h] = 0
    BY Zenon DEF HandlesSound
  <2> QED
    BY <1>4, <2>1, <2>2, Zenon DEF TablesType
<1>8. r.lost = k.lost
  <2>1. r.lost <=> (k.lost \/ h \in Std)
    BY <1>4, <1>5, Zenon DEF Freed
  <2>3. r.lost \in BOOLEAN /\ k.lost \in BOOLEAN
    BY <1>5, Zenon DEF Freed, TablesType
  <2> QED
    BY <2>1, <2>3, ZenonT(30)
<1>9. r \in TablesType /\ r.twice = k.twice
  BY <1>4, <1>5, Zenon DEF Freed
<1>10. ASSUME type = "TTY" PROVE r = k
  <2>1. r.files = k.files /\ r.pipes = k.pipes
    BY <1>4, <1>5, <1>10, ZenonT(30) DEF Freed
  <2> QED
    BY <1>6, <1>7, <1>8, <1>9, <2>1, TablesEq, ZenonT(30)
<1>11. ASSUME type = "VFS" PROVE r = VfsClose(k, f)
  <2> DEFINE v == VfsClose(k, f)
  <2>0. f \in File /\ k.files[f] # NoFile
    BY <1>11, ZenonT(30) DEF Fits, Unheld
  <2>1. Closed(k, f, v)
    BY <2>0, CloseFields, ZenonT(30)
  <2>2. v.pipes = VfsClose(i, f).pipes
    BY <1>4, <2>0, ClosesAlike, Zenon
  <2> HIDE DEF v
  <2>3. r.files = [k.files EXCEPT ![f] = NoFile] /\ r.pipes = v.pipes
    BY <1>4, <1>5, <1>11, <2>2 DEF Freed
  <2>4. /\ v \in TablesType /\ v.files = [k.files EXCEPT ![f] = NoFile]
        /\ v.handles = k.handles /\ v.leaked = k.leaked /\ v.lost = k.lost
        /\ v.twice = k.twice
    BY <2>1, Zenon DEF Closed
  <2>5. r = v
    BY <1>6, <1>7, <1>8, <1>9, <2>3, <2>4, TablesEq
  <2> QED
    BY <2>5, ZenonT(30) DEF v
<1> QED
  BY <1>10, <1>11, ZenonT(30) DEF r

\* In particular in tables that are sound but for the new files.
LEMMA ReleaseInstalled ==
  ASSUME Counting, NEW k, NEW F, NEW X, SoundBut(k, F, X), NEW h \in Handle,
         k.handles[h].type = "FREE", NEW type, NEW f, Fits(k, type, f),
         NEW i, i = Install(k, h, type, f)
  PROVE  /\ type = "VFS" => Release(i, h) = VfsClose(k, f)
         /\ type = "TTY" => Release(i, h) = k
<1>1. /\ k \in TablesType
      /\ HandlesSound(k) /\ HeldBut(k, X) /\ PipesSound(k) /\ CountsExact(k, F)
  BY ZenonT(30) DEF SoundBut
<1>2. ~k.lost => h \notin Std
  BY <1>1, FreeUnnamed, ZenonT(30)
<1> QED
  BY <1>1, <1>2, ReleaseNew

\* The order of two new handles does not matter.
LEMMA InstallCommute ==
  ASSUME NEW k \in TablesType, NEW a \in Handle, NEW b \in Handle, a # b,
         NEW r, NEW w
  PROVE  Install(Install(k, a, "VFS", r), b, "VFS", w) =
           Install(Install(k, b, "VFS", w), a, "VFS", r)
<1> DEFINE A == [type |-> "VFS", file |-> r, refcount |-> 1]
           B == [type |-> "VFS", file |-> w, refcount |-> 1]
<1> HIDE DEF A, B
<1>1. [[k.handles EXCEPT ![a] = A] EXCEPT ![b] = B] =
        [[k.handles EXCEPT ![b] = B] EXCEPT ![a] = A]
  BY ZenonT(30) DEF TablesType
<1>2. [[k EXCEPT !.handles[a] = A] EXCEPT !.handles[b] = B] =
        [[k EXCEPT !.handles[b] = B] EXCEPT !.handles[a] = A]
  BY <1>1, Zenon DEF TablesType
<1> QED
  BY <1>2, ZenonT(30) DEF Install, A, B

\* Nor does the order of a new handle and the closing of another file.
LEMMA CloseInstalled ==
  ASSUME NEW k \in TablesType, PipesSound(k), NEW h \in Handle,
         NEW r \in File, NEW w \in File, r # w,
         k.files[r] # NoFile, Unheld(k, w)
  PROVE  VfsClose(Install(k, h, "VFS", w), r) = Install(VfsClose(k, r), h, "VFS", w)
<1> DEFINE i == Install(k, h, "VFS", w)
           v == VfsClose(k, r)
           x == VfsClose(i, r)
           y == Install(v, h, "VFS", w)
<1>1. Installed(k, h, "VFS", w, i)
  BY InstallFields, ZenonT(30) DEF Fits
<1>2. Closed(k, r, v)
  BY CloseFields, ZenonT(30)
<1> HIDE DEF i, v
<1>3. /\ i \in TablesType /\ i.files = k.files /\ i.pipes = k.pipes
      /\ i.leaked = k.leaked /\ i.lost = k.lost /\ i.twice = k.twice
      /\ i.handles = [k.handles EXCEPT ![h] = [type |-> "VFS", file |-> w, refcount |-> 1]]
  BY <1>1, ZenonT(30) DEF Installed
<1>4. /\ v \in TablesType /\ v.files = [k.files EXCEPT ![r] = NoFile]
      /\ v.handles = k.handles /\ v.leaked = k.leaked /\ v.lost = k.lost
      /\ v.twice = k.twice
  BY <1>2, Zenon DEF Closed
<1>5. PipesSound(i)
  BY <1>3 DEF PipesSound
<1>6. Closed(i, r, x)
  BY <1>3, <1>5, CloseFields, ZenonT(30)
<1>7. Unheld(v, w)
  BY <1>4, ZenonT(30) DEF Unheld, TablesType
<1>8. Installed(v, h, "VFS", w, y)
  BY <1>4, <1>7, InstallFields, ZenonT(30) DEF Fits
<1>9. x.pipes = v.pipes
  BY <1>3, ClosesAlike, ZenonT(30) DEF v
<1> HIDE DEF x, y
<1>10. /\ x \in TablesType /\ x.handles = i.handles /\ x.leaked = i.leaked
       /\ x.lost = i.lost /\ x.twice = i.twice /\ x.files = [i.files EXCEPT ![r] = NoFile]
  BY <1>6, Zenon DEF Closed
<1>11. /\ y \in TablesType /\ y.files = v.files /\ y.pipes = v.pipes
       /\ y.leaked = v.leaked /\ y.lost = v.lost /\ y.twice = v.twice
       /\ y.handles = [v.handles EXCEPT ![h] = [type |-> "VFS", file |-> w, refcount |-> 1]]
  BY <1>8, ZenonT(30) DEF Installed
<1>12. x = y
  BY <1>3, <1>4, <1>9, <1>10, <1>11, TablesEq
<1> QED
  BY <1>12, ZenonT(30) DEF x, y, i, v

\* Closing a file that no handle has keeps the handles in order.
LEMMA ClosedUnheld ==
  ASSUME NEW k \in TablesType, HandlesSound(k), PipesSound(k), NEW X, HeldBut(k, X),
         NEW f, Unheld(k, f), NEW v, v = VfsClose(k, f)
  PROVE  /\ v \in TablesType /\ v.handles = k.handles /\ v.lost = k.lost
         /\ v.leaked = k.leaked /\ HandlesSound(v) /\ PipesSound(v) /\ HeldBut(v, X)
         /\ \A g : g # f /\ Unheld(k, g) => Unheld(v, g)
<1>1. f \in File /\ k.files[f] # NoFile
  BY Zenon DEF Unheld
<1>2. Closed(k, f, v) /\ PipesSound(v)
  BY <1>1, CloseFields, ClosePipes, Zenon
<1>3. /\ v \in TablesType /\ v.handles = k.handles /\ v.lost = k.lost
      /\ v.leaked = k.leaked /\ v.files = [k.files EXCEPT ![f] = NoFile]
  BY <1>2, Zenon DEF Closed
<1>4. \A g \in File : v.files[g] = IF g = f THEN NoFile ELSE k.files[g]
  BY <1>3, Zenon DEF TablesType
<1>5. HandlesSound(v)
  <2>1. \A h \in Handle : k.handles[h].type = "VFS" => k.handles[h].file # f
    BY Zenon DEF Unheld
  <2>2. FilesOpen(k, v)
    BY <1>4, <2>1, Zenon DEF HandlesSound, FilesOpen
  <2> QED
    BY <1>3, <2>2, HandlesStay, Zenon
<1>6. HeldBut(v, X)
  BY <1>3, <1>4 DEF HeldBut
<1>7. \A g : g # f /\ Unheld(k, g) => Unheld(v, g)
  BY <1>3, <1>4, ZenonT(30) DEF Unheld
<1> QED
  BY <1>2, <1>3, <1>5, <1>6, <1>7, Zenon

\* Two new handles given back one after the other leave their files closed.
LEMMA ReleasePair ==
  ASSUME Counting, NEW k, NEW F, NEW r, NEW w, r # w, SoundBut(k, F, {r, w}),
         Unheld(k, r), Unheld(k, w), NEW g \in Handle, NEW h \in Handle, g # h,
         k.handles[g].type = "FREE", k.handles[h].type = "FREE"
  PROVE  Release(Release(Install(Install(k, g, "VFS", r), h, "VFS", w), g), h) =
           VfsClose(VfsClose(k, r), w)
<1> DEFINE j == Install(k, h, "VFS", w)
           v == VfsClose(k, r)
<1>1. /\ k \in TablesType /\ HandlesSound(k) /\ HeldBut(k, {r, w}) /\ PipesSound(k)
      /\ CountsExact(k, F) /\ Fits(k, "VFS", r) /\ Fits(k, "VFS", w)
      /\ r \in File /\ w \in File /\ k.files[r] # NoFile
  BY Zenon DEF SoundBut, Fits, Unheld
<1>2. Install(Install(k, g, "VFS", r), h, "VFS", w) = Install(j, g, "VFS", r)
  BY <1>1, InstallCommute
<1>3. Installed(k, h, "VFS", w, j)
  BY <1>1, InstallFields, Zenon
<1>4. HandlesSound(j) /\ PipesSound(j) /\ HeldBut(j, {r, w} \ {w})
  BY <1>1, InstallSound, Zenon
<1>5. VfsClose(j, r) = Install(v, h, "VFS", w)
  BY <1>1, CloseInstalled, Zenon
<1>6. /\ HandlesSound(v) /\ PipesSound(v) /\ HeldBut(v, {r, w}) /\ v \in TablesType
      /\ v.handles = k.handles /\ v.lost = k.lost /\ Unheld(v, w)
  BY <1>1, ClosedUnheld
<1>7. ~k.lost => g \notin Std /\ h \notin Std
  BY <1>1, FreeUnnamed, Zenon
<1> HIDE DEF j, v
<1>8. /\ j \in TablesType /\ j.files = k.files /\ j.lost = k.lost
      /\ j.handles[h] = [type |-> "VFS", file |-> w, refcount |-> 1]
      /\ \A x \in Handle \ {h} : j.handles[x] = k.handles[x]
  BY <1>3, Zenon DEF Installed
<1>9. j.handles[g].type = "FREE" /\ Fits(j, "VFS", r)
  BY <1>8 DEF Unheld, Fits
<1>10. Release(Install(j, g, "VFS", r), g) = VfsClose(j, r)
  BY <1>4, <1>7, <1>8, <1>9, ReleaseNew
<1>11. Fits(v, "VFS", w)
  BY <1>6, Zenon DEF Fits
<1>12. Release(Install(v, h, "VFS", w), h) = VfsClose(v, w)
  BY <1>6, <1>7, <1>11, ReleaseNew
<1> QED
  BY <1>2, <1>5, <1>10, <1>12, Zenon DEF v

\* Tables that differ in the double close alone are as sound.
LEMMA SameSound ==
  ASSUME NEW k, NEW F, Sound(k, F), NEW b \in TablesType, b.handles = k.handles,
         b.files = k.files, b.pipes = k.pipes, b.leaked = k.leaked, b.lost = k.lost
  PROVE  Sound(b, F)
<1>1. F \in FdTables /\ HandlesSound(b)
  BY ZenonT(30) DEF Sound, HandlesSound
<1>2. FilesHeld(b)
  BY Zenon DEF Sound, FilesHeld
<1>3. PipesSound(b)
  <2>1. PipesSound(k)
    BY Zenon DEF Sound
  <2> QED
    BY <2>1 DEF PipesSound
<1>4. CountsExact(b, F)
  BY Zenon DEF Sound, CountsExact
<1> QED
  BY <1>1, <1>2, <1>3, <1>4, Zenon DEF Sound

\* o has new files next to those of k.
Grown(k, o) ==
  /\ o.handles = k.handles /\ o.lost = k.lost
  /\ \A f \in File : k.files[f] # NoFile => o.files[f] = k.files[f]

\* vfs_open makes a file; closing it again undoes that.
LEMMA OpenedFile ==
  ASSUME NEW k, NEW F, Sound(k, F), NEW f \in File, k.files[f] = NoFile,
         NEW o, o = [k EXCEPT !.files[f].kind = "file"]
  PROVE  SoundBut(o, F, {f}) /\ Unheld(o, f) /\ VfsClose(o, f) = k /\ Grown(k, o)
<1> DEFINE r == [kind |-> "file", pipe |-> None]
<1>1. /\ k \in TablesType /\ F \in FdTables
      /\ HandlesSound(k) /\ FilesHeld(k) /\ PipesSound(k) /\ CountsExact(k, F)
  BY ZenonT(30) DEF Sound
<1>2. /\ o \in TablesType /\ o.files = [k.files EXCEPT ![f] = r]
      /\ o.handles = k.handles /\ o.pipes = k.pipes /\ o.leaked = k.leaked
      /\ o.lost = k.lost /\ o.twice = k.twice
  <2>1. [k.files EXCEPT ![f].kind = "file"] = [k.files EXCEPT ![f] = r]
    BY <1>1 DEF TablesType, NoFile
  <2>2. [k.files EXCEPT ![f] = r] \in [File -> FileRec]
    BY <1>1, ZenonT(30) DEF TablesType, FileRec
  <2>3. o = [k EXCEPT !.files = [k.files EXCEPT ![f].kind = "file"]]
    BY <1>1, ZenonT(30) DEF TablesType
  <2>4. o = [k EXCEPT !.files = [k.files EXCEPT ![f] = r]]
    BY <2>1, <2>3, ZenonT(30)
  <2> HIDE DEF r
  <2> QED
    BY <1>1, <2>2, <2>4, Zenon DEF TablesType
<1>3. \A g \in File : o.files[g] = IF g = f THEN r ELSE k.files[g]
  BY <1>1, <1>2, Zenon DEF TablesType
<1>4. HandlesSound(o)
  <2>1. r # NoFile
    BY ZenonT(30) DEF NoFile
  <2> HIDE DEF r
  <2>2. FilesOpen(k, o)
    BY <1>1, <1>3, <2>1, Zenon DEF HandlesSound, FilesOpen
  <2> QED
    BY <1>1, <1>2, <2>2, HandlesStay, Zenon
<1>5. HeldBut(o, {f})
  BY <1>1, <1>2, <1>3 DEF HeldBut, FilesHeld
<1>6. PipesSound(o)
  <2>1. \A g \in File : (o.files[g].pipe \in File) <=> IsEnd(o.files[g])
    BY <1>1, <1>3, Sorts DEF PipesSound, IsEnd
  <2>2. \A g, e \in File : IsEnd(o.files[g]) /\ o.files[g] = o.files[e] => g = e
    BY <1>1, <1>3 DEF PipesSound, IsEnd
  <2>3. ASSUME NEW q \in File, NEW kind \in {"reader", "writer"}
        PROVE  (\E g \in File : o.files[g] = EndOf(kind, q)) <=>
                 (\E g \in File : k.files[g] = EndOf(kind, q))
    <3>1. r # EndOf(kind, q) /\ k.files[f] # EndOf(kind, q)
      BY DEF EndOf, NoFile
    <3> QED
      BY <1>3, <3>1, ZenonT(30)
  <2> QED
    BY <1>1, <1>2, <2>1, <2>2, <2>3 DEF PipesSound
<1>7. CountsExact(o, F)
  BY <1>1, <1>2, Zenon DEF CountsExact
<1>8. Unheld(o, f)
  BY <1>1, <1>2, <1>3 DEF Unheld, HandlesSound, NoFile
<1>9. VfsClose(o, f) = k
  <2> DEFINE v == VfsClose(o, f)
  <2>1. Closed(o, f, v)
    BY <1>2, <1>6, <1>8, CloseFields, Zenon DEF Unheld
  <2> HIDE DEF v
  <2>2. o.files[f].kind = "file"
    BY <1>3
  <2>3. /\ v \in TablesType /\ v.handles = o.handles /\ v.leaked = o.leaked
        /\ v.lost = o.lost /\ v.twice = o.twice /\ v.pipes = o.pipes
        /\ v.files = [o.files EXCEPT ![f] = NoFile]
    BY <2>1, <2>2, Zenon DEF Closed
  <2>4. v.files = k.files
    BY <1>1, <1>2, <2>3, ZenonT(30) DEF TablesType
  <2>5. v = k
    BY <1>1, <1>2, <2>3, <2>4, TablesEq
  <2> QED
    BY <2>5, ZenonT(30) DEF v
<1>10. Grown(k, o)
  BY <1>2, <1>3, ZenonT(30) DEF Grown
<1> QED
  BY <1>1, <1>2, <1>4, <1>5, <1>6, <1>7, <1>8, <1>9, <1>10, ZenonT(30) DEF SoundBut

\* pipe_create makes a pipe and its two files; closing both undoes that.
LEMMA CreatedPipe ==
  ASSUME NEW k, NEW F, Sound(k, F), NEW q \in File, NEW r \in File, NEW w \in File,
         r # w, k.files[r] = NoFile, k.files[w] = NoFile, k.pipes[q] = NoPipe,
         NEW o, o = PipeCreate(k, q, r, w)
  PROVE  /\ SoundBut(o, F, {r, w}) /\ Unheld(o, r) /\ Unheld(o, w)
         /\ VfsClose(VfsClose(o, r), w) = k /\ Grown(k, o)
<1> DEFINE R == EndOf("reader", q)
           W == EndOf("writer", q)
           P == [readers |-> 1, writers |-> 1]
<1> HIDE DEF R, W, P
<1>1. /\ k \in TablesType /\ F \in FdTables
      /\ HandlesSound(k) /\ FilesHeld(k) /\ PipesSound(k) /\ CountsExact(k, F)
  BY ZenonT(30) DEF Sound
<1>a. /\ o \in TablesType /\ o.files = [[k.files EXCEPT ![r] = R] EXCEPT ![w] = W]
      /\ o.pipes = [k.pipes EXCEPT ![q] = P]
      /\ o.handles = k.handles /\ o.leaked = k.leaked
      /\ o.lost = k.lost /\ o.twice = k.twice
  <2>1. R \in FileRec /\ W \in FileRec /\ P \in PipeRec
    BY DEF FileRec, EndOf, PipeRec, R, W, P
  <2>2. o = [k EXCEPT !.files = [[k.files EXCEPT ![r] = R] EXCEPT ![w] = W],
                      !.pipes = [k.pipes EXCEPT ![q] = P]]
    BY <1>1, Zenon DEF PipeCreate, EndOf, TablesType, R, W, P
  <2>3. /\ [[k.files EXCEPT ![r] = R] EXCEPT ![w] = W] \in [File -> FileRec]
        /\ [k.pipes EXCEPT ![q] = P] \in [File -> PipeRec]
    BY <1>1, <2>1, ZenonT(30) DEF TablesType
  <2> QED
    BY <1>1, <2>2, <2>3, Zenon DEF TablesType
<1>2. /\ o \in TablesType /\ o.handles = k.handles /\ o.leaked = k.leaked
      /\ o.lost = k.lost /\ o.twice = k.twice
  BY <1>a, ZenonT(30)
<1>3. /\ \A g \in File : o.files[g] = IF g = r THEN R ELSE IF g = w THEN W ELSE k.files[g]
      /\ \A g \in File : o.pipes[g] = IF g = q THEN P ELSE k.pipes[g]
  BY <1>1, <1>a, Zenon DEF TablesType
<1>4. /\ R # NoFile /\ W # NoFile /\ R # W
      /\ IsEnd(R) /\ R.pipe = q /\ IsEnd(W) /\ W.pipe = q
  BY ZenonT(30) DEF EndOf, NoFile, IsEnd, R, W
<1>5. HandlesSound(o)
  <2>1. FilesOpen(k, o)
    BY <1>1, <1>3, <1>4, Zenon DEF HandlesSound, FilesOpen
  <2> QED
    BY <1>1, <1>2, <2>1, HandlesStay, Zenon
<1>6. HeldBut(o, {r, w})
  BY <1>1, <1>2, <1>3 DEF HeldBut, FilesHeld
<1>7. \A g \in File, kind \in {"reader", "writer"} : k.files[g] # EndOf(kind, q)
  <2> SUFFICES ASSUME NEW g \in File, NEW kind \in {"reader", "writer"},
                      k.files[g] = EndOf(kind, q)
               PROVE  FALSE
    BY ZenonT(30)
  <2>1. k.pipes[q].readers = 1 \/ k.pipes[q].writers = 1
    BY <1>1, ZenonT(30) DEF PipesSound
  <2> QED
    BY <2>1 DEF NoPipe
<1>8. PipesSound(o)
  <2>1. \A g \in File : (o.files[g].pipe \in File) <=> IsEnd(o.files[g])
    BY <1>1, <1>3, <1>4, ZenonT(30) DEF PipesSound
  <2>2. ASSUME NEW g \in File, NEW e \in File, IsEnd(o.files[g]), o.files[g] = o.files[e]
        PROVE  g = e
    <3>1. k.files[g] # R /\ k.files[g] # W /\ k.files[e] # R /\ k.files[e] # W
      BY <1>7, ZenonT(30) DEF R, W
    <3>2. k.files[g] = k.files[e] /\ IsEnd(k.files[g]) => g = e
      BY <1>1, Zenon DEF PipesSound
    <3> QED
      BY <1>3, <1>4, <2>2, <3>1, <3>2, ZenonT(30)
  <2>3. ASSUME NEW x \in File, NEW kind \in {"reader", "writer"}
        PROVE  (\E g \in File : o.files[g] = EndOf(kind, x)) <=>
                 (x = q \/ \E g \in File : k.files[g] = EndOf(kind, x))
    <3>1. x # q => R # EndOf(kind, x) /\ W # EndOf(kind, x)
      BY ZenonT(30) DEF EndOf, R, W
    <3>2. NoFile # EndOf(kind, x)
      BY ZenonT(30) DEF EndOf, NoFile
    <3>3. x = q => EndOf(kind, x) = R \/ EndOf(kind, x) = W
      BY ZenonT(30) DEF R, W
    <3> QED
      BY <1>3, <3>1, <3>2, <3>3, ZenonT(30)
  <2>4. \A x \in File : o.pipes[x].readers =
          IF \E g \in File : o.files[g] = EndOf("reader", x) THEN 1 ELSE 0
    BY <1>1, <1>3, <2>3 DEF PipesSound, P
  <2>5. \A x \in File : o.pipes[x].writers =
          IF \E g \in File : o.files[g] = EndOf("writer", x) THEN 1 ELSE 0
    BY <1>1, <1>3, <2>3 DEF PipesSound, P
  <2> QED
    BY <2>1, <2>2, <2>4, <2>5, Zenon DEF PipesSound
<1>9. CountsExact(o, F)
  BY <1>1, <1>2, Zenon DEF CountsExact
<1>10. Unheld(o, r) /\ Unheld(o, w)
  BY <1>1, <1>2, <1>3, <1>4 DEF Unheld, HandlesSound
<1>11. VfsClose(VfsClose(o, r), w) = k
  <2> DEFINE v == VfsClose(o, r)
             u == VfsClose(v, w)
  <2>1. Closed(o, r, v) /\ PipesSound(v)
    BY <1>2, <1>8, <1>10, CloseFields, ClosePipes, Zenon DEF Unheld
  <2> HIDE DEF v
  <2>2. o.files[r].kind = "reader" /\ o.files[r].pipe = q
    BY <1>3 DEF EndOf, R
  <2>3. /\ v \in TablesType /\ v.handles = o.handles /\ v.leaked = o.leaked
        /\ v.lost = o.lost /\ v.twice = o.twice
        /\ v.pipes = [o.pipes EXCEPT ![q].readers = @ - 1]
        /\ v.files = [o.files EXCEPT ![r] = NoFile]
    BY <2>1, <2>2, Zenon DEF Closed
  <2>4. v.files[w] = W
    BY <1>2, <1>3, <2>3, ZenonT(30) DEF TablesType
  <2>5. v.files[w] # NoFile /\ v.files[w].kind = "writer" /\ v.files[w].pipe = q
    BY <1>4, <2>4 DEF EndOf, W
  <2>6. Closed(v, w, u)
    BY <2>1, <2>3, <2>5, CloseFields, Zenon
  <2> HIDE DEF u
  <2>7. /\ u \in TablesType /\ u.handles = v.handles /\ u.leaked = v.leaked
        /\ u.lost = v.lost /\ u.twice = v.twice
        /\ u.pipes = [v.pipes EXCEPT ![q].writers = @ - 1]
        /\ u.files = [v.files EXCEPT ![w] = NoFile]
    BY <2>5, <2>6, ZenonT(30) DEF Closed
  <2>8. u.files = k.files
    <3>1. \A g \in File : u.files[g] = k.files[g]
      BY <1>1, <1>2, <1>3, <2>3, <2>7 DEF TablesType
    <3> QED
      BY <1>1, <2>7, <3>1 DEF TablesType
  <2>9. u.pipes = k.pipes
    <3>1. \A g \in File \ {q} : u.pipes[g] = k.pipes[g]
      BY <1>1, <1>2, <1>3, <2>3, <2>7 DEF TablesType
    <3>2. v.pipes[q] = [readers |-> 0, writers |-> 1]
      BY <1>2, <1>3, <2>3 DEF TablesType, P
    <3>3. u.pipes[q] = [readers |-> 0, writers |-> 0]
      <4>1. v.pipes \in [File -> PipeRec]
        BY <2>3, Zenon DEF TablesType
      <4>2. u.pipes[q] = [v.pipes[q] EXCEPT !.writers = @ - 1]
        BY <2>7, <4>1, Zenon
      <4> QED
        BY <3>2, <4>2
    <3>4. \A g \in File : u.pipes[g] = k.pipes[g]
      BY <3>1, <3>3, ZenonT(30) DEF NoPipe
    <3> QED
      BY <1>1, <2>7, <3>4 DEF TablesType
  <2>10. u = k
    <3>1. /\ u \in TablesType /\ k \in TablesType /\ u.handles = k.handles
          /\ u.leaked = k.leaked /\ u.lost = k.lost /\ u.twice = k.twice
      BY <1>1, <1>2, <2>3, <2>7, Zenon
    <3> QED
      BY <2>8, <2>9, <3>1, TablesEq, Zenon
  <2> QED
    BY <2>10, ZenonT(30) DEF u, v
<1>12. Grown(k, o)
  BY <1>2, <1>3, ZenonT(30) DEF Grown
<1> QED
  BY <1>1, <1>2, <1>5, <1>6, <1>8, <1>9, <1>10, <1>11, <1>12, Zenon DEF SoundBut

-----------------------------------------------------------------------------
(* The calls. *)

\* Installing a handle does not disturb the ones that are there.
LEMMA InstallKeeps ==
  ASSUME NEW k \in TablesType, NEW h \in Handle, k.handles[h].type = "FREE",
         NEW type, NEW f, Fits(k, type, f), NEW k1, k1 = Install(k, h, type, f), NEW F
  PROVE  Keeps(k, k1, F)
<1>1. Installed(k, h, type, f, k1)
  BY InstallFields, ZenonT(30)
<1> QED
  BY <1>1, Zenon DEF Installed, Keeps

\* New files do not disturb the files of handles.
LEMMA GrownKeeps ==
  ASSUME NEW k, NEW o, NEW F, HandlesSound(k), Grown(k, o)
  PROVE  Keeps(k, o, F)
  BY Zenon DEF HandlesSound, Grown, Keeps

\* SYSCALL_OPEN of the console.
LEMMA OpenTtyStep ==
  ASSUME Counting, IInv, NEW p \in Proc, OpenTty(p)
  PROVE  IInv'
<1> DEFINE a == AfterInit
           h == FirstFree(a)
           k == Install(a, h, "TTY", None)
           d == FirstFd(fds[p])
<1>1. Sound(a, fds) /\ fds \in FdTables /\ a \in TablesType
  BY Initialised, ZenonT(30) DEF Sound
<1>2. proc[p] = "user" /\ ready' = TRUE /\ UNCHANGED <<proc, launch, inFile>>
  BY ZenonT(30) DEF OpenTty, Enter
<1>3. h = None \/ (h \in Handle /\ a.handles[h].type = "FREE")
  BY FirstFreeIs, ZenonT(30)
<1>4. d = None \/ (d \in Fd /\ fds[p][d] = None)
  BY FirstFdIs, ZenonT(30)
<1>5. \/ SetTables(a) /\ UNCHANGED fds
      \/ h # None /\ SetTables(Release(k, h)) /\ UNCHANGED fds
      \/ h # None /\ d # None /\ SetTables(k) /\ fds' = [fds EXCEPT ![p][d] = h]
  BY ZenonT(30) DEF OpenTty
<1>6. Fits(a, "TTY", None)
  BY ZenonT(30) DEF Fits
<1>7. SoundBut(a, fds, {})
  BY <1>1, SoundAll, ZenonT(30)
<1> HIDE DEF a, h, d
<1>8. CASE SetTables(a) /\ UNCHANGED fds
  <2>1. Keeps(a, a, fds')
    BY KeepsSame, ZenonT(30)
  <2> QED
    BY <1>1, <1>2, <1>8, <2>1, Unmoved, CallIInv, ZenonT(30) DEF a
<1>9. CASE h # None /\ SetTables(Release(k, h)) /\ UNCHANGED fds
  <2>1. Release(k, h) = a
    BY <1>3, <1>6, <1>7, <1>9, ReleaseInstalled
  <2>2. Keeps(a, a, fds')
    BY KeepsSame, ZenonT(30)
  <2> QED
    BY <1>1, <1>2, <1>9, <2>1, <2>2, Unmoved, CallIInv, Zenon DEF a
<1>10. CASE h # None /\ d # None /\ SetTables(k) /\ fds' = [fds EXCEPT ![p][d] = h]
  <2>1. SoundBut(k, fds', {} \ {None})
    BY <1>1, <1>3, <1>4, <1>6, <1>7, <1>10, InstallStep, Zenon
  <2>2. {} \ {None} = {}
    BY ZenonT(30)
  <2>3. Sound(k, fds')
    BY <2>1, <2>2, SoundAll, ZenonT(30)
  <2>4. Keeps(a, k, fds')
    BY <1>1, <1>3, <1>6, <1>10, InstallKeeps, ZenonT(30)
  <2>5. \A q \in Proc \ {p} : fds'[q] = fds[q]
    BY <1>1, <1>10, ZenonT(30) DEF FdTables
  <2> HIDE DEF k
  <2> QED
    BY <1>1, <1>2, <1>10, <2>3, <2>4, <2>5, Unmoved, CallIInv, Zenon DEF a
<1> QED
  BY <1>5, <1>8, <1>9, <1>10, ZenonT(30)

\* SYSCALL_OPEN of a file.
LEMMA OpenFileStep ==
  ASSUME Counting, IInv, NEW p \in Proc, OpenFile(p)
  PROVE  IInv'
<1> DEFINE a == AfterInit
           d == FirstFd(fds[p])
<1>1. Sound(a, fds) /\ fds \in FdTables /\ a \in TablesType /\ HandlesSound(a)
  BY Initialised, ZenonT(30) DEF Sound
<1>2. proc[p] = "user" /\ ready' = TRUE /\ UNCHANGED <<proc, launch, inFile>>
  BY ZenonT(30) DEF OpenFile, Enter
<1>3. d = None \/ (d \in Fd /\ fds[p][d] = None)
  BY FirstFdIs, ZenonT(30)
<1>4. PICK f \in File :
        /\ files[f] = NoFile
        /\ LET o == [AfterInit EXCEPT !.files[f].kind = "file"]
               h == FirstFree(o)
               k == Install(o, h, "VFS", f)
               e == FirstFd(fds[p])
           IN  IF h = None THEN SetTables(VfsClose(o, f)) /\ UNCHANGED fds
               ELSE IF e = None
               THEN SetTables(VfsClose(Release(k, h), f)) /\ UNCHANGED fds
               ELSE SetTables(k) /\ fds' = [fds EXCEPT ![p][e] = h]
  BY Zenon DEF OpenFile
<1> DEFINE o == [a EXCEPT !.files[f].kind = "file"]
           h == FirstFree(o)
           k == Install(o, h, "VFS", f)
<1>5. \/ SetTables(VfsClose(o, f)) /\ UNCHANGED fds
      \/ h # None /\ SetTables(VfsClose(Release(k, h), f)) /\ UNCHANGED fds
      \/ h # None /\ d # None /\ SetTables(k) /\ fds' = [fds EXCEPT ![p][d] = h]
  BY <1>4, ZenonT(30)
<1>6. h = None \/ (h \in Handle /\ o.handles[h].type = "FREE")
  BY FirstFreeIs, Zenon
<1>7. a.files[f] = NoFile
  BY <1>4, Initialised, ZenonT(30)
<1>8. SoundBut(o, fds, {f}) /\ Unheld(o, f) /\ VfsClose(o, f) = a /\ Grown(a, o)
  BY <1>1, <1>7, OpenedFile, ZenonT(30)
<1>9. Fits(o, "VFS", f) /\ o \in TablesType
  BY <1>8, ZenonT(30) DEF Fits, SoundBut
<1> HIDE DEF a, d, o, h
<1>10. CASE SetTables(VfsClose(o, f)) /\ UNCHANGED fds
  <2>1. Keeps(a, a, fds') /\ SetTables(a)
    BY <1>8, <1>10, KeepsSame, ZenonT(30)
  <2> QED
    BY <1>1, <1>2, <1>10, <2>1, Unmoved, CallIInv, Zenon DEF a
<1>11. CASE h # None /\ SetTables(VfsClose(Release(k, h), f)) /\ UNCHANGED fds
  <2> DEFINE b == [a EXCEPT !.twice = TRUE]
  <2>1. Release(k, h) = a
    BY <1>6, <1>8, <1>9, <1>11, ReleaseInstalled
  <2>2. VfsClose(a, f) = b
    BY <1>7 DEF VfsClose, NoFile
  <2>3. /\ b \in TablesType /\ b.handles = a.handles /\ b.files = a.files
        /\ b.pipes = a.pipes /\ b.leaked = a.leaked /\ b.lost = a.lost
    BY <1>1, Zenon DEF TablesType
  <2> HIDE DEF b
  <2>4. Sound(b, fds)
    BY <1>1, <2>3, SameSound, Zenon
  <2>5. Keeps(a, b, fds')
    BY <2>3, KeepsSame, ZenonT(30)
  <2>6. SetTables(b)
    BY <1>11, <2>1, <2>2, ZenonT(30)
  <2> QED
    BY <1>1, <1>2, <1>11, <2>4, <2>5, <2>6, Unmoved, CallIInv, ZenonT(30) DEF a
<1>12. CASE h # None /\ d # None /\ SetTables(k) /\ fds' = [fds EXCEPT ![p][d] = h]
  <2>1. SoundBut(k, fds', {f} \ {f})
    BY <1>1, <1>3, <1>6, <1>8, <1>9, <1>12, InstallStep, Zenon
  <2>2. {f} \ {f} = {}
    BY ZenonT(30)
  <2>3. Sound(k, fds')
    BY <2>1, <2>2, SoundAll, ZenonT(30)
  <2>4. Keeps(o, k, fds')
    BY <1>6, <1>9, <1>12, InstallKeeps, ZenonT(30)
  <2>5. Keeps(a, o, fds')
    BY <1>1, <1>8, GrownKeeps, ZenonT(30)
  <2>6. Keeps(a, k, fds')
    BY <2>4, <2>5, KeepsTrans, ZenonT(30)
  <2>7. \A q \in Proc \ {p} : fds'[q] = fds[q]
    BY <1>1, <1>12, ZenonT(30) DEF FdTables
  <2> HIDE DEF k
  <2> QED
    BY <1>1, <1>2, <1>12, <2>3, <2>6, <2>7, Unmoved, CallIInv, Zenon DEF a
<1> QED
  BY <1>5, <1>10, <1>11, <1>12, ZenonT(30)

\* The second new handle of a pipe is not the first one.
LEMMA PairFree ==
  ASSUME NEW k \in TablesType, NEW r, NEW w, r # w, Unheld(k, r), Unheld(k, w),
         NEW g \in Handle, k.handles[g].type = "FREE",
         NEW i, i = Install(k, g, "VFS", r), NEW h \in Handle, i.handles[h].type = "FREE"
  PROVE  /\ g # h /\ k.handles[h].type = "FREE"
         /\ i \in TablesType /\ Unheld(i, w)
<1>1. Fits(k, "VFS", r)
  BY Zenon DEF Fits
<1>2. Installed(k, g, "VFS", r, i)
  BY <1>1, InstallFields, Zenon
<1>3. /\ i \in TablesType /\ i.files = k.files
      /\ i.handles[g] = [type |-> "VFS", file |-> r, refcount |-> 1]
      /\ \A x \in Handle \ {g} : i.handles[x] = k.handles[x]
  BY <1>2, Zenon DEF Installed
<1>4. g # h
  BY <1>3
<1>5. Unheld(i, w)
  BY <1>3 DEF Unheld
<1> QED
  BY <1>3, <1>4, <1>5, ZenonT(30)

\* j is k with two new handles, g for the file r and h for the file w.
Paired(k, r, w, g, h, j) ==
  /\ g \in Handle /\ h \in Handle /\ k.handles[g].type = "FREE"
  /\ \E i : /\ i = Install(k, g, "VFS", r) /\ i.handles[h].type = "FREE"
            /\ j = Install(i, h, "VFS", w)

\* F1 is F with two more descriptors of p, d for the handle g and e for h.
Named(F, p, d, g, e, h, F1) ==
  /\ p \in Proc /\ d \in Fd /\ e \in Fd /\ F[p][d] = None
  /\ \E G : /\ G = [F EXCEPT ![p][d] = g] /\ G[p][e] = None
            /\ F1 = [G EXCEPT ![p][e] = h]

\* Both handles of a pipe installed, and their descriptors.
LEMMA PairInstalled ==
  ASSUME Counting, NEW k, NEW F, NEW r, NEW w, r # w, SoundBut(k, F, {r, w}),
         Unheld(k, r), Unheld(k, w), NEW g, NEW h, NEW j, Paired(k, r, w, g, h, j),
         NEW p, NEW d, NEW e, NEW F1, Named(F, p, d, g, e, h, F1)
  PROVE  /\ Sound(j, F1) /\ Keeps(k, j, F1)
         /\ F1 # F /\ \A x \in Proc \ {p} : F1[x] = F[x]
<1>1. /\ k \in TablesType /\ F \in FdTables /\ Fits(k, "VFS", r)
      /\ g \in Handle /\ h \in Handle /\ k.handles[g].type = "FREE"
      /\ p \in Proc /\ d \in Fd /\ e \in Fd /\ F[p][d] = None
  BY Zenon DEF SoundBut, Fits, Paired, Named
<1>2. PICK i : /\ i = Install(k, g, "VFS", r) /\ i.handles[h].type = "FREE"
               /\ j = Install(i, h, "VFS", w)
  BY Zenon DEF Paired
<1>3. PICK G : /\ G = [F EXCEPT ![p][d] = g] /\ G[p][e] = None
               /\ F1 = [G EXCEPT ![p][e] = h]
  BY Zenon DEF Named
<1>4. i \in TablesType /\ Unheld(i, w)
  BY <1>1, <1>2, PairFree
<1>5. Fits(i, "VFS", w)
  BY <1>4, Zenon DEF Fits
<1>6. SoundBut(i, G, {r, w} \ {r})
  BY <1>1, <1>2, <1>3, InstallStep, Zenon
<1>7. SoundBut(j, F1, ({r, w} \ {r}) \ {w})
  BY <1>1, <1>2, <1>3, <1>5, <1>6, InstallStep, Zenon
<1>8. ({r, w} \ {r}) \ {w} = {}
  BY ZenonT(30)
<1>9. Sound(j, F1)
  BY <1>7, <1>8, SoundAll, ZenonT(30)
<1>10. Keeps(k, i, F1)
  BY <1>1, <1>2, InstallKeeps, ZenonT(30)
<1>11. Keeps(i, j, F1)
  BY <1>1, <1>2, <1>4, <1>5, InstallKeeps, ZenonT(30)
<1>12. Keeps(k, j, F1)
  BY <1>10, <1>11, KeepsTrans, ZenonT(30)
<1>13. F1 # F /\ \A x \in Proc \ {p} : F1[x] = F[x]
  <2>1. /\ F[p] \in [Fd -> Handle \cup {None}] /\ G[p] \in [Fd -> Handle \cup {None}]
        /\ G \in [Proc -> [Fd -> Handle \cup {None}]]
    BY <1>1, <1>6, Zenon DEF FdTables, SoundBut
  <2>2. G[p][d] = g /\ \A x \in Fd \ {d} : G[p][x] = F[p][x]
    BY <1>1, <1>3, <2>1, Zenon DEF FdTables
  <2>3. e # d /\ F[p][e] = None
    BY <1>1, <1>3, <2>2, Sorts, ZenonT(30)
  <2>4. F1[p][e] = h
    BY <1>1, <1>3, <2>1, Zenon
  <2>5. \A x \in Proc \ {p} : F1[x] = G[x] /\ G[x] = F[x]
    BY <1>1, <1>3, <2>1, Zenon DEF FdTables
  <2> QED
    BY <1>1, <2>3, <2>4, <2>5, Sorts, Zenon
<1> QED
  BY <1>9, <1>12, <1>13, Zenon

\* SYSCALL_PIPE: two handles and two descriptors, or nothing.
LEMMA PipeOutcome ==
  ASSUME Counting, IInv, NEW p \in Proc, Pipe(p)
  PROVE  \/ SetTables(AfterInit) /\ UNCHANGED fds
         \/ /\ fds' # fds /\ \A x \in Proc \ {p} : fds'[x] = fds[x]
            /\ \E k : SetTables(k) /\ Sound(k, fds') /\ Keeps(AfterInit, k, fds')
<1> DEFINE a == AfterInit
           d1 == FirstFd(fds[p])
<1>1. Sound(a, fds) /\ fds \in FdTables /\ a \in TablesType /\ HandlesSound(a)
  BY Initialised, ZenonT(30) DEF Sound
<1>2. proc[p] = "user" /\ ready' = TRUE /\ UNCHANGED <<proc, launch, inFile>>
  BY Zenon DEF Pipe, Enter
<1>3. d1 = None \/ (d1 \in Fd /\ fds[p][d1] = None)
  BY FirstFdIs, ZenonT(30)
<1>4. PICK q, r, w \in File :
        /\ pipes[q] = NoPipe /\ \A g \in File : g < q => pipes[g] # NoPipe
        /\ r < w /\ files[r] = NoFile /\ files[w] = NoFile
        /\ \A g \in File \ {r} : g < w => files[g] # NoFile
        /\ LET k0 == PipeCreate(AfterInit, q, r, w)
               h1 == FirstFree(k0)
               k1 == Install(k0, h1, "VFS", r)
               h2 == FirstFree(k1)
               k2 == Install(k1, h2, "VFS", w)
               e1 == FirstFd(fds[p])
               t1 == IF e1 = None THEN fds[p] ELSE [fds[p] EXCEPT ![e1] = h1]
               e2 == FirstFd(t1)
           IN  \/ /\ h1 = None
                  /\ SetTables(VfsClose(VfsClose(k0, r), w)) /\ UNCHANGED fds
               \/ /\ h1 # None /\ h2 = None
                  /\ SetTables(VfsClose(Release(k1, h1), w)) /\ UNCHANGED fds
               \/ /\ h1 # None /\ h2 # None /\ (e1 = None \/ e2 = None)
                  /\ SetTables(Release(Release(k2, h1), h2)) /\ UNCHANGED fds
               \/ /\ h1 # None /\ h2 # None /\ e1 # None /\ e2 # None
                  /\ SetTables(k2)
                  /\ fds' = [fds EXCEPT ![p] = [t1 EXCEPT ![e2] = h2]]
  BY Zenon DEF Pipe
<1> DEFINE k0 == PipeCreate(a, q, r, w)
           h1 == FirstFree(k0)
           k1 == Install(k0, h1, "VFS", r)
           h2 == FirstFree(k1)
           k2 == Install(k1, h2, "VFS", w)
           t1 == IF d1 = None THEN fds[p] ELSE [fds[p] EXCEPT ![d1] = h1]
           d2 == FirstFd(t1)
<1>5. \/ SetTables(VfsClose(VfsClose(k0, r), w)) /\ UNCHANGED fds
      \/ h1 # None /\ SetTables(VfsClose(Release(k1, h1), w)) /\ UNCHANGED fds
      \/ h1 # None /\ h2 # None /\ SetTables(Release(Release(k2, h1), h2)) /\ UNCHANGED fds
      \/ /\ h1 # None /\ h2 # None /\ d1 # None /\ d2 # None
         /\ SetTables(k2) /\ fds' = [fds EXCEPT ![p] = [t1 EXCEPT ![d2] = h2]]
  BY <1>4, Zenon
<1>6. h1 = None \/ (h1 \in Handle /\ k0.handles[h1].type = "FREE")
  BY FirstFreeIs, ZenonT(30)
<1>7. h2 = None \/ (h2 \in Handle /\ k1.handles[h2].type = "FREE")
  BY FirstFreeIs, Zenon
<1>8. d2 = None \/ (d2 \in Fd /\ t1[d2] = None)
  BY FirstFdIs, Zenon
<1>9. a.files[r] = NoFile /\ a.files[w] = NoFile /\ a.pipes[q] = NoPipe /\ r # w
  <2>1. r \in Nat /\ w \in Nat
    BY Sorts, ZenonT(30)
  <2>2. r < w
    BY <1>4, Zenon
  <2>3. r # w
    BY <2>1, <2>2
  <2> QED
    BY <1>4, <2>3, Initialised, Zenon
<1>10. /\ SoundBut(k0, fds, {r, w}) /\ Unheld(k0, r) /\ Unheld(k0, w)
       /\ VfsClose(VfsClose(k0, r), w) = a /\ Grown(a, k0)
  BY <1>1, <1>9, CreatedPipe, ZenonT(30)
<1>11. /\ Fits(k0, "VFS", r) /\ Fits(k0, "VFS", w)
       /\ k0 \in TablesType /\ PipesSound(k0) /\ HandlesSound(k0) /\ HeldBut(k0, {r, w})
  BY <1>10, ZenonT(30) DEF Fits, SoundBut
<1>12. /\ k1 = Install(k0, h1, "VFS", r) /\ k2 = Install(k1, h2, "VFS", w)
       /\ d1 # None => t1 = [fds[p] EXCEPT ![d1] = h1]
  BY Zenon
<1> HIDE DEF a, d1, k0, h1, h2, d2, k1, k2, t1
<1>13. CASE SetTables(a) /\ UNCHANGED fds
  BY <1>13, Zenon DEF a
<1>14. CASE h1 # None /\ SetTables(VfsClose(Release(k1, h1), w)) /\ UNCHANGED fds
  <2>1. Release(k1, h1) = VfsClose(k0, r)
    <3>1. h1 \in Handle /\ k0.handles[h1].type = "FREE"
      BY <1>6, <1>14, Zenon
    <3>2. k1 = Install(k0, h1, "VFS", r) /\ SoundBut(k0, fds, {r, w}) /\ Fits(k0, "VFS", r)
      BY <1>10, <1>11, <1>12, ZenonT(30)
    <3> QED
      BY <3>1, <3>2, ReleaseInstalled
  <2> QED
    BY <1>10, <1>13, <1>14, <2>1, ZenonT(30)
<1>15. ASSUME h1 # None, h2 # None
       PROVE  /\ h1 # h2 /\ h1 \in Handle /\ h2 \in Handle
              /\ k0.handles[h1].type = "FREE" /\ k0.handles[h2].type = "FREE"
              /\ k1.handles[h2].type = "FREE"
  BY <1>6, <1>7, <1>9, <1>10, <1>11, <1>12, <1>15, PairFree
<1>16. CASE h1 # None /\ h2 # None /\ SetTables(Release(Release(k2, h1), h2)) /\ UNCHANGED fds
  <2>1. /\ h1 # h2 /\ h1 \in Handle /\ h2 \in Handle
        /\ k0.handles[h1].type = "FREE" /\ k0.handles[h2].type = "FREE"
    BY <1>15, <1>16, ZenonT(30)
  <2>2. Release(Release(k2, h1), h2) = a
    BY <1>9, <1>10, <1>12, <2>1, ReleasePair
  <2> QED
    BY <1>13, <1>16, <2>2, Zenon
<1>17. CASE /\ h1 # None /\ h2 # None /\ d1 # None /\ d2 # None
            /\ SetTables(k2) /\ fds' = [fds EXCEPT ![p] = [t1 EXCEPT ![d2] = h2]]
  <2>0. h1 # None /\ h2 # None /\ d1 # None /\ d2 # None
    BY <1>17, Zenon
  <2>1. Paired(k0, r, w, h1, h2, k2)
    BY <1>12, <1>15, <2>0, Zenon DEF Paired
  <2>2. Named(fds, p, d1, h1, d2, h2, fds')
    <3>1. /\ d1 \in Fd /\ d2 \in Fd /\ fds[p][d1] = None /\ t1[d2] = None
          /\ t1 = [fds[p] EXCEPT ![d1] = h1]
      BY <1>3, <1>8, <1>12, <2>0, Zenon
    <3>2. PICK G : G = [fds EXCEPT ![p][d1] = h1]
      BY Zenon
    <3>3. G[p] = t1
      BY <1>1, <3>1, <3>2, Zenon DEF FdTables
    <3>4. fds' = [G EXCEPT ![p][d2] = h2]
      BY <1>1, <1>17, <3>1, <3>2, ZenonT(30) DEF FdTables
    <3> QED
      BY <3>1, <3>2, <3>3, <3>4, Zenon DEF Named
  <2>5. /\ Sound(k2, fds') /\ Keeps(k0, k2, fds')
        /\ fds' # fds /\ \A x \in Proc \ {p} : fds'[x] = fds[x]
    <3>1. r # w /\ SoundBut(k0, fds, {r, w}) /\ Unheld(k0, r) /\ Unheld(k0, w)
      BY <1>9, <1>10, Zenon
    <3> QED
      BY <3>1, <2>1, <2>2, PairInstalled
  <2>3. Keeps(a, k0, fds')
    BY <1>1, <1>10, GrownKeeps, ZenonT(30)
  <2>4. Keeps(a, k2, fds')
    BY <2>3, <2>5, KeepsTrans, ZenonT(30)
  <2> QED
    BY <1>17, <2>4, <2>5, Zenon DEF a
<1> QED
  BY <1>5, <1>10, <1>13, <1>14, <1>16, <1>17, ZenonT(30)

\* Either way the invariant holds afterwards.
LEMMA PipeStep ==
  ASSUME Counting, IInv, NEW p \in Proc, Pipe(p)
  PROVE  IInv'
<1>1. proc[p] = "user" /\ ready' = TRUE /\ UNCHANGED <<proc, launch, inFile>>
  BY Zenon DEF Pipe, Enter
<1>2. CASE SetTables(AfterInit) /\ UNCHANGED fds
  <2>1. Sound(AfterInit, fds') /\ Keeps(AfterInit, AfterInit, fds')
    BY <1>2, Initialised, KeepsSame, ZenonT(30)
  <2> QED
    BY <1>1, <1>2, <2>1, Unmoved, CallIInv, ZenonT(30)
<1>3. ASSUME NEW k, SetTables(k), Sound(k, fds'), Keeps(AfterInit, k, fds'),
             \A x \in Proc \ {p} : fds'[x] = fds[x]
      PROVE  IInv'
  BY <1>1, <1>3, Unmoved, CallIInv, Zenon
<1> QED
  BY <1>2, <1>3, PipeOutcome, ZenonT(30)
=============================================================================
