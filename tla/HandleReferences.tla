-------------------------- MODULE HandleReferences --------------------------
(***************************************************************************)
(* What the proofs about Handles share, whatever the number of threads,    *)
(* handles, descriptors and files: the inductive invariant, what it says,  *)
(* how vfs_close and the last release of a handle change the tables, and   *)
(* what a call has to show for the invariant to hold after it.  Then the   *)
(* calls that take and give back references to handles that are there:     *)
(* SYSCALL_CLOSE, SYSCALL_DUP2, SYSCALL_SPAWN and the end of a thread      *)
(* preserve the invariant.                                                 *)
(***************************************************************************)
EXTENDS Handles, TLAPS

USE Z3T(30)

HandleRec == [type : {"FREE", "TTY", "VFS"}, file : File \cup {None}, refcount : Int]
FileRec == [kind : {"none", "file", "reader", "writer"}, pipe : File \cup {None}]
PipeRec == [readers : Int, writers : Int]

\* The tables, and the descriptors of all threads.
TablesType ==
  [handles : [Handle -> HandleRec], files : [File -> FileRec],
   pipes : [File -> PipeRec], leaked : [Handle -> Nat],
   lost : BOOLEAN, twice : BOOLEAN]
FdTables == [Proc -> [Fd -> Handle \cup {None}]]

\* The constants, as far as the proofs use them.
LEMMA Sorts ==
  /\ Handle \subseteq Nat /\ Fd \subseteq Nat /\ File \subseteq Nat
  /\ Std \subseteq Handle /\ Std \subseteq Fd
  /\ 1 \in Proc /\ None \notin Handle /\ None \notin Fd /\ None \notin File
  BY HandlesAssumption DEF Handle, Fd, File, Std, Proc, None

-----------------------------------------------------------------------------
(* The descriptors that name a handle. *)

Names(F, h) == {x \in Proc \X Fd : F[x[1]][x[2]] = h}

\* The descriptors F1 are those of F but for one that named g, or names g now.
OneLess(F, F1, g) ==
  \A h \in Handle :
    /\ Names(F1, h) \subseteq Names(F, h)
    /\ Cardinality(Names(F1, h)) =
         IF h = g THEN Cardinality(Names(F, h)) - 1 ELSE Cardinality(Names(F, h))
OneMore(F, F1, g) ==
  \A h \in Handle : Cardinality(Names(F1, h)) =
    IF h = g THEN Cardinality(Names(F, h)) + 1 ELSE Cardinality(Names(F, h))

\* The descriptors F1 are those of F and once more those of t.
MoreBy(F, F1, t) ==
  \A h \in Handle :
    /\ Cardinality({d \in Fd : t[d] = h}) \in Nat
    /\ Cardinality(Names(F1, h)) =
         Cardinality(Names(F, h)) + Cardinality({d \in Fd : t[d] = h})

\* What the proofs use about numbers of descriptors and about numbers.  It is
\* a hypothesis of the lemmas below that count, and follows from the theorems
\* about finite sets (HandlesProofs).
Counting ==
  /\ \A F, h : /\ Cardinality(Names(F, h)) \in Nat
               /\ Cardinality(Names(F, h)) = 0 <=> Names(F, h) = {}
  /\ \A S \in SUBSET Fd : Cardinality(S) \in Nat
  /\ Cardinality({}) = 0 /\ \A x : Cardinality({x}) = 1
  /\ \A F \in FdTables : \A p \in Proc, d \in Fd :
       F[p][d] \in Handle => OneLess(F, [F EXCEPT ![p][d] = None], F[p][d])
  /\ \A F \in FdTables : \A p \in Proc, d \in Fd, g \in Handle :
       F[p][d] = None => OneMore(F, [F EXCEPT ![p][d] = g], g)
  /\ \A F \in FdTables : \A p, c \in Proc :
       (\A d \in Fd : F[c][d] = None) => MoreBy(F, [F EXCEPT ![c] = F[p]], F[p])
  /\ \A T \in SUBSET Nat : T # {} => \E i \in T : \A j \in T : i <= j

\* A handle has a number of names, zero when it has none.
LEMMA NamesFinite ==
  ASSUME Counting, NEW F, NEW h
  PROVE  /\ Cardinality(Names(F, h)) \in Nat
         /\ Cardinality(Names(F, h)) = 0 <=> Names(F, h) = {}
  BY Zenon DEF Counting

\* A set of descriptors has a number, the empty set zero, a singleton one.
LEMMA Countable == ASSUME Counting, NEW S, S \subseteq Fd PROVE Cardinality(S) \in Nat
  BY Zenon DEF Counting
LEMMA SmallSets == Counting => Cardinality({}) = 0 /\ \A x : Cardinality({x}) = 1
  BY Zenon DEF Counting

\* A descriptor that is closed names its handle no longer.
LEMMA NamesDrop ==
  ASSUME Counting, NEW F \in FdTables, NEW p \in Proc, NEW d \in Fd,
         F[p][d] \in Handle, NEW F1, F1 = [F EXCEPT ![p][d] = None]
  PROVE  F1 \in FdTables /\ OneLess(F, F1, F[p][d])
<1>1. F1 \in FdTables
  BY ZenonT(30) DEF FdTables
<1> QED
  BY <1>1, Zenon DEF Counting

\* A descriptor that is set names its handle as one more.
LEMMA NamesAdd ==
  ASSUME Counting, NEW F \in FdTables, NEW p \in Proc, NEW d \in Fd, F[p][d] = None,
         NEW g \in Handle, NEW F1, F1 = [F EXCEPT ![p][d] = g]
  PROVE  F1 \in FdTables /\ OneMore(F, F1, g)
<1>1. F1 \in FdTables
  BY ZenonT(30) DEF FdTables
<1> QED
  BY <1>1, Zenon DEF Counting

\* A child that gets the descriptors of p names a handle as often as p does.
LEMMA NamesInherit ==
  ASSUME Counting, NEW F \in FdTables, NEW p \in Proc, NEW c \in Proc,
         \A d \in Fd : F[c][d] = None, NEW F1, F1 = [F EXCEPT ![c] = F[p]]
  PROVE  F1 \in FdTables /\ MoreBy(F, F1, F[p])
<1>1. F1 \in FdTables
  BY ZenonT(30) DEF FdTables
<1> QED
  BY <1>1, Zenon DEF Counting

\* The least descriptor, or handle, with a property.
LEMMA LeastNumber ==
  ASSUME Counting, NEW T, T \subseteq Nat, T # {}
  PROVE  \E i \in T : \A j \in T : i <= j
  BY Zenon DEF Counting

-----------------------------------------------------------------------------
(* The invariant, of the tables k and the descriptors F. *)

IsEnd(r) == r.kind \in {"reader", "writer"}
EndOf(kind, q) == [kind |-> kind, pipe |-> q]

\* The handles: a free one is blank, one of a file has a file of its own.
HandlesSound(k) ==
  /\ \A h \in Handle : k.handles[h].type = "FREE" =>
       k.handles[h] = FreeHandle /\ k.leaked[h] = 0
  /\ \A h \in Handle : k.handles[h].type = "TTY" => k.handles[h].file = None
  /\ \A h \in Handle : k.handles[h].type = "VFS" =>
       k.handles[h].file \in File /\ k.files[k.handles[h].file] # NoFile
  /\ \A g, h \in Handle :
       k.handles[g].type = "VFS" /\ k.handles[h].type = "VFS"
         /\ k.handles[g].file = k.handles[h].file => g = h

\* An open file is the file of a handle.
FilesHeld(k) ==
  \A f \in File : k.files[f] # NoFile =>
    \E h \in Handle : k.handles[h].type = "VFS" /\ k.handles[h].file = f

\* A pipe has at most one end of each kind, and its counts say which are open.
PipesSound(k) ==
  /\ \A f \in File : (k.files[f].pipe \in File) <=> IsEnd(k.files[f])
  /\ \A f, g \in File : IsEnd(k.files[f]) /\ k.files[f] = k.files[g] => f = g
  /\ \A q \in File : k.pipes[q].readers =
       IF \E f \in File : k.files[f] = EndOf("reader", q) THEN 1 ELSE 0
  /\ \A q \in File : k.pipes[q].writers =
       IF \E f \in File : k.files[f] = EndOf("writer", q) THEN 1 ELSE 0

\* The reference init never took to a console handle.
Untaken(h) == IF h \in Std THEN 1 ELSE 0

\* It is a number.
LEMMA UntakenNat == \A h : Untaken(h) \in Nat /\ (h \notin Std => Untaken(h) = 0)
  BY ZenonT(30) DEF Untaken

\* The counts, while the console handles are there: one reference for each
\* descriptor and each leak, except that init's to the console were never taken.
CountsExact(k, F) ==
  ~k.lost =>
    /\ \A h \in Handle :
         k.handles[h].refcount + Untaken(h) =
           Cardinality(Names(F, h)) + k.leaked[h]
    /\ \A h \in Std : k.handles[h].type = "TTY"
    /\ \A h \in Handle \ Std : k.handles[h].type # "FREE" => k.handles[h].refcount >= 1

Sound(k, F) ==
  /\ k \in TablesType /\ F \in FdTables
  /\ HandlesSound(k) /\ FilesHeld(k) /\ PipesSound(k) /\ CountsExact(k, F)

\* A handle that is still named in F is the same in k2 as in k1, and so is its
\* file.
Keeps(k1, k2, F) ==
  /\ k1.lost => k2.lost
  /\ ~k2.lost => \A h \in Handle :
       k1.handles[h].type = "VFS" /\ Names(F, h) # {} =>
         /\ k2.handles[h].type = "VFS" /\ k2.handles[h].file = k1.handles[h].file
         /\ k2.files[k1.handles[h].file] = k1.files[k1.handles[h].file]

\* The call of a thread inside a pipe is on the file of a descriptor it has.
UseHeld(p) ==
  \E d \in Fd :
    /\ fds[p][d] \in Handle /\ handles[fds[p][d]].type = "VFS"
    /\ handles[fds[p][d]].file = inFile[p] /\ IsEnd(files[inFile[p]])

\* The inductive invariant.  Before the first system call nothing has moved.
IInv ==
  /\ ready \in BOOLEAN
  /\ proc \in [Proc -> {"none", "created", "user", "inpipe", "dead"}]
  /\ launch \in [Proc -> [Std -> Handle \cup {None}]]
  /\ inFile \in [Proc -> File \cup {None}]
  /\ \A p \in Proc : proc[p] \in {"none", "dead"} => \A d \in Fd : fds[p][d] = None
  /\ ~lost => \A p \in Proc : proc[p] = "inpipe" => UseHeld(p)
  /\ IF ready THEN Sound(Tables, fds) ELSE Init

-----------------------------------------------------------------------------
(* What the invariant says. *)

\* At the start nothing has moved.
LEMMA InitIInv == Init => IInv
<1> SUFFICES ASSUME Init PROVE IInv
  BY ZenonT(30)
<1>1. ready \in BOOLEAN /\ ~ready
  BY Zenon DEF Init
<1>2. proc \in [Proc -> {"none", "created", "user", "inpipe", "dead"}]
  BY ZenonT(30) DEF Init
<1>3. /\ launch \in [Proc -> [Std -> Handle \cup {None}]]
      /\ inFile \in [Proc -> File \cup {None}]
  BY ZenonT(30) DEF Init, NoMap
<1>4. \A p \in Proc : proc[p] \in {"none", "dead"} => \A d \in Fd : fds[p][d] = None
  BY ZenonT(30) DEF Init
<1>5. \A p \in Proc : proc[p] # "inpipe"
  BY ZenonT(30) DEF Init
<1> QED
  BY <1>1, <1>2, <1>3, <1>4, <1>5, ZenonT(30) DEF IInv

\* handles_init makes the console handles that init's descriptors name.
LEMMA Initialised ==
  ASSUME Counting, IInv
  PROVE  /\ Sound(AfterInit, fds) /\ fds \in FdTables
         /\ AfterInit.files = files /\ AfterInit.pipes = pipes /\ AfterInit.lost = lost
         /\ ready => AfterInit = Tables
         /\ ~ready => \A p \in Proc : proc[p] # "inpipe"
<1>1. CASE ready
  <2>1. AfterInit = Tables /\ Sound(Tables, fds)
    BY <1>1, ZenonT(30) DEF IInv, AfterInit
  <2> QED
    BY <1>1, <2>1, ZenonT(30) DEF Tables, Sound
<1>2. CASE ~ready
  <2> DEFINE H == [h \in Handle |-> IF h \in Std THEN [FreeHandle EXCEPT !.type = "TTY"]
                                    ELSE FreeHandle]
             k == AfterInit
  <2>1. Init
    BY <1>2, ZenonT(30) DEF IInv
  <2>2. k = [Tables EXCEPT !.handles = H]
    BY <1>2, ZenonT(30) DEF AfterInit
  <2>3. /\ k.handles = H /\ k.files = files /\ k.pipes = pipes /\ k.leaked = leaked
        /\ k.lost = lost /\ k.twice = closedTwice
    BY <2>2, ZenonT(30) DEF Tables
  <2>4. /\ H \in [Handle -> HandleRec] /\ files \in [File -> FileRec]
        /\ pipes \in [File -> PipeRec] /\ leaked \in [Handle -> Nat]
        /\ lost \in BOOLEAN /\ closedTwice \in BOOLEAN
    <3>1. FreeHandle \in HandleRec /\ [FreeHandle EXCEPT !.type = "TTY"] \in HandleRec
      BY DEF HandleRec, FreeHandle
    <3>2. NoFile \in FileRec /\ NoPipe \in PipeRec
      BY DEF FileRec, PipeRec, NoFile, NoPipe
    <3>3. H \in [Handle -> HandleRec]
      BY <3>1, ZenonT(30)
    <3> QED
      BY <2>1, <3>2, <3>3, Zenon DEF Init
  <2>5. k \in TablesType
    <3> HIDE DEF H
    <3> QED
      BY <2>2, <2>4, ZenonT(30) DEF Tables, TablesType
  <2>6. \A h \in Handle :
          /\ h \in Std => H[h] = [type |-> "TTY", file |-> None, refcount |-> 0]
          /\ h \notin Std => H[h] = FreeHandle
    BY ZenonT(30) DEF FreeHandle
  <2> HIDE DEF H, k
  <2>7. fds \in FdTables
    BY <2>1, Sorts, ZenonT(30) DEF Init, FdTables
  <2>8. HandlesSound(k)
    BY <2>1, <2>3, <2>6 DEF HandlesSound, Init, FreeHandle
  <2>9. \A f \in File : k.files[f] = NoFile /\ k.pipes[f] = NoPipe
    BY <2>1, <2>3, ZenonT(30) DEF Init
  <2>10. FilesHeld(k)
    BY <2>9, ZenonT(30) DEF FilesHeld
  <2>11. PipesSound(k)
    <3>1. \A q \in File, kind \in {"reader", "writer"} : NoFile # EndOf(kind, q)
      BY ZenonT(30) DEF EndOf, NoFile
    <3> QED
      BY <2>9, <3>1, Sorts DEF PipesSound, IsEnd, NoFile, NoPipe
  <2>12. ASSUME NEW h \in Handle
         PROVE  Cardinality(Names(fds, h)) = Untaken(h)
    <3>1. \A q \in Proc, d \in Fd : fds[q][d] = IF q = 1 /\ d \in Std THEN d ELSE None
      BY <2>1, ZenonT(30) DEF Init
    <3>2. \A x \in Proc \X Fd : fds[x[1]][x[2]] = h <=> (h \in Std /\ x = <<1, h>>)
      <4> TAKE x \in Proc \X Fd
      <4>1. x = <<x[1], x[2]>> /\ x[1] \in Proc /\ x[2] \in Fd
        OBVIOUS
      <4>2. (x = <<1, h>>) <=> (x[1] = 1 /\ x[2] = h)
        BY <4>1
      <4> QED
        BY <3>1, <4>1, <4>2, Sorts, ZenonT(30)
    <3>3. CASE h \in Std
      <4>1. <<1, h>> \in Proc \X Fd
        BY <3>3, Sorts, ZenonT(30)
      <4>2. Names(fds, h) = {<<1, h>>}
        BY <3>2, <3>3, <4>1, ZenonT(30) DEF Names
      <4> QED
        BY <3>3, <4>2, SmallSets, Zenon DEF Untaken
    <3>4. CASE h \notin Std
      <4>1. Names(fds, h) = {}
        BY <3>2, <3>4, ZenonT(30) DEF Names
      <4> QED
        BY <3>4, <4>1, SmallSets, ZenonT(30) DEF Untaken
    <3> QED
      BY <3>3, <3>4, ZenonT(30)
  <2>13. \A h \in Handle : k.handles[h].refcount = 0 /\ k.leaked[h] = 0
    BY <2>1, <2>3, <2>6 DEF Init, FreeHandle
  <2>14. CountsExact(k, fds)
    <3>1. \A h \in Handle : k.handles[h].refcount + Untaken(h) =
                              Cardinality(Names(fds, h)) + k.leaked[h]
      BY <2>12, <2>13, UntakenNat
    <3>2. \A h \in Std : k.handles[h].type = "TTY"
      <4> SUFFICES ASSUME NEW h \in Std PROVE k.handles[h].type = "TTY"
        BY ZenonT(30)
      <4>1. H[h] = [type |-> "TTY", file |-> None, refcount |-> 0]
        BY <2>6, Sorts, Zenon
      <4> QED
        BY <2>3, <4>1
    <3>3. \A h \in Handle \ Std : k.handles[h].type = "FREE"
      BY <2>3, <2>6 DEF FreeHandle
    <3> QED
      BY <3>1, <3>2, <3>3, Zenon DEF CountsExact
  <2>15. \A p \in Proc : proc[p] # "inpipe"
    BY <2>1, ZenonT(30) DEF Init
  <2> QED
    BY <1>2, <2>3, <2>5, <2>7, <2>8, <2>10, <2>11, <2>14, <2>15, ZenonT(30) DEF Sound, k
<1> QED
  BY <1>1, <1>2, ZenonT(30)

\* The tables are sound before the first call too.
LEMMA IInvSound ==
  ASSUME Counting, IInv
  PROVE  /\ Tables \in TablesType /\ fds \in FdTables
         /\ HandlesSound(Tables) /\ FilesHeld(Tables) /\ PipesSound(Tables)
<1>1. CASE ready
  BY <1>1, ZenonT(30) DEF IInv, Sound
<1>2. CASE ~ready
  <2>1. Init /\ fds \in FdTables
    BY <1>2, Initialised, Zenon DEF IInv
  <2>2. /\ handles \in [Handle -> HandleRec] /\ files \in [File -> FileRec]
        /\ pipes \in [File -> PipeRec] /\ leaked \in [Handle -> Nat]
        /\ lost \in BOOLEAN /\ closedTwice \in BOOLEAN
    <3>1. FreeHandle \in HandleRec /\ NoFile \in FileRec /\ NoPipe \in PipeRec
      BY DEF HandleRec, FreeHandle, FileRec, PipeRec, NoFile, NoPipe
    <3> QED
      BY <2>1, <3>1, Zenon DEF Init
  <2>3. Tables \in TablesType
    BY <2>2, ZenonT(30) DEF Tables, TablesType
  <2>4. /\ \A h \in Handle : Tables.handles[h] = FreeHandle /\ Tables.leaked[h] = 0
        /\ \A f \in File : Tables.files[f] = NoFile /\ Tables.pipes[f] = NoPipe
    BY <2>1, ZenonT(30) DEF Init, Tables
  <2>5. HandlesSound(Tables) /\ FilesHeld(Tables)
    BY <2>4 DEF HandlesSound, FilesHeld, FreeHandle
  <2>6. PipesSound(Tables)
    <3>1. \A q \in File, kind \in {"reader", "writer"} : NoFile # EndOf(kind, q)
      BY ZenonT(30) DEF EndOf, NoFile
    <3> QED
      BY <2>4, <3>1, Sorts DEF PipesSound, IsEnd, NoFile, NoPipe
  <2> QED
    BY <2>1, <2>3, <2>5, <2>6, ZenonT(30)
<1> QED
  BY <1>1, <1>2, ZenonT(30)

\* The invariant gives every table its type.
LEMMA IInvTypes == Counting /\ IInv => TypeOK
<1> SUFFICES ASSUME Counting, IInv PROVE TypeOK
  BY ZenonT(30)
<1>1. /\ handles \in [Handle -> HandleRec] /\ files \in [File -> FileRec]
      /\ pipes \in [File -> PipeRec] /\ leaked \in [Handle -> Nat]
      /\ lost \in BOOLEAN /\ closedTwice \in BOOLEAN
  BY IInvSound, ZenonT(30) DEF Tables, TablesType
<1>2. fds \in [Proc -> [Fd -> Handle \cup {None}]]
  BY IInvSound, ZenonT(30) DEF FdTables
<1> QED
  BY <1>1, <1>2, Zenon DEF IInv, TypeOK, HandleRec, FileRec, PipeRec

\* It makes the reference counts exact,
LEMMA IInvCounts == Counting /\ IInv => RefcountExact
<1> SUFFICES ASSUME Counting, IInv, ready, ~lost, NEW h \in Handle
             PROVE  handles[h].refcount = Cardinality(NamedBy(h)) + leaked[h]
                                            - (IF h \in Std THEN 1 ELSE 0)
  BY ZenonT(30) DEF RefcountExact
<1>1. NamedBy(h) = Names(fds, h)
  BY ZenonT(30) DEF NamedBy, Names
<1>2. CountsExact(Tables, fds)
  BY ZenonT(30) DEF IInv, Sound
<1>3. handles[h].refcount + Untaken(h) = Cardinality(Names(fds, h)) + leaked[h]
  BY <1>2, Zenon DEF CountsExact, Tables
<1>4. Tables \in TablesType
  BY IInvSound, ZenonT(30)
<1>5. handles[h].refcount \in Int /\ leaked[h] \in Nat
  BY <1>4, ZenonT(30) DEF Tables, TablesType, HandleRec
<1>6. Cardinality(Names(fds, h)) \in Nat
  BY NamesFinite, ZenonT(30)
<1>7. CASE h \in Std
  <2>1. Untaken(h) = 1
    BY <1>7, ZenonT(30) DEF Untaken
  <2> QED
    BY <1>1, <1>3, <1>5, <1>6, <1>7, <2>1
<1>8. CASE h \notin Std
  <2>1. Untaken(h) = 0
    BY <1>8, ZenonT(30) DEF Untaken
  <2> QED
    BY <1>1, <1>3, <1>5, <1>6, <1>8, <2>1
<1> QED
  BY <1>7, <1>8, ZenonT(30)

\* gives every open file one handle,
LEMMA IInvFiles == Counting /\ IInv => OneHandlePerFile
<1> SUFFICES ASSUME Counting, IInv PROVE OneHandlePerFile
  BY ZenonT(30)
<1>1. /\ Tables \in TablesType /\ HandlesSound(Tables) /\ FilesHeld(Tables)
      /\ Tables.handles = handles /\ Tables.files = files /\ Tables.leaked = leaked
  BY IInvSound, ZenonT(30) DEF Tables
<1>2. \A h \in Handle : handles[h].type = "VFS" => files[handles[h].file] # NoFile
  BY <1>1, Zenon DEF HandlesSound
<1>3. ASSUME NEW f \in File, files[f] # NoFile
      PROVE  \E h \in Handle : /\ handles[h].type = "VFS" /\ handles[h].file = f
                               /\ \A g \in Handle : handles[g].file = f => g = h
  <2>1. PICK h \in Handle : handles[h].type = "VFS" /\ handles[h].file = f
    BY <1>1, <1>3, ZenonT(30) DEF FilesHeld
  <2>2. ASSUME NEW g \in Handle, handles[g].file = f PROVE g = h
    <3>1. handles[g].type \in {"FREE", "TTY", "VFS"}
      BY <1>1, ZenonT(30) DEF TablesType, HandleRec
    <3>2. handles[g].type # "VFS" => handles[g].file = None
      BY <1>1, <3>1 DEF HandlesSound, FreeHandle
    <3>3. handles[g].type = "VFS"
      BY <2>2, <3>2, Sorts, ZenonT(30)
    <3> QED
      BY <1>1, <2>1, <2>2, <3>3, Zenon DEF HandlesSound
  <2> QED
    BY <2>1, <2>2, ZenonT(30)
<1> QED
  BY <1>2, <1>3, ZenonT(30) DEF OneHandlePerFile

\* keeps the pipe of a thread that yields inside it,
LEMMA IInvPipeUse == Counting /\ IInv => PipeOutlivesUse
<1> SUFFICES ASSUME Counting, IInv, ~lost, NEW p \in Proc, proc[p] = "inpipe"
             PROVE  /\ files[inFile[p]].kind \in {"reader", "writer"}
                    /\ pipes[files[inFile[p]].pipe] # NoPipe
  BY Zenon DEF PipeOutlivesUse
<1> DEFINE f == inFile[p]
           q == files[f].pipe
<1>1. PICK d \in Fd : /\ fds[p][d] \in Handle /\ handles[fds[p][d]].type = "VFS"
                      /\ handles[fds[p][d]].file = f /\ IsEnd(files[f])
  BY Zenon DEF IInv, UseHeld
<1>2. /\ Tables \in TablesType /\ HandlesSound(Tables) /\ PipesSound(Tables)
      /\ Tables.handles = handles /\ Tables.files = files /\ Tables.pipes = pipes
  BY IInvSound, ZenonT(30) DEF Tables
<1>3. f \in File
  BY <1>1, <1>2, Zenon DEF HandlesSound
<1>4. q \in File /\ files[f] \in FileRec
  BY <1>1, <1>2, <1>3, Zenon DEF PipesSound, TablesType
<1>5. files[f] = EndOf("reader", q) \/ files[f] = EndOf("writer", q)
  BY <1>1, <1>4, Zenon DEF IsEnd, EndOf, FileRec
<1>6. pipes[q].readers = 1 \/ pipes[q].writers = 1
  BY <1>2, <1>3, <1>4, <1>5, Zenon DEF PipesSound
<1> QED
  BY <1>1, <1>6 DEF IsEnd, NoPipe

\* and counts the open ends of a pipe.
LEMMA IInvPipeEnds == Counting /\ IInv => PipeEndsExact
<1> SUFFICES ASSUME Counting, IInv PROVE PipeEndsExact
  BY ZenonT(30)
<1> DEFINE Open(q, kind) == {f \in File : files[f] = [kind |-> kind, pipe |-> q]}
           Held(f) == \E h \in Handle :
             handles[h].file = f /\ (NamedBy(h) # {} \/ leaked[h] > 0)
<1>1. /\ Tables \in TablesType /\ HandlesSound(Tables) /\ PipesSound(Tables)
      /\ FilesHeld(Tables) /\ Tables.handles = handles /\ Tables.files = files
      /\ Tables.pipes = pipes /\ Tables.leaked = leaked /\ Tables.lost = lost
  BY IInvSound, ZenonT(30) DEF Tables
<1>2. ASSUME NEW q \in File, NEW kind \in {"reader", "writer"}
      PROVE  Cardinality(Open(q, kind)) =
               IF \E f \in File : files[f] = EndOf(kind, q) THEN 1 ELSE 0
  <2>1. CASE \E f \in File : files[f] = EndOf(kind, q)
    <3>1. PICK f \in File : files[f] = EndOf(kind, q)
      BY <2>1, ZenonT(30)
    <3>2. ASSUME NEW g \in File, files[g] = EndOf(kind, q) PROVE g = f
      <4>1. IsEnd(files[f])
        BY <3>1 DEF IsEnd, EndOf
      <4> QED
        BY <1>1, <3>1, <3>2, <4>1, ZenonT(30) DEF PipesSound
    <3>3. Open(q, kind) = {f}
      BY <3>1, <3>2, ZenonT(30) DEF EndOf
    <3> QED
      BY <2>1, <3>3, SmallSets, Zenon
  <2>2. CASE ~\E f \in File : files[f] = EndOf(kind, q)
    <3>1. Open(q, kind) = {}
      BY <2>2, ZenonT(30) DEF EndOf
    <3> QED
      BY <2>2, <3>1, SmallSets, ZenonT(30)
  <2> QED
    BY <2>1, <2>2, ZenonT(30)
<1>3. \A q \in File : /\ pipes[q].readers = Cardinality(Open(q, "reader"))
                      /\ pipes[q].writers = Cardinality(Open(q, "writer"))
  BY <1>1, <1>2, Zenon DEF PipesSound
<1>4. ASSUME ~lost, NEW f \in File, IsEnd(files[f]) PROVE Held(f)
  <2>1. files[f] # NoFile
    BY <1>4 DEF IsEnd, NoFile
  <2>2. PICK h \in Handle : handles[h].type = "VFS" /\ handles[h].file = f
    BY <1>1, <2>1, ZenonT(30) DEF FilesHeld
  <2>3. ready
    BY <2>2 DEF IInv, Init, FreeHandle
  <2>4. CountsExact(Tables, fds)
    BY <2>3, ZenonT(30) DEF IInv, Sound
  <2>5. /\ h \notin Std
        /\ handles[h].refcount + Untaken(h) = Cardinality(Names(fds, h)) + leaked[h]
        /\ handles[h].refcount >= 1
    BY <1>1, <1>4, <2>2, <2>4, ZenonT(30) DEF CountsExact
  <2>6. handles[h].refcount \in Int /\ leaked[h] \in Nat /\ Untaken(h) = 0
    BY <1>1, <2>5, UntakenNat, ZenonT(30) DEF TablesType, HandleRec
  <2>7. Cardinality(Names(fds, h)) # 0 \/ leaked[h] > 0
    BY <2>5, <2>6, NamesFinite
  <2>8. NamedBy(h) = Names(fds, h)
    BY ZenonT(30) DEF NamedBy, Names
  <2>9. Cardinality(Names(fds, h)) # 0 => NamedBy(h) # {}
    BY <2>8, SmallSets, ZenonT(30)
  <2> QED
    BY <2>2, <2>7, <2>9, ZenonT(30)
<1>5. \A q \in File : ~lost =>
        \A f \in Open(q, "reader") \cup Open(q, "writer") : Held(f)
  <2> SUFFICES ASSUME NEW q \in File, ~lost,
                      NEW f \in Open(q, "reader") \cup Open(q, "writer")
               PROVE  Held(f)
    BY ZenonT(30)
  <2>1. f \in File /\ IsEnd(files[f])
    BY DEF IsEnd
  <2> HIDE DEF Held
  <2> QED
    BY <1>4, <2>1, ZenonT(30)
<1> QED
  BY <1>3, <1>5, Zenon DEF PipeEndsExact

-----------------------------------------------------------------------------
(* What closing a file and releasing the last reference do. *)

\* k1 is k without file f.
Closed(k, f, k1) ==
  /\ k1 \in TablesType
  /\ k1.handles = k.handles /\ k1.leaked = k.leaked
  /\ k1.lost = k.lost /\ k1.twice = k.twice
  /\ k1.files = [k.files EXCEPT ![f] = NoFile]
  /\ k.files[f].kind = "file" => k1.pipes = k.pipes
  /\ k.files[f].kind = "reader" =>
       k1.pipes = [k.pipes EXCEPT ![k.files[f].pipe].readers = @ - 1]
  /\ k.files[f].kind = "writer" =>
       k1.pipes = [k.pipes EXCEPT ![k.files[f].pipe].writers = @ - 1]

\* vfs_close of an open file frees it and takes its end off the pipe.
LEMMA CloseFields ==
  ASSUME NEW k \in TablesType, PipesSound(k), NEW f \in File, k.files[f] # NoFile,
         NEW k1, k1 = VfsClose(k, f)
  PROVE  Closed(k, f, k1)
<1> DEFINE k0 == [k EXCEPT !.files[f] = NoFile]
<1>1. k.files[f] \in FileRec /\ NoFile \in FileRec
  BY ZenonT(30) DEF TablesType, FileRec, NoFile
<1>2. k.files[f].kind # "none"
  <2>1. k.files[f].kind = "none" => k.files[f].pipe = None
    BY <1>1, Zenon DEF PipesSound, IsEnd, FileRec
  <2> QED
    BY <1>1, <2>1, Zenon DEF FileRec, NoFile
<1>3. /\ k0 \in TablesType /\ k0.handles = k.handles /\ k0.leaked = k.leaked
      /\ k0.lost = k.lost /\ k0.twice = k.twice /\ k0.pipes = k.pipes
      /\ k0.files = [k.files EXCEPT ![f] = NoFile]
  BY <1>1, Zenon DEF TablesType
<1>4. CASE k.files[f].kind = "file"
  <2>1. k1 = k0
    BY <1>4, ZenonT(30) DEF VfsClose
  <2> HIDE DEF k0
  <2> QED
    BY <1>3, <1>4, <2>1, ZenonT(30) DEF Closed
<1>5. CASE k.files[f].kind \in {"reader", "writer"}
  <2> DEFINE q == k.files[f].pipe
             w == k.files[f].kind = "writer"
  <2>1. q \in File
    BY <1>5, Zenon DEF PipesSound, IsEnd
  <2>2. k1 = PipeClose(k0, q, w)
    BY <1>5, Zenon DEF VfsClose
  <2> HIDE DEF k0, q
  <2>3. CASE w
    <3>1. k1 = [k0 EXCEPT !.pipes[q].writers = @ - 1]
      BY <2>2, <2>3, Zenon DEF PipeClose
    <3>2. k.files[f].kind = "writer"
      BY <2>3, ZenonT(30)
    <3>3. /\ k1.handles = k0.handles /\ k1.leaked = k0.leaked /\ k1.files = k0.files
          /\ k1.lost = k0.lost /\ k1.twice = k0.twice
          /\ k1.pipes = [k0.pipes EXCEPT ![q].writers = @ - 1]
      BY <3>1, <1>3, Zenon DEF TablesType
    <3>5. [k0.pipes EXCEPT ![q].writers = @ - 1] \in [File -> PipeRec]
      BY <1>3, <2>1 DEF TablesType, PipeRec
    <3>4. k1 \in TablesType
      <4>1. k1 = [k0 EXCEPT !.pipes = [k0.pipes EXCEPT ![q].writers = @ - 1]]
        BY <3>1, <1>3, Zenon DEF TablesType
      <4> QED
        BY <4>1, <3>5, <1>3, Zenon DEF TablesType
    <3> QED
      BY <3>2, <3>3, <3>4, <1>3, Zenon DEF q, Closed
  <2>4. CASE ~w
    <3>1. k1 = [k0 EXCEPT !.pipes[q].readers = @ - 1]
      BY <2>2, <2>4, Zenon DEF PipeClose
    <3>2. k.files[f].kind = "reader"
      BY <2>4, <1>5, ZenonT(30)
    <3>3. /\ k1.handles = k0.handles /\ k1.leaked = k0.leaked /\ k1.files = k0.files
          /\ k1.lost = k0.lost /\ k1.twice = k0.twice
          /\ k1.pipes = [k0.pipes EXCEPT ![q].readers = @ - 1]
      BY <3>1, <1>3, Zenon DEF TablesType
    <3>5. [k0.pipes EXCEPT ![q].readers = @ - 1] \in [File -> PipeRec]
      BY <1>3, <2>1 DEF TablesType, PipeRec
    <3>4. k1 \in TablesType
      <4>1. k1 = [k0 EXCEPT !.pipes = [k0.pipes EXCEPT ![q].readers = @ - 1]]
        BY <3>1, <1>3, Zenon DEF TablesType
      <4> QED
        BY <4>1, <3>5, <1>3, Zenon DEF TablesType
    <3> QED
      BY <3>2, <3>3, <3>4, <1>3, Zenon DEF q, Closed
  <2> QED
    BY <2>3, <2>4, ZenonT(30)
<1>6. k.files[f].kind \in {"file", "reader", "writer"}
  BY <1>1, <1>2, ZenonT(30) DEF FileRec
<1> QED
  BY <1>4, <1>5, <1>6, ZenonT(30)

\* The counts of the pipes stay exact.
LEMMA ClosePipes ==
  ASSUME NEW k \in TablesType, PipesSound(k), NEW f \in File, k.files[f] # NoFile,
         NEW k1, k1 = VfsClose(k, f)
  PROVE  PipesSound(k1)
<1> DEFINE q == k.files[f].pipe
<1>0. /\ k1 \in TablesType /\ k1.files = [k.files EXCEPT ![f] = NoFile]
      /\ k.files[f].kind = "file" => k1.pipes = k.pipes
      /\ k.files[f].kind = "reader" => k1.pipes = [k.pipes EXCEPT ![q].readers = @ - 1]
      /\ k.files[f].kind = "writer" => k1.pipes = [k.pipes EXCEPT ![q].writers = @ - 1]
  <2>1. Closed(k, f, k1)
    BY CloseFields, ZenonT(30)
  <2> QED
    BY <2>1, Zenon DEF Closed
<1>1. \A g \in File : k1.files[g] = IF g = f THEN NoFile ELSE k.files[g]
  BY <1>0, Zenon DEF TablesType
<1>2. \A g \in File : (k1.files[g].pipe \in File) <=> IsEnd(k1.files[g])
  BY <1>1, Sorts DEF PipesSound, IsEnd, NoFile
<1>3. \A g, h \in File : IsEnd(k1.files[g]) /\ k1.files[g] = k1.files[h] => g = h
  BY <1>1 DEF PipesSound, IsEnd, NoFile
<1>4. k.files[f] \in FileRec
  BY ZenonT(30) DEF TablesType
<1>5. ASSUME NEW x \in File
      PROVE  /\ k1.pipes[x].readers =
                  IF k.files[f] = EndOf("reader", x) THEN 0 ELSE k.pipes[x].readers
             /\ k1.pipes[x].writers =
                  IF k.files[f] = EndOf("writer", x) THEN 0 ELSE k.pipes[x].writers
  <2>1. k.files[f] = EndOf("reader", x) <=> (k.files[f].kind = "reader" /\ q = x)
    BY <1>4 DEF FileRec, EndOf
  <2>2. k.files[f] = EndOf("writer", x) <=> (k.files[f].kind = "writer" /\ q = x)
    BY <1>4 DEF FileRec, EndOf
  <2>3. k.pipes[x] \in PipeRec
    BY ZenonT(30) DEF TablesType
  <2>4. CASE k.files[f].kind = "reader"
    <3>1. q \in File
      BY <2>4, Zenon DEF PipesSound, IsEnd
    <3>2. k1.pipes[x] = IF x = q THEN [k.pipes[x] EXCEPT !.readers = @ - 1] ELSE k.pipes[x]
      BY <1>0, <2>4, <3>1 DEF TablesType
    <3>3. x = q => k.pipes[x].readers = 1
      BY <2>1, <2>4, Zenon DEF PipesSound
    <3> QED
      BY <2>1, <2>2, <2>3, <2>4, <3>2, <3>3 DEF PipeRec
  <2>5. CASE k.files[f].kind = "writer"
    <3>1. q \in File
      BY <2>5, Zenon DEF PipesSound, IsEnd
    <3>2. k1.pipes[x] = IF x = q THEN [k.pipes[x] EXCEPT !.writers = @ - 1] ELSE k.pipes[x]
      BY <1>0, <2>5, <3>1 DEF TablesType
    <3>3. x = q => k.pipes[x].writers = 1
      BY <2>2, <2>5, Zenon DEF PipesSound
    <3> QED
      BY <2>1, <2>2, <2>3, <2>5, <3>2, <3>3 DEF PipeRec
  <2>6. CASE k.files[f].kind = "file"
    BY <1>0, <2>1, <2>2, <2>6, ZenonT(30)
  <2>7. k.files[f].kind # "none"
    <3>1. k.files[f].kind = "none" => k.files[f].pipe = None
      BY <1>4, Zenon DEF PipesSound, IsEnd, FileRec
    <3> QED
      BY <1>4, <3>1, Zenon DEF FileRec, NoFile
  <2> QED
    BY <1>4, <2>4, <2>5, <2>6, <2>7, Zenon DEF FileRec
<1>6. ASSUME NEW x \in File, NEW kind \in {"reader", "writer"}
      PROVE  (\E g \in File : k1.files[g] = EndOf(kind, x)) <=>
               ((\E g \in File : k.files[g] = EndOf(kind, x)) /\ k.files[f] # EndOf(kind, x))
  <2>1. NoFile # EndOf(kind, x)
    BY ZenonT(30) DEF NoFile, EndOf
  <2>2. ASSUME NEW g \in File, k.files[g] = EndOf(kind, x), k.files[f] = EndOf(kind, x)
        PROVE  g = f
    <3>1. IsEnd(k.files[g])
      BY <2>2 DEF IsEnd, EndOf
    <3> QED
      BY <3>1, <2>2, Zenon DEF PipesSound
  <2> QED
    BY <1>1, <2>1, <2>2, ZenonT(30)
<1>7. \A x \in File : k1.pipes[x].readers =
        IF \E g \in File : k1.files[g] = EndOf("reader", x) THEN 1 ELSE 0
  BY <1>5, <1>6 DEF PipesSound
<1>8. \A x \in File : k1.pipes[x].writers =
        IF \E g \in File : k1.files[g] = EndOf("writer", x) THEN 1 ELSE 0
  BY <1>5, <1>6 DEF PipesSound
<1> QED
  BY <1>2, <1>3, <1>7, <1>8, Zenon DEF PipesSound

\* k1 is k without handle h, and without its file.
Freed(k, h, k1) ==
  /\ k1 \in TablesType
  /\ k1.handles = [k.handles EXCEPT ![h] = FreeHandle]
  /\ k1.leaked = [k.leaked EXCEPT ![h] = 0]
  /\ k1.lost <=> (k.lost \/ h \in Std)
  /\ k1.twice = k.twice
  /\ k.handles[h].type = "TTY" => k1.files = k.files /\ k1.pipes = k.pipes
  /\ k.handles[h].type = "VFS" =>
       /\ k1.files = [k.files EXCEPT ![k.handles[h].file] = NoFile]
       /\ k1.pipes = VfsClose(k, k.handles[h].file).pipes

\* syscall_release_handle of the last reference.
LEMMA ReleaseFreed ==
  ASSUME NEW k \in TablesType, HandlesSound(k), PipesSound(k),
         NEW h \in Handle, k.handles[h].type # "FREE",
         ~(k.handles[h].refcount - 1 > 0), NEW k1, k1 = Release(k, h)
  PROVE  Freed(k, h, k1) /\ PipesSound(k1)
<1> DEFINE f == k.handles[h].file
           c == IF k.handles[h].type = "VFS" THEN VfsClose(k, f) ELSE k
<1>1. /\ c \in TablesType /\ PipesSound(c)
      /\ c.handles = k.handles /\ c.leaked = k.leaked
      /\ c.lost = k.lost /\ c.twice = k.twice
      /\ k.handles[h].type = "TTY" => c.files = k.files /\ c.pipes = k.pipes
      /\ k.handles[h].type = "VFS" =>
           /\ c.files = [k.files EXCEPT ![f] = NoFile]
           /\ c.pipes = VfsClose(k, f).pipes
  <2>1. CASE k.handles[h].type = "VFS"
    <3>1. f \in File /\ k.files[f] # NoFile /\ c = VfsClose(k, f)
      BY <2>1, Zenon DEF HandlesSound
    <3>2. Closed(k, f, c) /\ PipesSound(c)
      <4> HIDE DEF c, f
      <4> QED
        BY <3>1, CloseFields, ClosePipes, ZenonT(30)
    <3> HIDE DEF c, f
    <3> QED
      BY <2>1, <3>1, <3>2, Zenon DEF Closed
  <2>2. CASE k.handles[h].type # "VFS"
    BY <2>2, Zenon
  <2> QED
    BY <2>1, <2>2, Zenon
<1>2. k1 = [c EXCEPT !.handles[h] = FreeHandle, !.leaked[h] = 0, !.lost = @ \/ h \in Std]
  BY Zenon DEF Release
<1> HIDE DEF c
<1>3. FreeHandle \in HandleRec
  BY DEF FreeHandle, HandleRec
<1>4. k1 = [c EXCEPT !.handles = [c.handles EXCEPT ![h] = FreeHandle],
                     !.leaked = [c.leaked EXCEPT ![h] = 0],
                     !.lost = (c.lost \/ h \in Std)]
  BY <1>1, <1>2, Zenon DEF TablesType
<1>5. /\ k1.handles = [c.handles EXCEPT ![h] = FreeHandle]
      /\ k1.leaked = [c.leaked EXCEPT ![h] = 0]
      /\ k1.lost = (c.lost \/ h \in Std)
      /\ k1.files = c.files /\ k1.pipes = c.pipes /\ k1.twice = c.twice
  BY <1>1, <1>4, Zenon DEF TablesType
<1>6. k1 \in TablesType
  <2>1. /\ [c.handles EXCEPT ![h] = FreeHandle] \in [Handle -> HandleRec]
        /\ [c.leaked EXCEPT ![h] = 0] \in [Handle -> Nat]
        /\ (c.lost \/ h \in Std) \in BOOLEAN
    BY <1>1, <1>3, Zenon DEF TablesType
  <2> QED
    BY <1>1, <1>4, <2>1, Zenon DEF TablesType
<1>7. PipesSound(k1)
  BY <1>1, <1>5 DEF PipesSound
<1> QED
  BY <1>1, <1>5, <1>6, <1>7, Zenon DEF Freed

\* A free handle is named by no descriptor, and is none of the console's.
LEMMA FreeUnnamed ==
  ASSUME Counting, NEW k \in TablesType, NEW F, HandlesSound(k), CountsExact(k, F),
         NEW h \in Handle, k.handles[h].type = "FREE", ~k.lost
  PROVE  h \notin Std /\ Cardinality(Names(F, h)) = 0
<1>1. h \notin Std
  BY Zenon DEF CountsExact
<1>2. k.handles[h].refcount = 0 /\ k.leaked[h] = 0
  BY DEF HandlesSound, FreeHandle
<1>3. k.handles[h].refcount + Untaken(h) = Cardinality(Names(F, h)) + k.leaked[h]
  BY Zenon DEF CountsExact
<1> QED
  BY <1>1, <1>2, <1>3, UntakenNat, NamesFinite

-----------------------------------------------------------------------------
(* What a call shows for the invariant. *)

\* What two steps keep one after the other, they keep together.
LEMMA KeepsTrans ==
  ASSUME NEW a, NEW b, NEW c, NEW F, NEW F1, Keeps(a, b, F), Keeps(b, c, F1),
         \A h \in Handle : Names(F1, h) \subseteq Names(F, h)
  PROVE  Keeps(a, c, F1)
<1> SUFFICES ASSUME ~c.lost, NEW h \in Handle, a.handles[h].type = "VFS", Names(F1, h) # {}
             PROVE  /\ c.handles[h].type = "VFS" /\ c.handles[h].file = a.handles[h].file
                    /\ c.files[a.handles[h].file] = a.files[a.handles[h].file]
  BY Zenon DEF Keeps
<1>1. ~b.lost /\ Names(F, h) # {}
  BY Zenon DEF Keeps
<1>2. /\ b.handles[h].type = "VFS" /\ b.handles[h].file = a.handles[h].file
      /\ b.files[a.handles[h].file] = a.files[a.handles[h].file]
  BY <1>1, Zenon DEF Keeps
<1> QED
  BY <1>2, Zenon DEF Keeps

\* Tables that stay as they are keep everything.
LEMMA KeepsSame ==
  ASSUME NEW k, NEW k1, NEW F, k1.handles = k.handles, k1.files = k.files, k1.lost = k.lost
  PROVE  Keeps(k, k1, F)
  BY ZenonT(30) DEF Keeps

\* Tables that a call has set.
LEMMA TablesSet ==
  ASSUME NEW k \in TablesType, SetTables(k)
  PROVE  Tables' = k
<1>1. Tables' = [handles |-> k.handles, files |-> k.files, pipes |-> k.pipes,
                 leaked |-> k.leaked, lost |-> k.lost, twice |-> k.twice]
  BY ZenonT(30) DEF Tables, SetTables
<1> QED
  BY <1>1, ZenonT(30) DEF TablesType

\* A call that leaves sound tables, and no thread inside a pipe without the
\* descriptor it uses, preserves the invariant.
LEMMA CallIInv ==
  ASSUME Counting, IInv, NEW k, SetTables(k), Sound(k, fds'), Keeps(AfterInit, k, fds'),
         ready' = TRUE,
         proc' \in [Proc -> {"none", "created", "user", "inpipe", "dead"}],
         launch' \in [Proc -> [Std -> Handle \cup {None}]],
         inFile' \in [Proc -> File \cup {None}],
         \A p \in Proc : proc'[p] \in {"none", "dead"} => \A d \in Fd : fds'[p][d] = None,
         \A p \in Proc : proc'[p] = "inpipe" =>
           UseHeld(p)' \/ (proc[p] = "inpipe" /\ fds'[p] = fds[p] /\ inFile'[p] = inFile[p])
  PROVE  IInv'
<1>1. Sound(Tables', fds')
  BY TablesSet, ZenonT(30) DEF Sound
<1>2. k.lost = lost' /\ k.handles = handles' /\ k.files = files'
  BY ZenonT(30) DEF SetTables
<1>3. ASSUME ~lost', NEW p \in Proc, proc'[p] = "inpipe", proc[p] = "inpipe",
             fds'[p] = fds[p], inFile'[p] = inFile[p]
      PROVE  UseHeld(p)'
  <2>1. AfterInit = Tables
    BY <1>3, Initialised, Zenon
  <2>2. AfterInit.handles = handles /\ AfterInit.files = files /\ AfterInit.lost = lost
    BY <2>1, Zenon DEF Tables
  <2>3. ~lost
    BY <1>2, <1>3, <2>2, Zenon DEF Keeps
  <2>4. PICK d \in Fd :
          /\ fds[p][d] \in Handle /\ handles[fds[p][d]].type = "VFS"
          /\ handles[fds[p][d]].file = inFile[p] /\ IsEnd(files[inFile[p]])
    BY <1>3, <2>3, Zenon DEF IInv, UseHeld
  <2> DEFINE h == fds[p][d]
  <2>5. <<p, d>> \in Names(fds', h)
    BY <1>3, Zenon DEF Names
  <2>6. /\ handles'[h].type = "VFS" /\ handles'[h].file = inFile[p]
        /\ files'[inFile[p]] = files[inFile[p]]
    <3> HIDE DEF h
    <3>1. h \in Handle /\ handles[h].type = "VFS" /\ handles[h].file = inFile[p]
      BY <2>4, Zenon DEF h
    <3> QED
      BY <1>2, <1>3, <2>2, <2>5, <3>1, Zenon DEF Keeps
  <2> QED
    BY <1>3, <2>4, <2>6, Zenon DEF UseHeld
<1>4. ~lost' => \A p \in Proc : proc'[p] = "inpipe" => UseHeld(p)'
  BY <1>3, ZenonT(30)
<1> QED
  BY <1>1, <1>4, Zenon DEF IInv

\* What a call of p that does not end, spawn or yield leaves as it is.
LEMMA Unmoved ==
  ASSUME IInv, NEW p \in Proc, proc[p] = "user", UNCHANGED <<proc, launch, inFile>>,
         \A q \in Proc \ {p} : fds'[q] = fds[q]
  PROVE  /\ proc' \in [Proc -> {"none", "created", "user", "inpipe", "dead"}]
         /\ launch' \in [Proc -> [Std -> Handle \cup {None}]]
         /\ inFile' \in [Proc -> File \cup {None}]
         /\ \A q \in Proc : proc'[q] \in {"none", "dead"} => \A d \in Fd : fds'[q][d] = None
         /\ \A q \in Proc : proc'[q] = "inpipe" =>
              (proc[q] = "inpipe" /\ fds'[q] = fds[q] /\ inFile'[q] = inFile[q])
  BY ZenonT(30) DEF IInv

\* A read or write that enters a pipe uses a descriptor of its thread.
LEMMA EnterPipeStep ==
  ASSUME Counting, IInv, NEW p \in Proc, NEW d \in Fd, EnterPipe(p, d)
  PROVE  IInv'
<1> DEFINE a == AfterInit
           h == fds[p][d]
<1>1. Sound(a, fds) /\ fds \in FdTables /\ a \in TablesType /\ HandlesSound(a) /\ PipesSound(a)
  BY Initialised, ZenonT(30) DEF Sound
<1>2. /\ proc[p] = "user" /\ ready' = TRUE /\ UNCHANGED <<fds, launch>> /\ h # None
      /\ SetTables(a) /\ proc' = [proc EXCEPT ![p] = "inpipe"]
      /\ a.handles[h].type = "VFS" /\ files[a.handles[h].file].kind # "file"
      /\ inFile' = [inFile EXCEPT ![p] = a.handles[h].file]
  BY Zenon DEF EnterPipe, Enter
<1>3. h \in Handle
  BY <1>1, <1>2, Zenon DEF FdTables
<1>4. a.handles[h].file \in File /\ a.files[a.handles[h].file] # NoFile
  BY <1>1, <1>2, <1>3, Zenon DEF HandlesSound
<1>5. IsEnd(a.files[a.handles[h].file])
  <2> DEFINE f == a.handles[h].file
  <2>1. a.files[f] \in FileRec /\ a.files[f].kind # "file"
    BY <1>1, <1>2, <1>4, Initialised, Zenon DEF TablesType
  <2>2. a.files[f].kind = "none" => a.files[f].pipe = None
    BY <1>1, <1>4, <2>1, Zenon DEF PipesSound, IsEnd, FileRec
  <2> QED
    BY <1>4, <2>1, <2>2, Zenon DEF FileRec, NoFile, IsEnd
<1>6. Keeps(a, a, fds') /\ Sound(a, fds')
  BY <1>1, <1>2, KeepsSame, Zenon
<1>7. UseHeld(p)'
  <2>1. handles' = a.handles /\ files' = a.files /\ fds' = fds
    BY <1>2, Zenon DEF SetTables
  <2>2. inFile'[p] = a.handles[h].file
    BY <1>2, Zenon DEF IInv
  <2> QED
    BY <1>2, <1>3, <1>5, <2>1, <2>2, Zenon DEF UseHeld
<1>8. /\ proc' \in [Proc -> {"none", "created", "user", "inpipe", "dead"}]
      /\ launch' \in [Proc -> [Std -> Handle \cup {None}]]
      /\ inFile' \in [Proc -> File \cup {None}]
  BY <1>2, <1>4, Zenon DEF IInv
<1>9. \A q \in Proc : /\ q = p => proc'[q] = "inpipe"
                      /\ q # p => proc'[q] = proc[q] /\ inFile'[q] = inFile[q]
  BY <1>2, Zenon DEF IInv
<1>10. \A q \in Proc : proc'[q] \in {"none", "dead"} => \A e \in Fd : fds'[q][e] = None
  <2>1. fds' = fds
    BY <1>2, Zenon
  <2> HIDE DEF h, a
  <2> QED
    BY <1>9, <2>1, ZenonT(30) DEF IInv
<1>11. \A q \in Proc : proc'[q] = "inpipe" => UseHeld(q)' \/
        (proc[q] = "inpipe" /\ fds'[q] = fds[q] /\ inFile'[q] = inFile[q])
  BY <1>2, <1>7, <1>9, Zenon
<1> HIDE DEF h
<1> QED
  BY <1>2, <1>6, <1>8, <1>10, <1>11, CallIInv, Zenon

\* A thread is launched or comes back from a pipe: the tables stay.
LEMMA MoveStep ==
  ASSUME Counting, IInv, NEW p \in Proc, Launch(p) \/ LeavePipe(p)
  PROVE  IInv'
<1>1. /\ proc[p] \in {"created", "inpipe"} /\ UNCHANGED <<table, fds>>
      /\ proc' = [proc EXCEPT ![p] = "user"]
      /\ launch' = launch \/ launch' = [launch EXCEPT ![p] = NoMap]
      /\ inFile' = inFile \/ inFile' = [inFile EXCEPT ![p] = None]
  BY ZenonT(30) DEF Launch, LeavePipe
<1>2. ready
  <2>1. ~ready => proc[p] \in {"user", "none"}
    BY Zenon DEF IInv, Init
  <2> QED
    BY <1>1, <2>1, ZenonT(30)
<1>3. Sound(Tables, fds) /\ AfterInit = Tables
  BY <1>2, ZenonT(30) DEF IInv, AfterInit
<1>4. SetTables(Tables)
  BY <1>1, ZenonT(30) DEF SetTables, Tables, table
<1>5. Keeps(AfterInit, Tables, fds') /\ Sound(Tables, fds')
  BY <1>1, <1>3, KeepsSame, ZenonT(30)
<1>6. /\ proc' \in [Proc -> {"none", "created", "user", "inpipe", "dead"}]
      /\ launch' \in [Proc -> [Std -> Handle \cup {None}]]
      /\ inFile' \in [Proc -> File \cup {None}]
  <2>1. proc' \in [Proc -> {"none", "created", "user", "inpipe", "dead"}]
    BY <1>1, ZenonT(30) DEF IInv
  <2>2. launch' \in [Proc -> [Std -> Handle \cup {None}]]
    <3>1. NoMap \in [Std -> Handle \cup {None}]
      BY ZenonT(30) DEF NoMap
    <3> QED
      BY <1>1, <3>1, Zenon DEF IInv
  <2>3. inFile' \in [Proc -> File \cup {None}]
    BY <1>1, ZenonT(30) DEF IInv
  <2> QED
    BY <2>1, <2>2, <2>3, ZenonT(30)
<1>7. \A q \in Proc : /\ q = p => proc'[q] = "user"
                      /\ q # p => proc'[q] = proc[q] /\ inFile'[q] = inFile[q]
  BY <1>1, ZenonT(30) DEF IInv
<1>8. ready' = TRUE
  BY <1>1, <1>2, ZenonT(30) DEF table, IInv
<1>9. \A q \in Proc : proc'[q] \in {"none", "dead"} => \A d \in Fd : fds'[q][d] = None
  BY <1>1, <1>7, Zenon DEF IInv
<1>10. \A q \in Proc : proc'[q] = "inpipe" =>
        (proc[q] = "inpipe" /\ fds'[q] = fds[q] /\ inFile'[q] = inFile[q])
  BY <1>1, <1>7, ZenonT(30)
<1> QED
  BY <1>4, <1>5, <1>6, <1>8, <1>9, <1>10, CallIInv, ZenonT(30)

\* Any other call that is the first one.
LEMMA FirstCallStep ==
  ASSUME Counting, IInv, NEW p \in Proc, FirstCall(p)
  PROVE  IInv'
<1>1. /\ proc[p] = "user" /\ ready' = TRUE /\ SetTables(AfterInit)
      /\ UNCHANGED <<proc, fds, launch, inFile>>
  BY ZenonT(30) DEF FirstCall, Enter
<1>2. Sound(AfterInit, fds')
  BY <1>1, Initialised, ZenonT(30)
<1>3. Keeps(AfterInit, AfterInit, fds')
  BY KeepsSame, ZenonT(30)
<1> QED
  BY <1>1, <1>2, <1>3, Unmoved, CallIInv, Zenon

-----------------------------------------------------------------------------
(* syscall_release_handle. *)

\* k1 is k with one reference less to h.
Fewer(k, h, k1) ==
  /\ k1 \in TablesType
  /\ k1.handles = [k.handles EXCEPT ![h].refcount = @ - 1]
  /\ k1.files = k.files /\ k1.pipes = k.pipes /\ k1.leaked = k.leaked
  /\ k1.lost = k.lost /\ k1.twice = k.twice

\* syscall_release_handle of a free handle.
LEMMA ReleaseNone ==
  ASSUME NEW k, HandlesSound(k), NEW h \in Handle, k.handles[h].type = "FREE"
  PROVE  Release(k, h) = k
<1>1. ~(k.handles[h].refcount - 1 > 0)
  BY DEF HandlesSound, FreeHandle
<1> QED
  BY <1>1, Zenon DEF Release

\* syscall_release_handle of a handle with other references.
LEMMA ReleaseFewer ==
  ASSUME NEW k \in TablesType, NEW h \in Handle, k.handles[h].type # "FREE",
         k.handles[h].refcount - 1 > 0, NEW k1, k1 = Release(k, h)
  PROVE  Fewer(k, h, k1)
<1>1. k1 = [k EXCEPT !.handles[h].refcount = @ - 1]
  BY Zenon DEF Release
<1>2. [k.handles EXCEPT ![h].refcount = @ - 1] \in [Handle -> HandleRec]
  BY DEF TablesType, HandleRec
<1>3. k1 = [k EXCEPT !.handles = [k.handles EXCEPT ![h].refcount = @ - 1]]
  BY <1>1, ZenonT(30) DEF TablesType
<1> QED
  BY <1>2, <1>3, Zenon DEF TablesType, Fewer

\* A handle with one reference less keeps the tables sound.
LEMMA FewerSound ==
  ASSUME NEW k, NEW k1, NEW h \in Handle, k \in TablesType, Fewer(k, h, k1),
         HandlesSound(k), FilesHeld(k), PipesSound(k), k.handles[h].type # "FREE"
  PROVE  HandlesSound(k1) /\ FilesHeld(k1) /\ PipesSound(k1)
<1>1. \A g \in Handle :
        /\ k1.handles[g].type = k.handles[g].type
        /\ k1.handles[g].file = k.handles[g].file
        /\ g # h => k1.handles[g] = k.handles[g]
  BY DEF Fewer, TablesType, HandleRec
<1>2. k1.files = k.files /\ k1.pipes = k.pipes /\ k1.leaked = k.leaked
  BY ZenonT(30) DEF Fewer
<1>3. HandlesSound(k1)
  <2>1. \A g \in Handle : k1.handles[g].type = "FREE" =>
          k1.handles[g] = FreeHandle /\ k1.leaked[g] = 0
    BY <1>1, <1>2 DEF HandlesSound
  <2>2. \A g \in Handle : k1.handles[g].type = "TTY" => k1.handles[g].file = None
    BY <1>1, ZenonT(30) DEF HandlesSound
  <2>3. \A g \in Handle : k1.handles[g].type = "VFS" =>
          k1.handles[g].file \in File /\ k1.files[k1.handles[g].file] # NoFile
    BY <1>1, <1>2, ZenonT(30) DEF HandlesSound
  <2>4. \A g, e \in Handle :
          k1.handles[g].type = "VFS" /\ k1.handles[e].type = "VFS"
            /\ k1.handles[g].file = k1.handles[e].file => g = e
    BY <1>1 DEF HandlesSound
  <2> QED
    BY <2>1, <2>2, <2>3, <2>4, Zenon DEF HandlesSound
<1>4. FilesHeld(k1)
  <2> SUFFICES ASSUME NEW f \in File, k1.files[f] # NoFile
               PROVE  \E g \in Handle : k1.handles[g].type = "VFS" /\ k1.handles[g].file = f
    BY ZenonT(30) DEF FilesHeld
  <2>1. PICK g \in Handle : k.handles[g].type = "VFS" /\ k.handles[g].file = f
    BY <1>2, ZenonT(30) DEF FilesHeld
  <2> QED
    BY <1>1, <2>1, ZenonT(30)
<1> QED
  BY <1>2, <1>3, <1>4 DEF PipesSound

\* So does a handle that goes together with its file.
LEMMA FreedSound ==
  ASSUME NEW k, NEW k1, NEW h \in Handle, k \in TablesType, Freed(k, h, k1),
         HandlesSound(k), FilesHeld(k), k.handles[h].type # "FREE"
  PROVE  /\ HandlesSound(k1) /\ FilesHeld(k1)
         /\ \A g \in Handle \ {h} : k.handles[g].type = "VFS" =>
              k1.files[k.handles[g].file] = k.files[k.handles[g].file]
<1>1. \A g \in Handle : k1.handles[g] = IF g = h THEN FreeHandle ELSE k.handles[g]
  BY Zenon DEF Freed, TablesType
<1>2. \A g \in Handle : k1.leaked[g] = IF g = h THEN 0 ELSE k.leaked[g]
  BY Zenon DEF Freed, TablesType
<1>3. k.handles[h].type \in {"TTY", "VFS"}
  BY ZenonT(30) DEF TablesType, HandleRec
<1>4. \A f \in File : k1.files[f] = IF k.handles[h].type = "VFS" /\ f = k.handles[h].file
                                    THEN NoFile ELSE k.files[f]
  BY <1>3, ZenonT(30) DEF Freed, TablesType
<1>5. \A g \in Handle \ {h} : k.handles[g].type = "VFS" =>
              k1.files[k.handles[g].file] = k.files[k.handles[g].file]
  BY <1>4, Zenon DEF HandlesSound
<1>6. HandlesSound(k1)
  BY <1>1, <1>2, <1>5 DEF HandlesSound, FreeHandle
<1>7. FilesHeld(k1)
  BY <1>1, <1>4, ZenonT(30) DEF FilesHeld
<1> QED
  BY <1>5, <1>6, <1>7, Zenon

\* Closing descriptor d of p: the handle it names is released.
LEMMA ReleaseStep ==
  ASSUME Counting, NEW k, NEW F, Sound(k, F), NEW p \in Proc, NEW d \in Fd,
         F[p][d] \in Handle, NEW F1, F1 = [F EXCEPT ![p][d] = None],
         NEW k1, k1 = Release(k, F[p][d])
  PROVE  Sound(k1, F1) /\ Keeps(k, k1, F1)
<1> DEFINE h == F[p][d]
           n(g) == Cardinality(Names(F, g))
<1>1. /\ k \in TablesType /\ F \in FdTables
      /\ HandlesSound(k) /\ FilesHeld(k) /\ PipesSound(k) /\ CountsExact(k, F)
  BY ZenonT(30) DEF Sound
<1>2. F1 \in FdTables /\ OneLess(F, F1, F[p][d])
  BY <1>1, NamesDrop, Zenon
<1>3. \A g \in Handle :
        /\ Names(F1, g) \subseteq Names(F, g)
        /\ Cardinality(Names(F1, g)) = IF g = h THEN n(g) - 1 ELSE n(g)
        /\ n(g) \in Nat
  <2> TAKE g \in Handle
  <2>1. /\ Names(F1, g) \subseteq Names(F, g)
        /\ Cardinality(Names(F1, g)) = IF g = F[p][d] THEN n(g) - 1 ELSE n(g)
    BY <1>2, Zenon DEF OneLess
  <2>2. n(g) \in Nat
    BY NamesFinite, ZenonT(30)
  <2> QED
    BY <2>1, <2>2, Zenon
<1>4. n(h) >= 1
  <2>1. <<p, d>> \in Names(F, h)
    BY ZenonT(30) DEF Names
  <2>2. n(h) # 0
    BY <2>1, NamesFinite, ZenonT(30)
  <2> QED
    BY <2>2, <1>3
<1>5. \A g \in Handle : /\ k.handles[g].refcount \in Int /\ k.leaked[g] \in Nat
                        /\ k.handles[g].type \in {"FREE", "TTY", "VFS"}
  BY <1>1, ZenonT(30) DEF TablesType, HandleRec
<1>6. h \in Handle /\ k1 = Release(k, h)
  BY ZenonT(30)
<1> HIDE DEF h
<1>7. CASE k.handles[h].type = "FREE"
  <2>1. k1 = k
    BY <1>1, <1>6, <1>7, ReleaseNone, ZenonT(30)
  <2>2. k.lost
    <3> SUFFICES ASSUME ~k.lost PROVE FALSE
      BY ZenonT(30)
    <3>1. h \notin Std
      BY <1>1, <1>7, ZenonT(30) DEF CountsExact
    <3>2. k.handles[h].refcount + 0 = n(h) + k.leaked[h]
      BY <1>1, <1>6, <3>1, UntakenNat, ZenonT(30) DEF CountsExact
    <3>3. k.handles[h].refcount = 0
      BY <1>1, <1>6, <1>7 DEF HandlesSound, FreeHandle
    <3> QED
      BY <3>2, <3>3, <1>3, <1>4, <1>5, <1>6
  <2> QED
    BY <1>1, <1>2, <2>1, <2>2, Zenon DEF Sound, CountsExact, Keeps
<1>8. CASE k.handles[h].type # "FREE" /\ k.handles[h].refcount - 1 > 0
  <2>1. Fewer(k, h, k1)
    BY <1>1, <1>6, <1>8, ReleaseFewer, ZenonT(30)
  <2>2. k1 \in TablesType /\ HandlesSound(k1) /\ FilesHeld(k1) /\ PipesSound(k1)
    BY <1>1, <1>6, <1>8, <2>1, FewerSound, Zenon DEF Fewer
  <2>3. /\ k1.lost = k.lost /\ k1.leaked = k.leaked /\ k1.files = k.files
        /\ \A g \in Handle :
             /\ k1.handles[g].type = k.handles[g].type
             /\ k1.handles[g].file = k.handles[g].file
             /\ k1.handles[g].refcount = IF g = h THEN k.handles[g].refcount - 1
                                         ELSE k.handles[g].refcount
    BY <1>1, <1>6, <2>1 DEF Fewer, TablesType, HandleRec
  <2>4. CountsExact(k1, F1)
    <3> SUFFICES ASSUME ~k1.lost PROVE
          /\ \A g \in Handle : k1.handles[g].refcount + Untaken(g) =
                                 Cardinality(Names(F1, g)) + k1.leaked[g]
          /\ \A g \in Std : k1.handles[g].type = "TTY"
          /\ \A g \in Handle \ Std :
               k1.handles[g].type # "FREE" => k1.handles[g].refcount >= 1
      BY Zenon DEF CountsExact
    <3>1. /\ \A g \in Handle : k.handles[g].refcount + Untaken(g) =
                                 n(g) + k.leaked[g]
          /\ \A g \in Std : k.handles[g].type = "TTY"
          /\ \A g \in Handle \ Std :
               k.handles[g].type # "FREE" => k.handles[g].refcount >= 1
      BY <1>1, <2>3, Zenon DEF CountsExact
    <3>2. ASSUME NEW g \in Handle
          PROVE  k1.handles[g].refcount + Untaken(g) =
                   Cardinality(Names(F1, g)) + k1.leaked[g]
      <4>1. n(g) \in Nat /\ Untaken(g) \in Nat /\ k.leaked[g] \in Nat
        BY <1>3, <1>5, UntakenNat, Zenon
      <4>2. k.handles[g].refcount + Untaken(g) = n(g) + k.leaked[g]
        BY <3>1, Zenon
      <4>3. CASE g = h
        <5>1. /\ Cardinality(Names(F1, g)) = n(g) - 1
              /\ k1.handles[g].refcount = k.handles[g].refcount - 1
              /\ k1.leaked[g] = k.leaked[g]
          BY <1>3, <2>3, <4>3, Zenon
        <5> QED
          BY <1>5, <4>1, <4>2, <5>1
      <4>4. CASE g # h
        BY <1>3, <2>3, <4>2, <4>4, Zenon
      <4> QED
        BY <4>3, <4>4, Zenon
    <3>3. \A g \in Std : k1.handles[g].type = "TTY"
      BY <2>3, <3>1, Sorts, ZenonT(30)
    <3>4. ASSUME NEW g \in Handle \ Std, k1.handles[g].type # "FREE"
          PROVE  k1.handles[g].refcount >= 1
      BY <1>5, <1>8, <2>3, <3>1, <3>4
    <3> QED
      BY <3>2, <3>3, <3>4, Zenon
  <2>5. Keeps(k, k1, F1)
    BY <2>3, Zenon DEF Keeps
  <2> QED
    BY <1>2, <2>2, <2>4, <2>5, Zenon DEF Sound
<1>9. CASE k.handles[h].type # "FREE" /\ ~(k.handles[h].refcount - 1 > 0)
  <2>1. Freed(k, h, k1) /\ PipesSound(k1)
    BY <1>1, <1>6, <1>9, ReleaseFreed, ZenonT(30)
  <2>2. /\ k1 \in TablesType /\ HandlesSound(k1) /\ FilesHeld(k1)
        /\ \A g \in Handle \ {h} : k.handles[g].type = "VFS" =>
              k1.files[k.handles[g].file] = k.files[k.handles[g].file]
    <3>1. k1 \in TablesType
      BY <2>1, Zenon DEF Freed
    <3> QED
      BY <1>1, <1>6, <1>9, <2>1, <3>1, FreedSound
  <2>3. /\ k1.lost <=> (k.lost \/ h \in Std)
        /\ \A g \in Handle :
             /\ k1.handles[g] = IF g = h THEN FreeHandle ELSE k.handles[g]
             /\ k1.leaked[g] = IF g = h THEN 0 ELSE k.leaked[g]
    BY <1>1, <1>6, <2>1, Zenon DEF Freed, TablesType
  <2>4. ~k1.lost => n(h) = 1 /\ k.leaked[h] = 0
    <3> SUFFICES ASSUME ~k1.lost PROVE n(h) = 1 /\ k.leaked[h] = 0
      BY ZenonT(30)
    <3>1. ~k.lost /\ h \notin Std
      BY <2>3, Zenon
    <3>2. k.handles[h].refcount + 0 = n(h) + k.leaked[h]
      BY <1>1, <1>6, <3>1, UntakenNat, ZenonT(30) DEF CountsExact
    <3> QED
      BY <1>3, <1>4, <1>5, <1>6, <1>9, <3>2
  <2>5. CountsExact(k1, F1)
    <3> SUFFICES ASSUME ~k1.lost PROVE
          /\ \A g \in Handle : k1.handles[g].refcount + Untaken(g) =
                                 Cardinality(Names(F1, g)) + k1.leaked[g]
          /\ \A g \in Std : k1.handles[g].type = "TTY"
          /\ \A g \in Handle \ Std :
               k1.handles[g].type # "FREE" => k1.handles[g].refcount >= 1
      BY Zenon DEF CountsExact
    <3>0. ~k.lost /\ h \notin Std
      BY <2>3, Zenon
    <3>1. /\ \A g \in Handle : k.handles[g].refcount + Untaken(g) =
                                 n(g) + k.leaked[g]
          /\ \A g \in Std : k.handles[g].type = "TTY"
          /\ \A g \in Handle \ Std :
               k.handles[g].type # "FREE" => k.handles[g].refcount >= 1
      BY <1>1, <3>0, Zenon DEF CountsExact
    <3>2. ASSUME NEW g \in Handle
          PROVE  k1.handles[g].refcount + Untaken(g) =
                   Cardinality(Names(F1, g)) + k1.leaked[g]
      <4>1. CASE g = h
        <5>1. k1.handles[g].refcount = 0 /\ k1.leaked[g] = 0
          BY <2>3, <4>1 DEF FreeHandle
        <5> QED
          <6>1. Cardinality(Names(F1, g)) = n(h) - 1 /\ n(h) = 1
            BY <1>3, <2>4, <4>1, Zenon
          <6>2. Untaken(g) = 0
            BY <3>0, <4>1, UntakenNat, ZenonT(30)
          <6> QED
            BY <5>1, <6>1, <6>2
      <4>2. CASE g # h
        BY <1>3, <1>5, <2>3, <3>1, <4>2, Zenon
      <4> QED
        BY <4>1, <4>2, Zenon
    <3>3. \A g \in Std : k1.handles[g].type = "TTY"
      BY <2>3, <3>0, <3>1, Sorts, Zenon
    <3>4. ASSUME NEW g \in Handle \ Std, k1.handles[g].type # "FREE"
          PROVE  k1.handles[g].refcount >= 1
      BY <2>3, <3>1, <3>4 DEF FreeHandle
    <3> QED
      BY <3>2, <3>3, <3>4, Zenon
  <2>6. Keeps(k, k1, F1)
    <3>1. ~k1.lost => Names(F1, h) = {}
      <4>1. ~k1.lost => Cardinality(Names(F1, h)) = 0
        <5>1. Cardinality(Names(F1, h)) = n(h) - 1
          BY <1>3, <1>6, Zenon
        <5> QED
          BY <2>4, <5>1
      <4> QED
        BY <4>1, NamesFinite, ZenonT(30)
    <3> QED
      BY <2>2, <2>3, <3>1, Zenon DEF Keeps
  <2> QED
    BY <1>2, <2>1, <2>2, <2>5, <2>6, Zenon DEF Sound
<1> QED
  BY <1>7, <1>8, <1>9, Zenon

-----------------------------------------------------------------------------
(* sched_exit releases the descriptors one by one. *)

\* g holds the tables after the first 0, 1, ... n descriptors of t are released.
Next1(k, t, d) == IF t[d] = None THEN k ELSE Release(k, t[d])

Releases(k, t, n, g) ==
  g = [d \in 0..n |-> IF d = 0 THEN k ELSE Next1(g[d - 1], t, d - 1)]

\* The recursion in ReleaseAll defines such a g.
LEMMA ReleasesExist ==
  ASSUME Counting, NEW k, NEW t, NEW n \in Nat
  PROVE  \E g : Releases(k, t, n, g)
<1> DEFINE Bad == {m \in Nat : ~\E g : Releases(k, t, m, g)}
<1>1. SUFFICES ASSUME Bad # {} PROVE FALSE
  BY ZenonT(30)
<1>2. PICK m \in Bad : \A j \in Bad : m <= j
  BY <1>1, LeastNumber, Zenon
<1>3. m # 0
  <2>1. Releases(k, t, 0, [d \in 0..0 |-> k])
    BY DEF Releases
  <2> QED
    BY <2>1, ZenonT(30)
<1>4. PICK f : Releases(k, t, m - 1, f)
  BY <1>2, <1>3
<1> DEFINE g == [d \in 0..m |-> IF d = m THEN Next1(f[m - 1], t, m - 1) ELSE f[d]]
<1>5. \A d \in 0..m : g[d] = IF d = 0 THEN k ELSE Next1(g[d - 1], t, d - 1)
  <2> TAKE d \in 0..m
  <2>1. CASE d = m
    <3>1. m - 1 \in 0..m /\ m - 1 # m
      BY <1>3
    <3>2. g[m - 1] = f[m - 1] /\ g[m] = Next1(f[m - 1], t, m - 1)
      BY <3>1
    <3> QED
      BY <2>1, <1>3, <3>2, ZenonT(30)
  <2>2. CASE d # m
    <3>1. d \in 0..m - 1 /\ g[d] = f[d] /\ (d # 0 => g[d - 1] = f[d - 1])
      BY <2>2
    <3>2. f[d] = IF d = 0 THEN k ELSE Next1(f[d - 1], t, d - 1)
      BY <3>1, <1>4, Zenon DEF Releases
    <3> QED
      BY <3>1, <3>2, ZenonT(30)
  <2> QED
    BY <2>1, <2>2, ZenonT(30)
<1>6. Releases(k, t, m, g)
  <2> HIDE DEF g
  <2>1. g = [d \in 0..m |-> g[d]]
    BY ZenonT(30) DEF g
  <2> QED
    BY <2>1, <1>5, Zenon DEF Releases
<1> QED
  BY <1>6, ZenonT(30)

\* The descriptors once the first n of p are closed.
Closing(F, p, n) == [F EXCEPT ![p] = [d \in Fd |-> IF d < n THEN None ELSE F[p][d]]]

\* A thread that ends gives back all its references, and disturbs no handle
\* another thread has.
LEMMA ReleaseAllSound ==
  ASSUME Counting, NEW k, NEW F, Sound(k, F), NEW p \in Proc,
         NEW F1, F1 = [F EXCEPT ![p] = [d \in Fd |-> None]]
  PROVE  Sound(ReleaseAll(k, F[p]), F1) /\ Keeps(k, ReleaseAll(k, F[p]), F1)
<1> DEFINE t == F[p]
           Good(g, n) == Sound(g[n], Closing(F, p, n)) /\ Keeps(k, g[n], Closing(F, p, n))
<1>0. FdMax \in Nat /\ Fd = 0..FdMax - 1 /\ F \in FdTables
  BY HandlesAssumption, ZenonT(30) DEF Fd, Sound
<1>1. PICK g0 : Releases(k, t, FdMax, g0)
  BY <1>0, ReleasesExist, Zenon
<1>2. \E g : Releases(k, t, FdMax, g) /\ ReleaseAll(k, t) = g[FdMax]
  BY <1>1, Zenon DEF ReleaseAll, Releases, Next1
<1>3. PICK g : Releases(k, t, FdMax, g) /\ ReleaseAll(k, t) = g[FdMax]
  BY <1>2, ZenonT(30)
<1>4. \A d \in 0..FdMax : g[d] = IF d = 0 THEN k ELSE Next1(g[d - 1], t, d - 1)
  BY <1>3, Zenon DEF Releases
<1>5. Good(g, 0)
  <2>1. Closing(F, p, 0) = F
    <3>1. \A d \in Fd : ~(d < 0)
      BY <1>0
    <3>2. [d \in Fd |-> IF d < 0 THEN None ELSE F[p][d]] = F[p]
      BY <1>0, <3>1, ZenonT(30) DEF FdTables
    <3> QED
      BY <1>0, <3>2, ZenonT(30) DEF Closing, FdTables
  <2>2. g[0] = k
    BY <1>0, <1>4
  <2> QED
    BY <2>1, <2>2, ZenonT(30) DEF Keeps
<1>6. ASSUME NEW n \in 0..FdMax - 1, Good(g, n)
      PROVE  Good(g, n + 1)
  <2> DEFINE G == Closing(F, p, n)
             G1 == Closing(F, p, n + 1)
  <2>1. n \in Fd /\ n + 1 \in 0..FdMax /\ n + 1 # 0 /\ (n + 1) - 1 = n
    BY <1>0
  <2>2. g[n + 1] = Next1(g[n], t, n)
    BY <1>4, <2>1, ZenonT(30)
  <2>3. /\ G = [F EXCEPT ![p] = [d \in Fd |-> IF d < n THEN None ELSE F[p][d]]]
        /\ G1 = [F EXCEPT ![p] = [d \in Fd |-> IF d < n + 1 THEN None ELSE F[p][d]]]
    BY ZenonT(30) DEF Closing
  <2>a. /\ [d \in Fd |-> IF d < n THEN None ELSE F[p][d]] \in [Fd -> Handle \cup {None}]
        /\ [d \in Fd |-> IF d < n + 1 THEN None ELSE F[p][d]] \in [Fd -> Handle \cup {None}]
    BY <1>0, ZenonT(30) DEF FdTables
  <2>4. G \in FdTables /\ G1 \in FdTables
    <3> HIDE DEF G, G1
    <3> QED
      BY <1>0, <2>a, <2>3, ZenonT(30) DEF FdTables
  <2>5. /\ \A q \in Proc \ {p} : G[q] = F[q] /\ G1[q] = F[q]
        /\ \A d \in Fd : /\ G[p][d] = IF d < n THEN None ELSE F[p][d]
                         /\ G1[p][d] = IF d < n + 1 THEN None ELSE F[p][d]
    <3> HIDE DEF G, G1
    <3>1. /\ \A q \in Proc \ {p} : G[q] = F[q] /\ G1[q] = F[q]
          /\ G[p] = [d \in Fd |-> IF d < n THEN None ELSE F[p][d]]
          /\ G1[p] = [d \in Fd |-> IF d < n + 1 THEN None ELSE F[p][d]]
      BY <1>0, <2>3, ZenonT(30) DEF FdTables
    <3> QED
      BY <3>1, ZenonT(30)
  <2>6. G1 = [G EXCEPT ![p][n] = None]
    <3>1. \A d \in Fd : G1[p][d] = IF d = n THEN None ELSE G[p][d]
      BY <1>0, <2>1, <2>5
    <3>2. G1[p] = [G[p] EXCEPT ![n] = None]
      BY <2>1, <2>4, <3>1, Zenon DEF FdTables
    <3>3. \A q \in Proc : G1[q] = IF q = p THEN [G[p] EXCEPT ![n] = None] ELSE G[q]
      BY <2>5, <3>2, ZenonT(30)
    <3> HIDE DEF G, G1
    <3> QED
      BY <2>4, <3>3, ZenonT(30) DEF FdTables
  <2>7. G[p][n] = t[n]
    BY <1>0, <2>1, <2>5
  <2> HIDE DEF G, G1
  <2>8. Sound(g[n], G) /\ Keeps(k, g[n], G)
    BY <1>6, ZenonT(30) DEF G
  <2>9. CASE t[n] = None
    <3>1. \A d \in Fd : G[p][d] = IF d = n THEN None ELSE G[p][d]
      BY <2>7, <2>9, ZenonT(30)
    <3>2. G1 = G
      BY <2>1, <2>4, <2>6, <3>1, ZenonT(30) DEF FdTables
    <3>3. g[n + 1] = g[n]
      BY <2>2, <2>9, ZenonT(30) DEF Next1
    <3> QED
      BY <2>8, <3>2, <3>3, ZenonT(30) DEF G1
  <2>10. CASE t[n] # None
    <3>1. G[p][n] \in Handle
      BY <1>0, <2>1, <2>7, <2>10, ZenonT(30) DEF FdTables
    <3>2. g[n + 1] = Release(g[n], G[p][n])
      BY <2>2, <2>7, <2>10, ZenonT(30) DEF Next1
    <3>3. Sound(g[n + 1], G1) /\ Keeps(g[n], g[n + 1], G1)
      BY <2>1, <2>6, <2>8, <3>1, <3>2, ReleaseStep, Zenon
    <3>4. OneLess(G, G1, G[p][n])
      BY <2>1, <2>4, <2>6, <3>1, NamesDrop, Zenon
    <3>5. Keeps(k, g[n + 1], G1)
      BY <2>8, <3>3, <3>4, KeepsTrans, ZenonT(30) DEF OneLess
    <3> QED
      BY <3>3, <3>5, ZenonT(30) DEF G1
  <2> QED
    BY <2>9, <2>10, ZenonT(30)
<1>7. \A n \in 0..FdMax : Good(g, n)
  <2> DEFINE Bad == {n \in 0..FdMax : ~Good(g, n)}
  <2> HIDE DEF Good
  <2>1. SUFFICES ASSUME Bad # {} PROVE FALSE
    BY ZenonT(30)
  <2>2. Bad \subseteq Nat
    OBVIOUS
  <2>3. PICK n \in Bad : \A j \in Bad : n <= j
    <3> HIDE DEF Bad
    <3> QED
      BY <2>1, <2>2, LeastNumber, Zenon
  <2>4. n # 0 /\ n \in 0..FdMax /\ ~Good(g, n)
    BY <1>5, <2>3, ZenonT(30)
  <2>5. n - 1 \in 0..FdMax - 1 /\ (n - 1) + 1 = n /\ Good(g, n - 1)
    BY <1>0, <2>3, <2>4
  <2> QED
    BY <1>6, <2>4, <2>5, ZenonT(30)
<1>8. Closing(F, p, FdMax) = F1
  <2>1. \A d \in Fd : d < FdMax
    BY <1>0
  <2>2. [d \in Fd |-> IF d < FdMax THEN None ELSE F[p][d]] = [d \in Fd |-> None]
    BY <2>1, ZenonT(30)
  <2> QED
    BY <2>2, Zenon DEF Closing
<1>9. Good(g, FdMax) /\ FdMax \in 0..FdMax
  BY <1>0, <1>7
<1> QED
  BY <1>3, <1>8, <1>9, ZenonT(30)

-----------------------------------------------------------------------------
(* References that are taken, in SYSCALL_SPAWN several at once. *)

\* Copying a handle to an unused descriptor: the handle is acquired.
LEMMA AcquireStep ==
  ASSUME Counting, NEW k, NEW F, Sound(k, F), NEW p \in Proc, NEW d \in Fd, F[p][d] = None,
         NEW h \in Handle, k.handles[h].type = "FREE" => k.lost,
         NEW F1, F1 = [F EXCEPT ![p][d] = h], NEW k1, k1 = Acquire(k, h)
  PROVE  Sound(k1, F1) /\ Keeps(k, k1, F1)
<1>1. /\ k \in TablesType /\ F \in FdTables
      /\ HandlesSound(k) /\ FilesHeld(k) /\ PipesSound(k) /\ CountsExact(k, F)
  BY ZenonT(30) DEF Sound
<1>2. F1 \in FdTables /\ OneMore(F, F1, h)
  BY <1>1, NamesAdd, Zenon
<1>3. CASE k.handles[h].type = "FREE"
  <2>1. k1 = k
    BY <1>3, ZenonT(30) DEF Acquire
  <2> QED
    BY <1>1, <1>2, <1>3, <2>1, Zenon DEF Sound, CountsExact, Keeps
<1>4. CASE k.handles[h].type # "FREE"
  <2> DEFINE H == [k.handles EXCEPT ![h].refcount = @ + 1]
  <2>1. H \in [Handle -> HandleRec]
    BY <1>1 DEF TablesType, HandleRec
  <2>2. k1 = [k EXCEPT !.handles = H]
    BY <1>1, <1>4, ZenonT(30) DEF Acquire, TablesType
  <2>3. /\ k1 \in TablesType /\ k1.handles = H
        /\ k1.lost = k.lost /\ k1.leaked = k.leaked /\ k1.files = k.files
        /\ k1.pipes = k.pipes
    <3> HIDE DEF H
    <3> QED
      BY <1>1, <2>1, <2>2, ZenonT(30) DEF TablesType
  <2>4. \A g \in Handle :
          /\ k1.handles[g].type = k.handles[g].type
          /\ k1.handles[g].file = k.handles[g].file
          /\ g # h => k1.handles[g] = k.handles[g]
          /\ k1.handles[g].refcount = IF g = h THEN k.handles[g].refcount + 1
                                      ELSE k.handles[g].refcount
          /\ k.handles[g].refcount \in Int /\ k.leaked[g] \in Nat
    BY <1>1, <2>3 DEF TablesType, HandleRec
  <2>5. HandlesSound(k1)
    BY <1>1, <1>4, <2>3, <2>4 DEF HandlesSound
  <2>6. FilesHeld(k1)
    <3> SUFFICES ASSUME NEW f \in File, k1.files[f] # NoFile
                 PROVE  \E g \in Handle : k1.handles[g].type = "VFS" /\ k1.handles[g].file = f
      BY Zenon DEF FilesHeld
    <3>1. PICK g \in Handle : k.handles[g].type = "VFS" /\ k.handles[g].file = f
      BY <1>1, <2>3, Zenon DEF FilesHeld
    <3> QED
      BY <2>4, <3>1, Zenon
  <2>7. PipesSound(k1)
    BY <1>1, <2>3 DEF PipesSound
  <2>8. CountsExact(k1, F1)
    <3> SUFFICES ASSUME ~k1.lost PROVE
          /\ \A g \in Handle : k1.handles[g].refcount + Untaken(g) =
                                 Cardinality(Names(F1, g)) + k1.leaked[g]
          /\ \A g \in Std : k1.handles[g].type = "TTY"
          /\ \A g \in Handle \ Std :
               k1.handles[g].type # "FREE" => k1.handles[g].refcount >= 1
      BY Zenon DEF CountsExact
    <3>1. /\ \A g \in Handle : k.handles[g].refcount + Untaken(g) =
                                 Cardinality(Names(F, g)) + k.leaked[g]
          /\ \A g \in Std : k.handles[g].type = "TTY"
          /\ \A g \in Handle \ Std :
               k.handles[g].type # "FREE" => k.handles[g].refcount >= 1
      BY <1>1, <2>3, Zenon DEF CountsExact
    <3>2. ASSUME NEW g \in Handle
          PROVE  k1.handles[g].refcount + Untaken(g) =
                   Cardinality(Names(F1, g)) + k1.leaked[g]
      <4>1. Cardinality(Names(F, g)) \in Nat /\ Untaken(g) \in Nat /\ k.leaked[g] \in Nat
        BY <2>4, UntakenNat, NamesFinite, Zenon
      <4>2. k.handles[g].refcount + Untaken(g) = Cardinality(Names(F, g)) + k.leaked[g]
        BY <3>1, ZenonT(30)
      <4>3. Cardinality(Names(F1, g)) =
              IF g = h THEN Cardinality(Names(F, g)) + 1 ELSE Cardinality(Names(F, g))
        BY <1>2, Zenon DEF OneMore
      <4> QED
        BY <2>3, <2>4, <4>1, <4>2, <4>3
    <3>3. \A g \in Std : k1.handles[g].type = "TTY"
      BY <2>4, <3>1, Sorts, Zenon
    <3>4. ASSUME NEW g \in Handle \ Std, k1.handles[g].type # "FREE"
          PROVE  k1.handles[g].refcount >= 1
      BY <2>4, <3>1, <3>4
    <3> QED
      BY <3>2, <3>3, <3>4, Zenon
  <2>9. Keeps(k, k1, F1)
    BY <2>3, <2>4, ZenonT(30) DEF Keeps
  <2> QED
    BY <1>2, <2>3, <2>5, <2>6, <2>7, <2>8, <2>9, ZenonT(30) DEF Sound
<1> QED
  BY <1>3, <1>4, ZenonT(30)

\* n(h) more references to every handle h that is not free, m(h) of them leaked.
Raised(k, k1, N, M) ==
  /\ k1 \in TablesType
  /\ k1.files = k.files /\ k1.pipes = k.pipes /\ k1.lost = k.lost /\ k1.twice = k.twice
  /\ \A h \in Handle :
       /\ k1.handles[h].type = k.handles[h].type
       /\ k1.handles[h].file = k.handles[h].file
       /\ k1.handles[h].refcount = k.handles[h].refcount + N[h]
       /\ k1.leaked[h] = k.leaked[h] + M[h]
       /\ k.handles[h].type = "FREE" => N[h] = 0 /\ M[h] = 0

\* Handles and files are as sound as before.
LEMMA RaisedSound ==
  ASSUME NEW k \in TablesType, NEW k1, NEW N \in [Handle -> Nat], NEW M \in [Handle -> Nat],
         Raised(k, k1, N, M), HandlesSound(k), FilesHeld(k), PipesSound(k)
  PROVE  HandlesSound(k1) /\ FilesHeld(k1) /\ PipesSound(k1)
<1>1. /\ k1 \in TablesType /\ k1.files = k.files /\ k1.pipes = k.pipes
      /\ \A h \in Handle :
           /\ k1.handles[h].type = k.handles[h].type
           /\ k1.handles[h].file = k.handles[h].file
           /\ k1.handles[h].refcount = k.handles[h].refcount + N[h]
           /\ k1.leaked[h] = k.leaked[h] + M[h]
           /\ k.handles[h].type = "FREE" => N[h] = 0 /\ M[h] = 0
  BY Zenon DEF Raised
<1>2. ASSUME NEW h \in Handle, k1.handles[h].type = "FREE"
      PROVE  k1.handles[h] = FreeHandle /\ k1.leaked[h] = 0
  <2>1. k.handles[h] = FreeHandle /\ k.leaked[h] = 0
    BY <1>1, <1>2, ZenonT(30) DEF HandlesSound
  <2>2. k1.handles[h].refcount = 0 + 0 /\ k1.leaked[h] = 0 + 0 /\ k1.handles[h].file = None
    BY <1>1, <1>2, <2>1 DEF FreeHandle
  <2>3. k1.handles[h] \in HandleRec
    BY <1>1, Zenon DEF TablesType
  <2> QED
    BY <1>2, <2>2, <2>3 DEF HandleRec, FreeHandle
<1>3. HandlesSound(k1)
  <2>1. \A h \in Handle : k1.handles[h].type = "TTY" => k1.handles[h].file = None
    BY <1>1, Zenon DEF HandlesSound
  <2>2. \A h \in Handle : k1.handles[h].type = "VFS" =>
          k1.handles[h].file \in File /\ k1.files[k1.handles[h].file] # NoFile
    BY <1>1, ZenonT(30) DEF HandlesSound
  <2>3. \A g, h \in Handle :
          k1.handles[g].type = "VFS" /\ k1.handles[h].type = "VFS"
            /\ k1.handles[g].file = k1.handles[h].file => g = h
    BY <1>1 DEF HandlesSound
  <2> QED
    BY <1>2, <2>1, <2>2, <2>3, Zenon DEF HandlesSound
<1>4. FilesHeld(k1)
  <2> SUFFICES ASSUME NEW f \in File, k1.files[f] # NoFile
               PROVE  \E g \in Handle : k1.handles[g].type = "VFS" /\ k1.handles[g].file = f
    BY ZenonT(30) DEF FilesHeld
  <2>1. PICK g \in Handle : k.handles[g].type = "VFS" /\ k.handles[g].file = f
    BY <1>1, Zenon DEF FilesHeld
  <2> QED
    BY <1>1, <2>1, Zenon
<1> QED
  BY <1>1, <1>3, <1>4 DEF PipesSound

\* The references to the overrides are taken and leaked.
LEMMA OverridesTaken ==
  ASSUME Counting, NEW k \in TablesType, NEW o \in [Std -> Handle \cup {None}]
  PROVE  \E N \in [Handle -> Nat] : Raised(k, AcquireOverrides(k, o), N, N)
<1> DEFINE taken(h) == Cardinality({s \in Std : o[s] = h /\ k.handles[h].type # "FREE"})
           N == [h \in Handle |-> taken(h)]
           H == [h \in Handle |-> [k.handles[h] EXCEPT !.refcount = @ + taken(h)]]
           L == [h \in Handle |-> k.leaked[h] + taken(h)]
           k1 == AcquireOverrides(k, o)
<1>1. \A h \in Handle : taken(h) \in Nat
  BY Countable, Sorts, Zenon
<1>2. \A h \in Handle : k.handles[h].type = "FREE" => taken(h) = 0
  <2> SUFFICES ASSUME NEW h \in Handle, k.handles[h].type = "FREE" PROVE taken(h) = 0
    BY ZenonT(30)
  <2>1. {s \in Std : o[s] = h /\ k.handles[h].type # "FREE"} = {}
    BY ZenonT(30)
  <2> QED
    BY <2>1, SmallSets, ZenonT(30)
<1>3. k1 = [k EXCEPT !.handles = H, !.leaked = L]
  BY ZenonT(30) DEF AcquireOverrides
<1> HIDE DEF taken, k1
<1>4. H \in [Handle -> HandleRec] /\ L \in [Handle -> Nat] /\ N \in [Handle -> Nat]
  BY <1>1 DEF TablesType, HandleRec
<1>5. \A h \in Handle :
        /\ H[h].type = k.handles[h].type /\ H[h].file = k.handles[h].file
        /\ H[h].refcount = k.handles[h].refcount + N[h] /\ L[h] = k.leaked[h] + N[h]
        /\ k.handles[h].type = "FREE" => N[h] = 0
  BY <1>2 DEF TablesType, HandleRec
<1> HIDE DEF H, L, N
<1>6. /\ k1 \in TablesType /\ k1.handles = H /\ k1.leaked = L
      /\ k1.files = k.files /\ k1.pipes = k.pipes /\ k1.lost = k.lost /\ k1.twice = k.twice
  BY <1>3, <1>4, Zenon DEF TablesType
<1>7. Raised(k, k1, N, N)
  BY <1>5, <1>6, Zenon DEF Raised
<1> QED
  BY <1>4, <1>7, ZenonT(30) DEF k1

\* The references of the child's descriptors are taken.
LEMMA DescriptorsTaken ==
  ASSUME Counting, NEW k \in TablesType, NEW t \in [Fd -> Handle \cup {None}],
         NEW N, N = [h \in Handle |-> IF k.handles[h].type = "FREE" THEN 0
                                      ELSE Cardinality({d \in Fd : t[d] = h})]
  PROVE  /\ N \in [Handle -> Nat]
         /\ Raised(k, Inherit(k, t), N, [h \in Handle |-> 0])
<1> DEFINE taken(h) == Cardinality({d \in Fd : t[d] = h /\ k.handles[h].type # "FREE"})
           H == [h \in Handle |-> [k.handles[h] EXCEPT !.refcount = @ + taken(h)]]
           Z == [h \in Handle |-> 0]
           k1 == Inherit(k, t)
<1>1. \A h \in Handle : taken(h) = N[h] /\ N[h] \in Nat
  <2> SUFFICES ASSUME NEW h \in Handle PROVE taken(h) = N[h] /\ N[h] \in Nat
    BY Zenon
  <2>1. CASE k.handles[h].type = "FREE"
    <3>1. {d \in Fd : t[d] = h /\ k.handles[h].type # "FREE"} = {}
      BY <2>1, ZenonT(30)
    <3> QED
      BY <2>1, <3>1, SmallSets, Zenon
  <2>2. CASE k.handles[h].type # "FREE"
    <3>1. {d \in Fd : t[d] = h /\ k.handles[h].type # "FREE"} = {d \in Fd : t[d] = h}
      BY <2>2, ZenonT(30)
    <3> QED
      BY <2>2, <3>1, Countable, ZenonT(30)
  <2> QED
    BY <2>1, <2>2, Zenon
<1>2. k1 = [k EXCEPT !.handles = H]
  BY ZenonT(30) DEF Inherit
<1> HIDE DEF taken, k1
<1>a. N \in [Handle -> Nat] /\ Z \in [Handle -> Nat]
  BY <1>1, ZenonT(30)
<1>b. \A h \in Handle : k.handles[h] \in HandleRec /\ k.leaked[h] \in Nat
  BY ZenonT(30) DEF TablesType
<1>c. \A h \in Handle : H[h] = [k.handles[h] EXCEPT !.refcount = @ + taken(h)]
  BY ZenonT(30)
<1>d. \A h \in Handle : taken(h) \in Nat
  BY <1>1, Zenon
<1>3. H \in [Handle -> HandleRec]
  BY <1>b, <1>d DEF HandleRec
<1>4. \A h \in Handle :
        /\ H[h].type = k.handles[h].type /\ H[h].file = k.handles[h].file
        /\ H[h].refcount = k.handles[h].refcount + N[h]
        /\ k.leaked[h] = k.leaked[h] + Z[h]
        /\ k.handles[h].type = "FREE" => N[h] = 0 /\ Z[h] = 0
  <2> TAKE h \in Handle
  <2>1. /\ H[h].type = k.handles[h].type /\ H[h].file = k.handles[h].file
        /\ H[h].refcount = k.handles[h].refcount + taken(h)
    BY <1>b, <1>c, Zenon DEF HandleRec
  <2>2. k.leaked[h] = k.leaked[h] + Z[h] /\ Z[h] = 0
    BY <1>b
  <2>3. k.handles[h].type = "FREE" => N[h] = 0
    BY ZenonT(30)
  <2> QED
    BY <1>1, <2>1, <2>2, <2>3, Zenon
<1> HIDE DEF H, Z
<1>5. /\ k1 \in TablesType /\ k1.handles = H /\ k1.leaked = k.leaked
      /\ k1.files = k.files /\ k1.pipes = k.pipes /\ k1.lost = k.lost /\ k1.twice = k.twice
  BY <1>2, <1>3, ZenonT(30) DEF TablesType
<1>6. Raised(k, k1, N, Z)
  BY <1>4, <1>5, Zenon DEF Raised
<1> QED
  BY <1>a, <1>6, Zenon DEF k1, Z

\* A child with the descriptors of p and the leaked references to o.
LEMMA SpawnStep ==
  ASSUME Counting, NEW k, NEW F, Sound(k, F), NEW p \in Proc, NEW c \in Proc,
         \A d \in Fd : F[c][d] = None, NEW o \in [Std -> Handle \cup {None}],
         NEW F1, F1 = [F EXCEPT ![c] = F[p]],
         NEW k2, k2 = Inherit(AcquireOverrides(k, o), F[p])
  PROVE  Sound(k2, F1) /\ Keeps(k, k2, F1)
<1> DEFINE k1 == AcquireOverrides(k, o)
           Z == [h \in Handle |-> 0]
           M == [h \in Handle |-> IF k1.handles[h].type = "FREE" THEN 0
                                  ELSE Cardinality({d \in Fd : F[p][d] = h})]
<1>1. /\ k \in TablesType /\ F \in FdTables
      /\ HandlesSound(k) /\ FilesHeld(k) /\ PipesSound(k) /\ CountsExact(k, F)
  BY ZenonT(30) DEF Sound
<1>2. PICK N \in [Handle -> Nat] : Raised(k, k1, N, N)
  BY <1>1, OverridesTaken, ZenonT(30)
<1> HIDE DEF k1
<1>3. k1 \in TablesType /\ k2 = Inherit(k1, F[p])
  BY <1>2, Zenon DEF Raised, k1
<1>4. F[p] \in [Fd -> Handle \cup {None}]
  BY <1>1, ZenonT(30) DEF FdTables
<1>5. M \in [Handle -> Nat] /\ Raised(k1, k2, M, Z)
  BY <1>3, <1>4, DescriptorsTaken, Zenon
<1>6. HandlesSound(k1) /\ FilesHeld(k1) /\ PipesSound(k1)
  BY <1>1, <1>2, RaisedSound, ZenonT(30)
<1>7. Z \in [Handle -> Nat]
  BY ZenonT(30)
<1>8. HandlesSound(k2) /\ FilesHeld(k2) /\ PipesSound(k2)
  <2> HIDE DEF M, Z
  <2> QED
    BY <1>3, <1>5, <1>6, <1>7, RaisedSound, Zenon
<1>9. F1 \in FdTables /\ MoreBy(F, F1, F[p])
  BY <1>1, NamesInherit, Zenon
<1>10. \A h \in Handle : Z[h] = 0
  BY Zenon
<1> HIDE DEF Z
<1>11. /\ k2 \in TablesType /\ k2.lost = k.lost /\ k2.files = k.files
       /\ \A h \in Handle :
            /\ k2.handles[h].type = k.handles[h].type
            /\ k2.handles[h].file = k.handles[h].file
            /\ k1.handles[h].type = k.handles[h].type
            /\ k2.handles[h].refcount = (k.handles[h].refcount + N[h]) + M[h]
            /\ k2.leaked[h] = (k.leaked[h] + N[h]) + 0
            /\ k.handles[h].refcount \in Int /\ k.leaked[h] \in Nat
            /\ N[h] \in Nat /\ M[h] \in Nat
  <2> HIDE DEF M
  <2>1. \A h \in Handle : k.handles[h].refcount \in Int /\ k.leaked[h] \in Nat
    BY <1>1, ZenonT(30) DEF TablesType, HandleRec
  <2> QED
    BY <1>2, <1>5, <1>10, <2>1 DEF Raised
<1>12. CountsExact(k2, F1)
  <2> SUFFICES ASSUME ~k2.lost PROVE
        /\ \A g \in Handle : k2.handles[g].refcount + Untaken(g) =
                               Cardinality(Names(F1, g)) + k2.leaked[g]
        /\ \A g \in Std : k2.handles[g].type = "TTY"
        /\ \A g \in Handle \ Std :
             k2.handles[g].type # "FREE" => k2.handles[g].refcount >= 1
    BY Zenon DEF CountsExact
  <2>1. ~k.lost
    BY <1>11, Zenon
  <2>2. /\ \A g \in Handle : k.handles[g].refcount + Untaken(g) =
                               Cardinality(Names(F, g)) + k.leaked[g]
        /\ \A g \in Std : k.handles[g].type = "TTY"
        /\ \A g \in Handle \ Std :
             k.handles[g].type # "FREE" => k.handles[g].refcount >= 1
    BY <1>1, <2>1, Zenon DEF CountsExact
  <2>3. ASSUME NEW g \in Handle
        PROVE  k2.handles[g].refcount + Untaken(g) =
                 Cardinality(Names(F1, g)) + k2.leaked[g]
    <3> DEFINE c0 == Cardinality({d \in Fd : F[p][d] = g})
    <3>1. c0 \in Nat /\ Cardinality(Names(F1, g)) = Cardinality(Names(F, g)) + c0
      BY <1>9, Zenon DEF MoreBy
    <3>2. M[g] = c0
      <4>1. CASE k.handles[g].type # "FREE"
        BY <1>11, <4>1, Zenon
      <4>2. CASE k.handles[g].type = "FREE"
        <5>1. Cardinality(Names(F, g)) = 0
          BY <1>1, <2>1, <4>2, FreeUnnamed, ZenonT(30)
        <5>2. Names(F, g) = {}
          BY <5>1, NamesFinite, ZenonT(30)
        <5>3. \A d \in Fd : F[p][d] # g
          <6> SUFFICES ASSUME NEW d \in Fd, F[p][d] = g PROVE FALSE
            BY ZenonT(30)
          <6>1. <<p, d>> \in Names(F, g)
            BY ZenonT(30) DEF Names
          <6> QED
            BY <5>2, <6>1, ZenonT(30)
        <5>4. {d \in Fd : F[p][d] = g} = {}
          BY <5>3, ZenonT(30)
        <5> QED
          BY <1>11, <4>2, <5>4, SmallSets, Zenon
      <4> QED
        BY <4>1, <4>2, Zenon
    <3> HIDE DEF c0, M
    <3>3. Cardinality(Names(F, g)) \in Nat /\ Untaken(g) \in Nat
      BY NamesFinite, UntakenNat, ZenonT(30)
    <3>4. k.handles[g].refcount + Untaken(g) = Cardinality(Names(F, g)) + k.leaked[g]
      BY <2>2, Zenon
    <3>5. /\ k2.handles[g].refcount = (k.handles[g].refcount + N[g]) + c0
          /\ k2.leaked[g] = (k.leaked[g] + N[g]) + 0
      BY <1>11, <3>2, Zenon
    <3>6. k.handles[g].refcount \in Int /\ k.leaked[g] \in Nat /\ N[g] \in Nat
      BY <1>11, Zenon
    <3> QED
      BY <3>1, <3>3, <3>4, <3>5, <3>6
  <2>4. \A g \in Std : k2.handles[g].type = "TTY"
    BY <1>11, <2>2, Sorts, Zenon
  <2>5. ASSUME NEW g \in Handle \ Std, k2.handles[g].type # "FREE"
        PROVE  k2.handles[g].refcount >= 1
    <3> HIDE DEF M
    <3> QED
      BY <1>11, <2>2, <2>5
  <2> QED
    BY <2>3, <2>4, <2>5, Zenon
<1>13. Keeps(k, k2, F1)
  BY <1>11, Zenon DEF Keeps
<1> QED
  BY <1>8, <1>9, <1>11, <1>12, <1>13, Zenon DEF Sound

-----------------------------------------------------------------------------
(* The calls. *)

\* SYSCALL_CLOSE.
LEMMA CloseStep ==
  ASSUME Counting, IInv, NEW p \in Proc, NEW d \in Fd, Close(p, d)
  PROVE  IInv'
<1> DEFINE a == AfterInit
           k == Release(a, fds[p][d])
<1>1. Sound(a, fds) /\ fds \in FdTables
  BY Initialised, ZenonT(30)
<1>2. /\ proc[p] = "user" /\ ready' = TRUE /\ UNCHANGED <<proc, launch, inFile>>
      /\ fds[p][d] # None /\ SetTables(k) /\ fds' = [fds EXCEPT ![p][d] = None]
  BY ZenonT(30) DEF Close, Enter
<1>3. fds[p][d] \in Handle
  BY <1>1, <1>2, ZenonT(30) DEF FdTables
<1>4. Sound(k, fds') /\ Keeps(a, k, fds')
  BY <1>1, <1>2, <1>3, ReleaseStep, Zenon
<1>5. \A q \in Proc \ {p} : fds'[q] = fds[q]
  BY <1>1, <1>2, ZenonT(30) DEF FdTables
<1> HIDE DEF k
<1> QED
  BY <1>2, <1>4, <1>5, Unmoved, CallIInv, Zenon

\* SYSCALL_DUP2: old still names its handle when new has given up its own.
LEMMA Dup2Step ==
  ASSUME Counting, IInv, NEW p \in Proc, NEW old \in Fd, NEW new \in Fd, Dup2(p, old, new)
  PROVE  IInv'
<1> DEFINE a == AfterInit
           k == IF fds[p][new] = None THEN a ELSE Release(a, fds[p][new])
           F == [fds EXCEPT ![p][new] = None]
           h == fds[p][old]
           k1 == Acquire(k, h)
<1>1. Sound(a, fds) /\ fds \in FdTables
  BY Initialised, ZenonT(30)
<1>2. /\ proc[p] = "user" /\ ready' = TRUE /\ UNCHANGED <<proc, launch, inFile>>
      /\ h # None /\ old # new /\ SetTables(k1)
      /\ fds' = [fds EXCEPT ![p][new] = h]
  BY Zenon DEF Dup2, Enter
<1>3. h \in Handle
  BY <1>1, <1>2, ZenonT(30) DEF FdTables
<1>4. Sound(k, F) /\ Keeps(a, k, F)
  <2>1. CASE fds[p][new] = None
    <3>1. F = fds
      BY <1>1, <2>1, ZenonT(30) DEF FdTables
    <3>2. k = a
      BY <2>1, ZenonT(30)
    <3> QED
      BY <1>1, <3>1, <3>2, Zenon DEF Keeps
  <2>2. CASE fds[p][new] # None
    <3>1. fds[p][new] \in Handle
      BY <1>1, <2>2, ZenonT(30) DEF FdTables
    <3>2. k = Release(a, fds[p][new])
      BY <2>2, ZenonT(30)
    <3> HIDE DEF k
    <3> QED
      BY <1>1, <3>1, <3>2, ReleaseStep, ZenonT(30)
  <2> QED
    BY <2>1, <2>2, Zenon
<1>5. F \in FdTables /\ F[p][new] = None /\ F[p][old] = h
  BY <1>1, <1>2, ZenonT(30) DEF FdTables
<1>6. fds' = [F EXCEPT ![p][new] = h]
  BY <1>1, <1>2, ZenonT(30) DEF FdTables
<1>7. \A q \in Proc \ {p} : fds'[q] = fds[q]
  BY <1>1, <1>2, ZenonT(30) DEF FdTables
<1> HIDE DEF a, k, F, h
<1>8. k.handles[h].type = "FREE" => k.lost
  <2> SUFFICES ASSUME k.handles[h].type = "FREE", ~k.lost PROVE FALSE
    BY Zenon
  <2>1. Cardinality(Names(F, h)) = 0
    BY <1>3, <1>4, FreeUnnamed, ZenonT(30) DEF Sound
  <2>2. <<p, old>> \in Names(F, h)
    BY <1>5, ZenonT(30) DEF Names
  <2> QED
    BY <2>1, <2>2, NamesFinite, ZenonT(30)
<1>9. Sound(k1, fds') /\ Keeps(k, k1, fds')
  BY <1>3, <1>4, <1>5, <1>6, <1>8, AcquireStep, Zenon
<1>10. Keeps(a, k1, fds')
  \* a named handle other than h is named in F too
  <2> SUFFICES ASSUME ~k1.lost, NEW g \in Handle, a.handles[g].type = "VFS",
                      Names(fds', g) # {}
               PROVE  /\ k1.handles[g].type = "VFS" /\ k1.handles[g].file = a.handles[g].file
                      /\ k1.files[a.handles[g].file] = a.files[a.handles[g].file]
    BY <1>4, <1>9, Zenon DEF Keeps
  <2>1. Names(F, g) # {}
    <3>1. PICK x \in Proc \X Fd : fds'[x[1]][x[2]] = g
      BY ZenonT(30) DEF Names
    <3>2. x[1] \in Proc /\ x[2] \in Fd
      BY ZenonT(30)
    <3>3. CASE g = h
      <4>1. <<p, old>> \in Names(F, g)
        BY <1>5, <3>3, ZenonT(30) DEF Names
      <4> QED
        BY <4>1, ZenonT(30)
    <3>4. CASE g # h
      <4>1. F[x[1]][x[2]] = g
        BY <1>5, <1>6, <3>1, <3>2, <3>4, ZenonT(30) DEF FdTables
      <4> QED
        BY <4>1, ZenonT(30) DEF Names
    <3> QED
      BY <3>3, <3>4, ZenonT(30)
  <2>2. ~k.lost
    BY <1>9, Zenon DEF Keeps
  <2>3. /\ k.handles[g].type = "VFS" /\ k.handles[g].file = a.handles[g].file
        /\ k.files[a.handles[g].file] = a.files[a.handles[g].file]
    BY <1>4, <2>1, <2>2, Zenon DEF Keeps
  <2> QED
    BY <1>9, <2>3, Zenon DEF Keeps
<1> HIDE DEF k1
<1> QED
  BY <1>2, <1>7, <1>9, <1>10, Unmoved, CallIInv, Zenon DEF a

\* SYSCALL_SPAWN.
LEMMA SpawnCallStep ==
  ASSUME Counting, IInv, NEW p \in Proc, NEW m \in FdMaps, Spawn(p, m)
  PROVE  IInv'
<1> DEFINE a == AfterInit
           o == Overrides(p, m)
           k == Inherit(AcquireOverrides(a, o), fds[p])
<1>0. /\ proc \in [Proc -> {"none", "created", "user", "inpipe", "dead"}]
      /\ launch \in [Proc -> [Std -> Handle \cup {None}]]
      /\ inFile \in [Proc -> File \cup {None}]
      /\ \A q \in Proc : proc[q] \in {"none", "dead"} => \A d \in Fd : fds[q][d] = None
  BY Zenon DEF IInv
<1>1. Sound(a, fds) /\ fds \in FdTables
  BY Initialised, ZenonT(30)
<1>2. ready' = TRUE /\ UNCHANGED inFile /\ SetTables(k) /\ proc[p] = "user"
  BY ZenonT(30) DEF Spawn, Enter
<1>3. PICK c \in Proc :
        /\ proc[c] = "none" /\ proc' = [proc EXCEPT ![c] = "created"]
        /\ fds' = [fds EXCEPT ![c] = fds[p]] /\ launch' = [launch EXCEPT ![c] = o]
  BY Zenon DEF Spawn
<1>4. o \in [Std -> Handle \cup {None}]
  <2>1. m \in [Std -> Fd \cup {None}]
    BY HandlesAssumption, ZenonT(30)
  <2>2. fds[p] \in [Fd -> Handle \cup {None}]
    BY <1>1, ZenonT(30) DEF FdTables
  <2> QED
    BY <2>1, <2>2, ZenonT(30) DEF Overrides
<1>5. \A d \in Fd : fds[c][d] = None
  BY <1>0, <1>3, ZenonT(30)
<1> HIDE DEF a, o
<1>6. Sound(k, fds') /\ Keeps(a, k, fds')
  BY <1>1, <1>3, <1>4, <1>5, SpawnStep, Zenon
<1> HIDE DEF k
<1>7. /\ proc' \in [Proc -> {"none", "created", "user", "inpipe", "dead"}]
      /\ launch' \in [Proc -> [Std -> Handle \cup {None}]]
      /\ inFile' \in [Proc -> File \cup {None}]
  BY <1>0, <1>2, <1>3, <1>4, ZenonT(30)
<1>8. \A q \in Proc : proc'[q] \in {"none", "dead"} => \A d \in Fd : fds'[q][d] = None
  <2> SUFFICES ASSUME NEW q \in Proc, proc'[q] \in {"none", "dead"}, NEW d \in Fd
               PROVE  fds'[q][d] = None
    BY Zenon
  <2>1. q # c /\ proc'[q] = proc[q]
    BY <1>0, <1>3, ZenonT(30)
  <2>2. fds'[q] = fds[q]
    BY <1>1, <1>3, <2>1, Zenon DEF FdTables
  <2> QED
    BY <1>0, <2>1, <2>2, Zenon
<1>9. ASSUME NEW q \in Proc, proc'[q] = "inpipe"
      PROVE  proc[q] = "inpipe" /\ fds'[q] = fds[q] /\ inFile'[q] = inFile[q]
  <2>1. q # c /\ proc'[q] = proc[q]
    BY <1>0, <1>3, <1>9, ZenonT(30)
  <2>2. fds'[q] = fds[q]
    BY <1>1, <1>3, <2>1, Zenon DEF FdTables
  <2> QED
    BY <1>2, <1>9, <2>1, <2>2, Zenon
<1> QED
  BY <1>2, <1>6, <1>7, <1>8, <1>9, CallIInv, Zenon DEF a

\* A thread ends, in SYSCALL_EXIT or because its image cannot be loaded.
LEMMA DieStep ==
  ASSUME Counting, IInv, NEW p \in Proc, Die(p, AfterInit), ready' = TRUE
  PROVE  IInv'
<1> DEFINE a == AfterInit
           k == ReleaseAll(a, fds[p])
<1>0. /\ proc \in [Proc -> {"none", "created", "user", "inpipe", "dead"}]
      /\ launch \in [Proc -> [Std -> Handle \cup {None}]]
      /\ inFile \in [Proc -> File \cup {None}]
      /\ \A q \in Proc : proc[q] \in {"none", "dead"} => \A d \in Fd : fds[q][d] = None
  BY Zenon DEF IInv
<1>1. Sound(a, fds) /\ fds \in FdTables
  BY Initialised, ZenonT(30)
<1>2. /\ SetTables(k) /\ fds' = [fds EXCEPT ![p] = [d \in Fd |-> None]]
      /\ proc' = [proc EXCEPT ![p] = "dead"]
      /\ launch' = [launch EXCEPT ![p] = NoMap] /\ UNCHANGED inFile
  BY ZenonT(30) DEF Die
<1>3. Sound(k, fds') /\ Keeps(a, k, fds')
  BY <1>1, <1>2, ReleaseAllSound, Zenon
<1> HIDE DEF a, k
<1>4. /\ proc' \in [Proc -> {"none", "created", "user", "inpipe", "dead"}]
      /\ launch' \in [Proc -> [Std -> Handle \cup {None}]]
      /\ inFile' \in [Proc -> File \cup {None}]
  BY <1>0, <1>2, ZenonT(30) DEF NoMap
<1>5. \A q \in Proc : /\ q = p => proc'[q] = "dead" /\ \A d \in Fd : fds'[q][d] = None
                      /\ q # p => proc'[q] = proc[q] /\ fds'[q] = fds[q]
  BY <1>0, <1>1, <1>2, ZenonT(30) DEF FdTables
<1>6. \A q \in Proc : proc'[q] \in {"none", "dead"} => \A d \in Fd : fds'[q][d] = None
  BY <1>0, <1>5, ZenonT(30)
<1>7. \A q \in Proc : proc'[q] = "inpipe" =>
        proc[q] = "inpipe" /\ fds'[q] = fds[q] /\ inFile'[q] = inFile[q]
  BY <1>2, <1>5, Zenon
<1> QED
  BY <1>2, <1>3, <1>4, <1>6, <1>7, CallIInv, Zenon DEF a
=============================================================================
