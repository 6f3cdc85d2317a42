---------------------------- MODULE HandlesProofs ---------------------------
(***************************************************************************)
(* The theorems about Handles.  HandleReferences and HandleOpens argue     *)
(* from what Counting says of numbers of descriptors; it is proved here,   *)
(* so the theorems rest on the assumption about the constants alone.       *)
(***************************************************************************)
EXTENDS HandleOpens, FiniteSetTheorems, WellFoundedInduction

USE Z3T(30)

(* Numbers of descriptors. *)

\* A thread has finitely many descriptors.
LEMMA FdFinite == IsFiniteSet(Fd)
  BY HandlesAssumption, FS_Interval DEF Fd

\* Finitely many descriptors name a handle.
LEMMA NamesCount ==
  ASSUME NEW F, NEW h
  PROVE  IsFiniteSet(Names(F, h)) /\ Cardinality(Names(F, h)) \in Nat
<1>1. IsFiniteSet(Proc) /\ IsFiniteSet(Fd)
  BY HandlesAssumption, FdFinite, FS_Interval DEF Proc
<1>2. IsFiniteSet(Proc \X Fd)
  BY <1>1, FS_Product, ZenonT(30)
<1>3. Names(F, h) \in SUBSET (Proc \X Fd)
  BY ZenonT(30) DEF Names
<1>4. IsFiniteSet(Names(F, h))
  BY <1>2, <1>3, FS_Subset, ZenonT(30)
<1> QED
  BY <1>4, FS_CardinalityType, ZenonT(30)

\* A descriptor that is closed names its handle no longer.
LEMMA CountDrop ==
  ASSUME NEW F \in FdTables, NEW p \in Proc, NEW d \in Fd, F[p][d] \in Handle,
         NEW F1, F1 = [F EXCEPT ![p][d] = None]
  PROVE  F1 \in FdTables /\ OneLess(F, F1, F[p][d])
<1>1. F1 \in FdTables
  BY ZenonT(30) DEF FdTables
<1> SUFFICES ASSUME NEW h \in Handle
             PROVE  /\ Names(F1, h) \subseteq Names(F, h)
                    /\ Cardinality(Names(F1, h)) =
                         IF h = F[p][d] THEN Cardinality(Names(F, h)) - 1
                                        ELSE Cardinality(Names(F, h))
  BY <1>1, Zenon DEF OneLess
<1>2. \A q \in Proc, e \in Fd : F1[q][e] = IF q = p /\ e = d THEN None ELSE F[q][e]
  BY ZenonT(30) DEF FdTables
<1>3. Names(F1, h) = Names(F, h) \ {<<p, d>>}
  <2>1. ASSUME NEW x \in Proc \X Fd
        PROVE  F1[x[1]][x[2]] = h <=> (F[x[1]][x[2]] = h /\ x # <<p, d>>)
    <3>1. x = <<x[1], x[2]>> /\ x[1] \in Proc /\ x[2] \in Fd
      OBVIOUS
    <3>2. (x = <<p, d>>) <=> (x[1] = p /\ x[2] = d)
      BY <3>1
    <3> QED
      BY <3>1, <3>2, <1>2, Sorts
  <2> QED
    BY <2>1, ZenonT(30) DEF Names
<1>4. <<p, d>> \in Names(F, h) <=> h = F[p][d]
  BY ZenonT(30) DEF Names
<1>5. Cardinality(Names(F1, h)) =
        IF <<p, d>> \in Names(F, h) THEN Cardinality(Names(F, h)) - 1
                                    ELSE Cardinality(Names(F, h))
  BY <1>3, NamesCount, FS_RemoveElement, ZenonT(30)
<1> QED
  BY <1>1, <1>3, <1>4, <1>5, NamesCount, Zenon

\* A descriptor that is set names its handle as one more.
LEMMA CountAdd ==
  ASSUME NEW F \in FdTables, NEW p \in Proc, NEW d \in Fd, F[p][d] = None,
         NEW g \in Handle, NEW F1, F1 = [F EXCEPT ![p][d] = g]
  PROVE  F1 \in FdTables /\ OneMore(F, F1, g)
<1>1. F1 \in FdTables
  BY ZenonT(30) DEF FdTables
<1> SUFFICES ASSUME NEW h \in Handle
             PROVE  Cardinality(Names(F1, h)) =
                      IF h = g THEN Cardinality(Names(F, h)) + 1
                               ELSE Cardinality(Names(F, h))
  BY <1>1, Zenon DEF OneMore
<1>2. \A q \in Proc, e \in Fd : F1[q][e] = IF q = p /\ e = d THEN g ELSE F[q][e]
  BY ZenonT(30) DEF FdTables
<1>3. Names(F1, h) = IF h = g THEN Names(F, h) \cup {<<p, d>>} ELSE Names(F, h)
  <2>1. ASSUME NEW x \in Proc \X Fd
        PROVE  F1[x[1]][x[2]] = h <=> (F[x[1]][x[2]] = h \/ (h = g /\ x = <<p, d>>))
    <3>1. x = <<x[1], x[2]>> /\ x[1] \in Proc /\ x[2] \in Fd
      OBVIOUS
    <3>2. (x = <<p, d>>) <=> (x[1] = p /\ x[2] = d)
      BY <3>1
    <3> QED
      BY <3>1, <3>2, <1>2, Sorts
  <2>2. <<p, d>> \in Proc \X Fd
    BY ZenonT(30)
  <2> QED
    BY <2>1, <2>2, ZenonT(30) DEF Names
<1>4. <<p, d>> \notin Names(F, h)
  BY Sorts, ZenonT(30) DEF Names
<1>5. Cardinality(Names(F, h) \cup {<<p, d>>}) = Cardinality(Names(F, h)) + 1
  BY <1>4, NamesCount, FS_AddElement, ZenonT(30)
<1> QED
  BY <1>1, <1>3, <1>5, NamesCount, ZenonT(30)

\* A child that gets the descriptors of p names a handle as often as p does.
LEMMA CountInherit ==
  ASSUME NEW F \in FdTables, NEW p \in Proc, NEW c \in Proc,
         \A d \in Fd : F[c][d] = None, NEW F1, F1 = [F EXCEPT ![c] = F[p]]
  PROVE  F1 \in FdTables /\ MoreBy(F, F1, F[p])
<1>1. F1 \in FdTables
  BY ZenonT(30) DEF FdTables
<1> SUFFICES ASSUME NEW h \in Handle
             PROVE  /\ Cardinality({d \in Fd : F[p][d] = h}) \in Nat
                    /\ Cardinality(Names(F1, h)) =
                         Cardinality(Names(F, h)) + Cardinality({d \in Fd : F[p][d] = h})
  BY <1>1, Zenon DEF MoreBy
<1> DEFINE D == {d \in Fd : F[p][d] = h}
           X == {x \in Proc \X Fd : x[1] = c /\ x[2] \in D}
           b == [d \in D |-> <<c, d>>]
<1>2. IsFiniteSet(D) /\ Cardinality(D) \in Nat
  <2>1. IsFiniteSet(Fd)
    BY FdFinite, ZenonT(30)
  <2>2. D \in SUBSET Fd
    BY ZenonT(30)
  <2> HIDE DEF D
  <2> QED
    BY <2>1, <2>2, FS_Subset, FS_CardinalityType, ZenonT(30)
<1>3. ExistsBijection(D, X)
  <2>1. b \in [D -> X]
    BY ZenonT(30)
  <2>2. \A d, e \in D : b[d] = b[e] => d = e
    BY ZenonT(30)
  <2>3. \A x \in X : \E d \in D : b[d] = x
    <3> TAKE x \in X
    <3>1. x = <<c, x[2]>> /\ x[2] \in D
      OBVIOUS
    <3> QED
      BY <3>1, ZenonT(30)
  <2>4. b \in Bijection(D, X)
    BY <2>1, <2>2, <2>3, ZenonT(30) DEF Bijection, Injection, Surjection, IsInjective
  <2> QED
    BY <2>4, ZenonT(30) DEF ExistsBijection
<1>4. IsFiniteSet(X) /\ Cardinality(X) = Cardinality(D)
  BY <1>2, <1>3, FS_Bijection, ZenonT(30)
<1>5. \A x \in Proc \X Fd :
        F1[x[1]][x[2]] = h <=> (F[x[1]][x[2]] = h \/ (x[1] = c /\ F[p][x[2]] = h))
  <2> TAKE x \in Proc \X Fd
  <2>1. x[1] \in Proc /\ x[2] \in Fd
    BY ZenonT(30)
  <2>2. F1[x[1]] = IF x[1] = c THEN F[p] ELSE F[x[1]]
    BY <2>1, ZenonT(30) DEF FdTables
  <2>3. x[1] = c => F[x[1]][x[2]] # h
    BY <2>1, Sorts, ZenonT(30)
  <2> QED
    BY <2>2, <2>3, ZenonT(30)
<1>6. Names(F1, h) = Names(F, h) \cup X
  BY <1>5, ZenonT(30) DEF Names
<1>7. Names(F, h) \cap X = {}
  BY Sorts, ZenonT(30) DEF Names
<1>8. Cardinality(Names(F, h) \cap X) = 0
  BY <1>7, FS_EmptySet, ZenonT(30)
<1>9. Cardinality(Names(F, h) \cup X) = Cardinality(Names(F, h)) + Cardinality(X) - 0
  <2> HIDE DEF D, X
  <2> QED
    BY <1>8, <1>4, NamesCount, FS_Union, ZenonT(30)
<1>10. Cardinality(Names(F1, h)) = Cardinality(Names(F, h)) + Cardinality(D)
  <2> HIDE DEF D, X
  <2>1. Cardinality(Names(F, h)) \in Nat
    BY NamesCount, ZenonT(30)
  <2>2. Cardinality(Names(F1, h)) = Cardinality(Names(F, h)) + Cardinality(X) - 0
    BY <1>6, <1>9, Zenon
  <2>3. Cardinality(X) = Cardinality(D) /\ Cardinality(D) \in Nat
    BY <1>2, <1>4, ZenonT(30)
  <2> QED
    BY <2>1, <2>2, <2>3
<1> QED
  BY <1>1, <1>2, <1>10, ZenonT(30)

\* A set of naturals that is not empty has a least member.
LEMMA NatLeast ==
  ASSUME NEW T, T \subseteq Nat, T # {}
  PROVE  \E i \in T : \A j \in T : i <= j
<1>1. PICK i \in T : \A j \in T : ~(<<j, i>> \in OpToRel(<, Nat))
  BY NatLessThanWellFounded, WFMin, Zenon
<1>2. ASSUME NEW j \in T PROVE ~(j < i)
  <2>1. <<j, i>> \in Nat \X Nat
    BY ZenonT(30)
  <2> QED
    BY <1>1, <2>1, ZenonT(30) DEF OpToRel
<1> QED
  BY <1>2

\* A set of descriptors has a number.
LEMMA FdCount ==
  ASSUME NEW S, S \subseteq Fd
  PROVE  Cardinality(S) \in Nat
<1>1. IsFiniteSet(S)
  BY FdFinite, FS_Subset, ZenonT(30)
<1> QED
  BY <1>1, FS_CardinalityType, ZenonT(30)

\* What the lemmas about the tables assume of numbers of descriptors holds.
LEMMA CountingHolds == Counting
<1>1. ASSUME NEW F, NEW h
      PROVE  /\ Cardinality(Names(F, h)) \in Nat
             /\ Cardinality(Names(F, h)) = 0 <=> Names(F, h) = {}
  BY NamesCount, FS_EmptySet, Zenon
<1>2. ASSUME NEW S \in SUBSET Fd PROVE Cardinality(S) \in Nat
  BY FdCount, ZenonT(30)
<1>3. Cardinality({}) = 0 /\ \A x : Cardinality({x}) = 1
  BY FS_EmptySet, FS_Singleton, Zenon
<1>4. ASSUME NEW F \in FdTables, NEW p \in Proc, NEW d \in Fd, F[p][d] \in Handle
      PROVE  OneLess(F, [F EXCEPT ![p][d] = None], F[p][d])
  BY <1>4, CountDrop, Zenon
<1>5. ASSUME NEW F \in FdTables, NEW p \in Proc, NEW d \in Fd, NEW g \in Handle,
             F[p][d] = None
      PROVE  OneMore(F, [F EXCEPT ![p][d] = g], g)
  BY <1>5, CountAdd, Zenon
<1>6. ASSUME NEW F \in FdTables, NEW p \in Proc, NEW c \in Proc,
             \A d \in Fd : F[c][d] = None
      PROVE  MoreBy(F, [F EXCEPT ![c] = F[p]], F[p])
  BY <1>6, CountInherit, Zenon
<1>7. ASSUME NEW T \in SUBSET Nat, T # {} PROVE \E i \in T : \A j \in T : i <= j
  BY <1>7, NatLeast, Zenon
<1> QED
  BY <1>1, <1>2, <1>3, <1>4, <1>5, <1>6, <1>7, ZenonT(30) DEF Counting

-----------------------------------------------------------------------------
(* The theorems. *)

\* Every step preserves the invariant.
LEMMA StepIInv == Counting /\ IInv /\ [Next]_vars => IInv'
<1> SUFFICES ASSUME Counting, IInv, [Next]_vars PROVE IInv'
  BY ZenonT(30)
<1>1. CASE UNCHANGED vars
  BY <1>1, ZenonT(30) DEF vars, IInv, Sound, Tables, Init, UseHeld
<1>2. ASSUME NEW p \in Proc, LaunchFails(p) PROVE IInv'
  <2>1. ready
    <3>1. ~ready => proc[p] \in {"user", "none"}
      BY ZenonT(30) DEF IInv, Init
    <3> QED
      BY <1>2, <3>1, ZenonT(30) DEF LaunchFails
  <2>2. AfterInit = Tables /\ ready' = TRUE
    BY <1>2, <2>1, ZenonT(30) DEF LaunchFails, AfterInit, IInv
  <2> QED
    BY <1>2, <2>2, DieStep, ZenonT(30) DEF LaunchFails
<1>3. ASSUME NEW p \in Proc, Exit(p) PROVE IInv'
  BY <1>3, DieStep, ZenonT(30) DEF Exit, Enter
<1>4. ASSUME NEW p \in Proc, NEW x \in DupPairs, Dup2(p, x[1], x[2]) PROVE IInv'
  <2>1. x[1] \in Fd /\ x[2] \in Fd
    BY HandlesAssumption, ZenonT(30)
  <2> QED
    BY <1>4, <2>1, Dup2Step, ZenonT(30)
<1> QED
  BY <1>1, <1>2, <1>3, <1>4, OpenTtyStep, OpenFileStep, PipeStep, FirstCallStep,
     CloseStep, EnterPipeStep, SpawnCallStep, MoveStep, ZenonT(30) DEF Next

\* The invariant holds throughout: at the start nothing has moved, and every
\* system call, launch and exit preserves it.
THEOREM Invariance == Spec => []IInv
<1>1. Init => IInv
  BY InitIInv, ZenonT(30)
<1>2. IInv /\ [Next]_vars => IInv'
  BY StepIInv, CountingHolds, ZenonT(30)
<1> QED
  BY <1>1, <1>2, PTL DEF Spec

\* Every table holds values of its C type.
THEOREM TypeCorrect == Spec => []TypeOK
<1>1. IInv => TypeOK
  BY CountingHolds, IInvTypes, ZenonT(30)
<1> QED
  BY <1>1, Invariance, PTL

\* The reference counts are exact: as long as no console handle was freed, a
\* handle counts one for each descriptor that names it and each reference that
\* SYSCALL_SPAWN leaked.
THEOREM RefcountSafety == Spec => []RefcountExact
<1>1. IInv => RefcountExact
  BY CountingHolds, IInvCounts, ZenonT(30)
<1> QED
  BY <1>1, Invariance, PTL

\* An open file has exactly one handle and a handle's file is open, also when
\* the console handles are gone: no error path of open or pipe leaks a file.
THEOREM FileSafety == Spec => []OneHandlePerFile
<1>1. IInv => OneHandlePerFile
  BY CountingHolds, IInvFiles, ZenonT(30)
<1> QED
  BY <1>1, Invariance, PTL

\* A thread that yields inside a pipe finds its file and its pipe still there.
THEOREM PipeUseSafety == Spec => []PipeOutlivesUse
<1>1. IInv => PipeOutlivesUse
  BY CountingHolds, IInvPipeUse, ZenonT(30)
<1> QED
  BY <1>1, Invariance, PTL

\* The counts of a pipe are the numbers of its open ends, and an end that no
\* descriptor and no leaked reference holds is closed.
THEOREM PipeEndSafety == Spec => []PipeEndsExact
<1>1. IInv => PipeEndsExact
  BY CountingHolds, IInvPipeEnds, ZenonT(30)
<1> QED
  BY <1>1, Invariance, PTL

\* A pipe call that returns no descriptors, for want of a handle or of a
\* descriptor, has given back all it took: the tables are what they were.
PipeGivesBack == [][\A p \in Proc : Pipe(p) /\ fds' = fds => Tables' = AfterInit]_vars

\* SYSCALL_PIPE undoes itself on each of its error paths.
THEOREM PipeRollback == Spec => PipeGivesBack
<1>1. IInv /\ [Next]_vars =>
        [\A p \in Proc : Pipe(p) /\ fds' = fds => Tables' = AfterInit]_vars
  <2> SUFFICES ASSUME IInv, NEW p \in Proc, Pipe(p), fds' = fds
               PROVE  Tables' = AfterInit
    BY ZenonT(30)
  <2>1. SetTables(AfterInit)
    BY PipeOutcome, CountingHolds, ZenonT(30)
  <2> QED
    BY <2>1, Initialised, CountingHolds, TablesSet, ZenonT(30) DEF Sound
<1> QED
  BY <1>1, Invariance, PTL DEF Spec, PipeGivesBack
=============================================================================
