------------------------------ MODULE Handles ------------------------------
(***************************************************************************)
(* The open-file bookkeeping of NeptuneOS: the global handle table with    *)
(* its reference counts (kernel/syscall.c), the descriptor tables of the   *)
(* user threads (kernel/sched.c), the files and pipe ends they stand for   *)
(* (kernel/vfs.c, kernel/pipe.c).                                          *)
(*                                                                         *)
(* System calls run with interrupts off and user threads are not           *)
(* preempted, so a call is one step, except a read or write that yields    *)
(* inside a pipe.  Process 1 is init; pids are not reused (next_pid++).    *)
(* The boot thread exits before the first system call, when releasing a    *)
(* handle does nothing yet; the idle thread never uses its descriptors.    *)
(***************************************************************************)
EXTENDS Integers, FiniteSets

CONSTANTS
  MaxProcs,    \* bound: user threads ever created
  NStd,        \* standard descriptors and TTY handles (3 in the code)
  HandleMax,   \* HANDLE_MAX
  FdMax,       \* descriptors of a thread (16 in sched.c)
  MaxFiles,    \* bound: files open at the same time
  FdMaps,      \* the fd_map arguments SYSCALL_SPAWN is given
  DupPairs     \* the arguments SYSCALL_DUP2 is given

Proc == 1..MaxProcs
Handle == 0..HandleMax - 1
Fd == 0..FdMax - 1
File == 1..MaxFiles
Std == 0..NStd - 1
None == -1

ASSUME HandlesAssumption ==
  /\ MaxProcs \in Nat \ {0} /\ MaxFiles \in Nat
  /\ NStd \in Nat \ {0}
  /\ HandleMax \in Nat /\ HandleMax >= NStd
  /\ FdMax \in Nat /\ FdMax >= NStd
  /\ FdMaps \subseteq [Std -> Fd \cup {None}]
  /\ DupPairs \subseteq Fd \X Fd

VARIABLES
  ready,    \* handles_ready
  handles,  \* the handle table
  files,    \* struct vfs_file by number; of kind "none" when freed
  pipes,    \* struct pipe by number: freed when both counts are 0
  proc,     \* a user thread: none, created, user, inpipe or dead
  fds,      \* thread->fds
  launch,   \* user_launch->override_fds of a thread not launched yet
  inFile,   \* the file a thread in a pipe read or write uses
  leaked,   \* history: references SYSCALL_SPAWN took and nobody will drop
  lost,     \* history: a TTY handle of handles_init was freed
  closedTwice  \* history: vfs_close was called on a freed file

table == <<ready, handles, files, pipes, leaked, lost, closedTwice>>
vars == <<ready, handles, files, pipes, proc, fds, launch, inFile, leaked, lost,
          closedTwice>>

FreeHandle == [type |-> "FREE", file |-> None, refcount |-> 0]
NoFile == [kind |-> "none", pipe |-> None]
NoPipe == [readers |-> 0, writers |-> 0]
NoMap == [s \in Std |-> None]

-----------------------------------------------------------------------------
(* The tables as one value k, so that a call can change them several times. *)

Tables == [handles |-> handles, files |-> files, pipes |-> pipes,
           leaked |-> leaked, lost |-> lost, twice |-> closedTwice]

SetTables(k) ==
  /\ handles' = k.handles
  /\ files' = k.files
  /\ pipes' = k.pipes
  /\ leaked' = k.leaked
  /\ lost' = k.lost
  /\ closedTwice' = k.twice

\* syscall_acquire_handle: nothing happens to a free handle.
Acquire(k, h) ==
  IF h \in Handle /\ k.handles[h].type # "FREE"
  THEN [k EXCEPT !.handles[h].refcount = @ + 1]
  ELSE k

\* pipe_close_impl: the struct is freed when both counts are zero.
PipeClose(k, q, is_writer) ==
  IF is_writer THEN [k EXCEPT !.pipes[q].writers = @ - 1]
               ELSE [k EXCEPT !.pipes[q].readers = @ - 1]

\* vfs_close; its own refcount is always 1, vfs_dup has no caller.
VfsClose(k, f) ==
  LET file == k.files[f]
      k1 == [k EXCEPT !.files[f] = NoFile]
  IN  CASE file = NoFile -> [k EXCEPT !.twice = TRUE]
        [] file.kind = "file" -> k1
        [] OTHER -> PipeClose(k1, file.pipe, file.kind = "writer")

\* Mutant: the file of a handle is not closed.
ReleaseKeepsFile(k, h) ==
  CASE h \notin Handle \/ k.handles[h].type = "FREE" -> k
    [] k.handles[h].refcount - 1 > 0 -> [k EXCEPT !.handles[h].refcount = @ - 1]
    [] OTHER -> [k EXCEPT !.handles[h] = FreeHandle, !.lost = @ \/ h \in Std]

\* Mutant: the handle goes with its first reference.
ReleaseAtOnce(k, h) ==
  LET d == k.handles[h]
      c == IF d.type = "VFS" THEN VfsClose(k, d.file) ELSE k
  IN  IF h \notin Handle \/ d.type = "FREE" THEN k
      ELSE [c EXCEPT !.handles[h] = FreeHandle, !.lost = @ \/ h \in Std]

\* syscall_release_handle.
Release(k, h) ==
  LET d == k.handles[h]
      c == IF d.type = "VFS" THEN VfsClose(k, d.file) ELSE k
  IN  CASE h \notin Handle \/ d.type = "FREE" -> k
        [] d.refcount - 1 > 0 -> [k EXCEPT !.handles[h].refcount = @ - 1]
        [] OTHER -> [c EXCEPT !.handles[h] = FreeHandle,
                              !.leaked[h] = 0,
                              !.lost = @ \/ h \in Std]

\* handle_alloc: the first free handle, or None.
FirstFree(k) ==
  LET F == {h \in Handle : k.handles[h].type = "FREE"}
  IN  IF F = {} THEN None ELSE CHOOSE h \in F : \A g \in F : h <= g

Install(k, h, type, f) ==
  [k EXCEPT !.handles[h] = [type |-> type, file |-> f, refcount |-> 1]]

\* sched_allocate_fd: the first unused descriptor in t, or None.
FirstFd(t) ==
  LET F == {d \in Fd : t[d] = None}
  IN  IF F = {} THEN None ELSE CHOOSE d \in F : \A e \in F : d <= e

\* handles_init, by the first system call of all: the TTY handles start with
\* a refcount of 0, whoever already names them.
AfterInit ==
  IF ready THEN Tables
  ELSE [Tables EXCEPT !.handles = [h \in Handle |->
          IF h \in Std THEN [FreeHandle EXCEPT !.type = "TTY"] ELSE FreeHandle]]

\* What every system call of p begins with.
Enter(p) == proc[p] = "user" /\ ~closedTwice /\ ready' = TRUE

-----------------------------------------------------------------------------
(* The system calls. *)

\* SYSCALL_OPEN of /dev/tty or /dev/console.
OpenTty(p) ==
  /\ Enter(p)
  /\ LET h == FirstFree(AfterInit)
         k == Install(AfterInit, h, "TTY", None)
         d == FirstFd(fds[p])
     IN  IF h = None THEN SetTables(AfterInit) /\ UNCHANGED fds
         ELSE IF d = None THEN SetTables(Release(k, h)) /\ UNCHANGED fds
         ELSE SetTables(k) /\ fds' = [fds EXCEPT ![p][d] = h]
  /\ UNCHANGED <<proc, launch, inFile>>

\* SYSCALL_OPEN of a path vfs_open accepts.  Without a descriptor left the
\* handle is released, which closes the file, and the file closed again.
OpenFile(p) ==
  /\ Enter(p)
  /\ \E f \in File :
       /\ files[f] = NoFile
       /\ \A g \in File : g < f => files[g] # NoFile
       /\ LET o == [AfterInit EXCEPT !.files[f].kind = "file"]
              h == FirstFree(o)
              k == Install(o, h, "VFS", f)
              d == FirstFd(fds[p])
          IN  IF h = None THEN SetTables(VfsClose(o, f)) /\ UNCHANGED fds
              ELSE IF d = None
              THEN SetTables(VfsClose(Release(k, h), f)) /\ UNCHANGED fds
              ELSE SetTables(k) /\ fds' = [fds EXCEPT ![p][d] = h]
  /\ UNCHANGED <<proc, launch, inFile>>

\* SYSCALL_CLOSE.
Close(p, d) ==
  /\ Enter(p)
  /\ fds[p][d] # None
  /\ SetTables(Release(AfterInit, fds[p][d]))
  /\ fds' = [fds EXCEPT ![p][d] = None]
  /\ UNCHANGED <<proc, launch, inFile>>

\* Mutant: the copied handle is not acquired.
Dup2NoAcquire(p, old, new) ==
  /\ Enter(p)
  /\ fds[p][old] # None /\ old # new
  /\ SetTables(IF fds[p][new] = None THEN AfterInit
               ELSE Release(AfterInit, fds[p][new]))
  /\ fds' = [fds EXCEPT ![p][new] = fds[p][old]]
  /\ UNCHANGED <<proc, launch, inFile>>

\* SYSCALL_DUP2: what new named is released before old is acquired.
Dup2(p, old, new) ==
  /\ Enter(p)
  /\ fds[p][old] # None /\ old # new
  /\ LET k == IF fds[p][new] = None THEN AfterInit
              ELSE Release(AfterInit, fds[p][new])
     IN  SetTables(Acquire(k, fds[p][old]))
  /\ fds' = [fds EXCEPT ![p][new] = fds[p][old]]
  /\ UNCHANGED <<proc, launch, inFile>>

\* pipe_create: file r reads from and file w writes to the new pipe q.
PipeCreate(k, q, r, w) ==
  [k EXCEPT !.files[r] = [kind |-> "reader", pipe |-> q],
            !.files[w] = [kind |-> "writer", pipe |-> q],
            !.pipes[q] = [readers |-> 1, writers |-> 1]]

\* SYSCALL_PIPE, with its ways of undoing what is done when it runs out of
\* handles or descriptors.
Pipe(p) ==
  /\ Enter(p)
  /\ \E q, r, w \in File :
       /\ pipes[q] = NoPipe /\ \A g \in File : g < q => pipes[g] # NoPipe
       /\ r < w /\ files[r] = NoFile /\ files[w] = NoFile
       /\ \A g \in File \ {r} : g < w => files[g] # NoFile
       /\ LET k0 == PipeCreate(AfterInit, q, r, w)
              h1 == FirstFree(k0)
              k1 == Install(k0, h1, "VFS", r)
              h2 == FirstFree(k1)
              k2 == Install(k1, h2, "VFS", w)
              d1 == FirstFd(fds[p])
              t1 == IF d1 = None THEN fds[p] ELSE [fds[p] EXCEPT ![d1] = h1]
              d2 == FirstFd(t1)
          IN  \/ /\ h1 = None
                 /\ SetTables(VfsClose(VfsClose(k0, r), w)) /\ UNCHANGED fds
              \/ /\ h1 # None /\ h2 = None
                 /\ SetTables(VfsClose(Release(k1, h1), w)) /\ UNCHANGED fds
              \/ /\ h1 # None /\ h2 # None /\ (d1 = None \/ d2 = None)
                 /\ SetTables(Release(Release(k2, h1), h2)) /\ UNCHANGED fds
              \/ /\ h1 # None /\ h2 # None /\ d1 # None /\ d2 # None
                 /\ SetTables(k2)
                 /\ fds' = [fds EXCEPT ![p] = [t1 EXCEPT ![d2] = h2]]
  /\ UNCHANGED <<proc, launch, inFile>>

\* The override_fds SYSCALL_SPAWN computes from fd_map m.
Overrides(p, m) ==
  [s \in Std |-> IF m[s] = None THEN None ELSE fds[p][m[s]]]

\* The references taken for the overrides: user_launch_thread neither applies
\* nor drops them.
AcquireOverrides(k, o) ==
  LET taken(h) == Cardinality({s \in Std : o[s] = h /\ k.handles[h].type # "FREE"})
  IN  [k EXCEPT !.handles = [h \in Handle |->
                   [k.handles[h] EXCEPT !.refcount = @ + taken(h)]],
                !.leaked = [h \in Handle |-> @[h] + taken(h)]]

\* sched_create_user: the child gets the descriptors of its parent.
Inherit(k, t) ==
  LET taken(h) == Cardinality({d \in Fd : t[d] = h /\ k.handles[h].type # "FREE"})
  IN  [k EXCEPT !.handles = [h \in Handle |->
                   [k.handles[h] EXCEPT !.refcount = @ + taken(h)]]]

\* SYSCALL_SPAWN.  Its error paths behind the overrides cannot be taken:
\* kalloc panics rather than fail.
Spawn(p, m) ==
  /\ Enter(p)
  /\ LET o == Overrides(p, m)
     IN  /\ SetTables(Inherit(AcquireOverrides(AfterInit, o), fds[p]))
         /\ \E c \in Proc :
              /\ proc[c] = "none"
              /\ \A q \in Proc : q < c => proc[q] # "none"
              /\ proc' = [proc EXCEPT ![c] = "created"]
              /\ fds' = [fds EXCEPT ![c] = fds[p]]
              /\ launch' = [launch EXCEPT ![c] = o]
  /\ UNCHANGED inFile

\* user_launch_thread: the image is ready, the launch record is freed and the
\* program entered.
Launch(c) ==
  /\ proc[c] = "created" /\ ~closedTwice
  /\ proc' = [proc EXCEPT ![c] = "user"]
  /\ launch' = [launch EXCEPT ![c] = NoMap]
  /\ UNCHANGED <<table, fds, inFile>>

\* Mutant: the loop stops before the last descriptor.
ReleaseAllButLast(k, t) ==
  LET R[d \in 0..FdMax - 1] ==
        IF d = 0 THEN k
        ELSE IF t[d - 1] = None THEN R[d - 1] ELSE Release(R[d - 1], t[d - 1])
  IN  R[FdMax - 1]

\* sched_exit releases the descriptors in order.
ReleaseAll(k, t) ==
  LET R[d \in 0..FdMax] ==
        IF d = 0 THEN k
        ELSE IF t[d - 1] = None THEN R[d - 1] ELSE Release(R[d - 1], t[d - 1])
  IN  R[FdMax]

Die(p, k) ==
  /\ SetTables(ReleaseAll(k, fds[p]))
  /\ fds' = [fds EXCEPT ![p] = [d \in Fd |-> None]]
  /\ proc' = [proc EXCEPT ![p] = "dead"]
  /\ launch' = [launch EXCEPT ![p] = NoMap]
  /\ UNCHANGED inFile

\* SYSCALL_EXIT.
Exit(p) == Enter(p) /\ Die(p, AfterInit)

\* user_launch_thread could not load the image: the thread ends.
LaunchFails(c) ==
  /\ proc[c] = "created" /\ ~closedTwice
  /\ Die(c, Tables)
  /\ UNCHANGED ready

\* SYSCALL_READ or SYSCALL_WRITE on a pipe end: pipe_read_impl does not ask
\* which end it is given.  The call yields while the pipe is empty or full.
EnterPipe(p, d) ==
  /\ Enter(p)
  /\ fds[p][d] # None
  /\ LET h == AfterInit.handles[fds[p][d]]
     IN  /\ h.type = "VFS" /\ files[h.file].kind # "file"
         /\ inFile' = [inFile EXCEPT ![p] = h.file]
  /\ proc' = [proc EXCEPT ![p] = "inpipe"]
  /\ SetTables(AfterInit)
  /\ UNCHANGED <<fds, launch>>

LeavePipe(p) ==
  /\ proc[p] = "inpipe" /\ ~closedTwice
  /\ proc' = [proc EXCEPT ![p] = "user"]
  /\ inFile' = [inFile EXCEPT ![p] = None]
  /\ UNCHANGED <<table, fds, launch>>

\* Any other system call that happens to be the first one.
FirstCall(p) ==
  /\ Enter(p) /\ ~ready
  /\ SetTables(AfterInit)
  /\ UNCHANGED <<proc, fds, launch, inFile>>

\* kernel_main has created the thread of init; its acquires of the TTY
\* handles did nothing because handles_init has not run.
Init ==
  /\ ready = FALSE
  /\ handles = [h \in Handle |-> FreeHandle]
  /\ files = [f \in File |-> NoFile]
  /\ pipes = [f \in File |-> NoPipe]
  /\ proc = [p \in Proc |-> IF p = 1 THEN "user" ELSE "none"]
  /\ fds = [p \in Proc |-> [d \in Fd |-> IF p = 1 /\ d \in Std THEN d ELSE None]]
  /\ launch = [p \in Proc |-> NoMap]
  /\ inFile = [p \in Proc |-> None]
  /\ leaked = [h \in Handle |-> 0]
  /\ lost = FALSE
  /\ closedTwice = FALSE

Next ==
  \E p \in Proc :
    \/ OpenTty(p) \/ OpenFile(p) \/ Pipe(p) \/ FirstCall(p)
    \/ \E d \in Fd : Close(p, d) \/ EnterPipe(p, d)
    \/ \E x \in DupPairs : Dup2(p, x[1], x[2])
    \/ \E m \in FdMaps : Spawn(p, m)
    \/ Launch(p) \/ LaunchFails(p) \/ LeavePipe(p) \/ Exit(p)

Spec == Init /\ [][Next]_vars

-----------------------------------------------------------------------------
(* Properties. *)

\* Every table holds values of its C type; counts may be negative in C.
TypeOK ==
  /\ ready \in BOOLEAN /\ lost \in BOOLEAN /\ closedTwice \in BOOLEAN
  /\ handles \in [Handle -> [type : {"FREE", "TTY", "VFS"},
                             file : File \cup {None}, refcount : Int]]
  /\ files \in [File -> [kind : {"none", "file", "reader", "writer"},
                         pipe : File \cup {None}]]
  /\ pipes \in [File -> [readers : Int, writers : Int]]
  /\ proc \in [Proc -> {"none", "created", "user", "inpipe", "dead"}]
  /\ fds \in [Proc -> [Fd -> Handle \cup {None}]]
  /\ launch \in [Proc -> [Std -> Handle \cup {None}]]
  /\ inFile \in [Proc -> File \cup {None}]
  /\ leaked \in [Handle -> Nat]

\* The descriptors that name handle h.
NamedBy(h) == {x \in Proc \X Fd : fds[x[1]][x[2]] = h}

\* While none of the console handles has been freed, a reference count
\* is the number of descriptors naming the handle and of references leaked by
\* SYSCALL_SPAWN; the console handles count one less, the reference init took
\* before handles_init.  In particular a free handle is named by nobody.
RefcountExact ==
  ready /\ ~lost =>
    \A h \in Handle :
      handles[h].refcount = Cardinality(NamedBy(h)) + leaked[h]
                              - (IF h \in Std THEN 1 ELSE 0)

\* An open file belongs to exactly one handle, and a handle's file is open:
\* every error path of open and pipe gives back what it took, and closes it
\* once (unless open closes it twice, which ends the run).
OneHandlePerFile ==
  /\ \A f \in File : files[f] # NoFile =>
       \E h \in Handle : /\ handles[h].type = "VFS" /\ handles[h].file = f
                          /\ \A g \in Handle : handles[g].file = f => g = h
  /\ \A h \in Handle : handles[h].type = "VFS" => files[handles[h].file] # NoFile

\* A thread that yields inside pipe_read_impl or pipe_write_impl finds the
\* file and the pipe it holds pointers to still there, whatever the others
\* closed meanwhile (while the console handles are intact).
PipeOutlivesUse ==
  ~lost => \A p \in Proc : proc[p] = "inpipe" =>
    /\ files[inFile[p]].kind \in {"reader", "writer"}
    /\ pipes[files[inFile[p]].pipe] # NoPipe

\* The counts of a pipe say which of its ends are open, and once no
\* descriptor names an end (and SYSCALL_SPAWN leaked no reference to it) its
\* count is zero: a reader gets its end of file, a writer its error.
PipeEndsExact ==
  LET Open(q, kind) == {f \in File : files[f] = [kind |-> kind, pipe |-> q]}
      Held(f) == \E h \in Handle :
        handles[h].file = f /\ (NamedBy(h) # {} \/ leaked[h] > 0)
  IN  \A q \in File :
        /\ pipes[q].readers = Cardinality(Open(q, "reader"))
        /\ pipes[q].writers = Cardinality(Open(q, "writer"))
        /\ ~lost => \A f \in Open(q, "reader") \cup Open(q, "writer") : Held(f)

\* syscall_cleanup_handles_for_pid says that handles persist while other
\* processes hold them: no descriptor of a live thread names a free handle.
HandlesPersist ==
  ready => \A p \in Proc, d \in Fd : fds[p][d] # None =>
    handles[fds[p][d]].type # "FREE"

\* SYSCALL_OPEN's comment on its error path: releasing the handle closes the
\* file, so nobody closes it again.
ClosedOnce == ~closedTwice

\* The shell spawns its two commands with "stdout -> pipe write" and "stdin ->
\* pipe read": a program starts with the overrides of its launch record.
OverridesApplied ==
  [][\A c \in Proc : proc[c] = "created" /\ proc'[c] = "user" =>
       \A s \in Std : launch[c][s] # None => fds'[c][s] = launch[c][s]]_vars
=============================================================================
