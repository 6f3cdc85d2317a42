-------------------------------- MODULE Vfs --------------------------------
(***************************************************************************)
(* Names and files: path resolution against the working directory          *)
(* (kernel/syscall.c), the dispatch of a name to a backend (kernel/vfs.c), *)
(* the read-only program files (kernel/fs.c), the files held in memory     *)
(* (kernel/ramfs.c), and the system calls the user programs make on them.  *)
(*                                                                         *)
(* A name is the sequence of its segments split at the slashes: "/a/b" is  *)
(* <<"", "a", "b">>, "a/" is <<"a", "">> and "/" is <<"", "">>.  A system  *)
(* call runs with interrupts off, so each is an operator from the state k  *)
(* to the state it leaves and what it returns:                             *)
(*   k.ram     ramfs_files, in the order they were created                 *)
(*   k.handle  the handle table; Free when the entry is free               *)
(*   k.fds     thread->fds of every process, None where it is -1           *)
(*   k.cwd     thread->cwd                                                 *)
(* Handles 0 to 2 are the console's; nothing but their counts keeps them.  *)
(* The disk is not mounted (fat_init is not called).                       *)
(***************************************************************************)
EXTENDS Integers, FiniteSets, SequencesExt

CONSTANTS
  SegLen,       \* the characters of every segment a name may have
  BinLike,      \* the segments that begin with the letters "bin"
  LsLike,       \* and those that begin with "ls"
  Mem,          \* memfs_files: a sequence of [path, data]
  Procs,        \* the processes
  UserPathMax,  \* USER_PATH_MAX
  TempMax,      \* sizeof(temp) in resolve_path
  VfsPathMax,   \* VFS_PATH_MAX
  ListPathMax,  \* VFS_LIST_PATH_MAX
  RamPathMax,   \* RAMFS_PATH_MAX
  MaxFiles,     \* RAMFS_MAX_FILES
  GrowStep,     \* RAMFS_GROW_STEP
  HandleMax,    \* HANDLE_MAX
  FdMax         \* descriptors of a thread

Std == 0..2         \* stdin, stdout and stderr, as descriptors and as handles
Handle == 0..HandleMax - 1
Fd == 0..FdMax - 1
None == -1
Root == <<"", "">>
Bad == <<>>
Free == [kind |-> "free", at |-> <<>>, off |-> 0, ref |-> 0]
Fails(k, why) == [k |-> k, err |-> why, fd |-> None, data |-> <<>>]
Returns(k) == Fails(k, "OK")

ASSUME VfsAssumption ==
  /\ {UserPathMax, TempMax, VfsPathMax, ListPathMax, RamPathMax, GrowStep}
       \subseteq Nat \ {0}
  /\ MaxFiles \in Nat /\ Std \subseteq Handle /\ Std \subseteq Fd
  /\ {"bin"} \subseteq BinLike /\ {"ls"} \subseteq LsLike
  /\ \A i \in DOMAIN Mem : Mem[i].path[1] = ""

-----------------------------------------------------------------------------
(* Names. *)

Chars(w) == FoldLeft(LAMBDA n, s : n + SegLen[s], Len(w) - 1, w)

IsAbsolute(w) == Len(w) > 1 /\ w[1] = ""

\* A directory name without its final slash, ready to be continued.
Stem(w) == IF Last(w) = "" THEN Front(w) ELSE w

\* One segment of normalize_path.  The buffer of n characters holds the
\* segments o.segs, with a slash at the end when a ".." was just undone.
Segment(n, o, s) ==
  LET pos == IF o.segs = <<>> THEN 1
             ELSE Chars(<<"">> \o o.segs) + IF o.slash THEN 1 ELSE 0
      sep == IF pos > 1 /\ ~o.slash THEN 1 ELSE 0
  IN  CASE ~o.ok \/ s \in {"", "."} -> o
        [] o.ok /\ s = ".." ->
             IF o.segs = <<>> THEN o
             ELSE [o EXCEPT !.segs = Front(@), !.slash = Len(o.segs) > 1]
        [] OTHER ->
             [segs |-> Append(o.segs, s), slash |-> FALSE,
              ok |-> /\ sep = 1 => pos + 1 < n
                     /\ pos + sep + SegLen[s] < n]

\* What is in the buffer in the end.
Spelled(o) ==
  IF ~o.ok THEN Bad
  ELSE <<"">> \o o.segs \o IF o.slash \/ o.segs = <<>> THEN <<"">> ELSE <<>>

Normal(w, n) ==
  Spelled(FoldLeft(LAMBDA r, s : Segment(n, r, s),
                   [segs |-> <<>>, slash |-> FALSE, ok |-> TRUE], w))

normalize_path(w) == Normal(w, UserPathMax)

resolve_path(cwd, w) ==
  IF \/ Chars(w) + 1 >= TempMax
     \/ ~IsAbsolute(w) /\ Chars(cwd) + 1 + Chars(w) >= TempMax
  THEN Bad
  ELSE normalize_path(IF IsAbsolute(w) THEN w ELSE Stem(cwd) \o w)

\* normalize_path of vfs.c, which also notes a slash at the end.
vfs_normalize_path(w, n) ==
  [path |-> Normal(w, n), want_dir |-> w # Root /\ Last(w) = ""]

-----------------------------------------------------------------------------
(* The backends. *)

memfs_lookup(w) == {i \in DOMAIN Mem : Mem[i].path = w}

\* The bytes from off on, at most len of them: the clamping that memfs_read,
\* ramfs_read and the listing branch of vfs_read share.
Slice(bytes, off, len) ==
  SubSeq(bytes, off + 1, IF off + len < Len(bytes) THEN off + len ELSE Len(bytes))

memfs_read(i, off, len) == Slice(Mem[i].data, off, len)

memfs_list == [i \in DOMAIN Mem |-> Mem[i].path]

\* A file grows to the next multiple of GrowStep: zeroes, then its old bytes.
ramfs_expand(f, need) ==
  IF need <= Len(f.data) THEN f
  ELSE LET cap == GrowStep * ((need + GrowStep - 1) \div GrowStep)
       IN  [f EXCEPT !.data = [i \in 1..cap |-> IF i <= f.size THEN @[i] ELSE 0]]

\* mutant: the table is searched for room before it is searched for the name.
OpenCreatesFirst(ram, w) ==
  IF Len(ram) = MaxFiles THEN [ram |-> ram, i |-> 0]
  ELSE LET hits == {i \in DOMAIN ram : ram[i].path = w}
       IN  IF hits # {} THEN [ram |-> ram, i |-> CHOOSE i \in hits : TRUE]
           ELSE [ram |-> Append(ram, [path |-> w, data |-> <<>>, size |-> 0]),
                 i |-> Len(ram) + 1]

\* The table and the index of the file, 0 when there is none.
ramfs_open(ram, w) ==
  LET hits == {i \in DOMAIN ram : ram[i].path = w}
  IN  CASE Chars(w) < RamPathMax /\ hits # {} ->
             [ram |-> ram, i |-> CHOOSE i \in hits : TRUE]
        [] Chars(w) < RamPathMax /\ hits = {} /\ Len(ram) < MaxFiles ->
             [ram |-> Append(ram, [path |-> w, data |-> <<>>, size |-> 0]),
              i |-> Len(ram) + 1]
        [] OTHER -> [ram |-> ram, i |-> 0]

\* mutant: a read also returns the unused end of the buffer.
ReadsCapacity(f, off, len) == Slice(f.data, off, len)

ramfs_read(f, off, len) == Slice(SubSeq(f.data, 1, f.size), off, len)

ramfs_write(f, off, bytes) ==
  LET end == off + Len(bytes)
      g == ramfs_expand(f, end)
  IN  [g EXCEPT !.data = [i \in DOMAIN @ |-> IF i > off /\ i <= end
                                             THEN bytes[i - off] ELSE @[i]],
                !.size = IF end > @ THEN end ELSE @]

-----------------------------------------------------------------------------
(* vfs.c: an open file is a record [kind, at, off, ref] of the handle table. *)

File(kind, at) == [kind |-> kind, at |-> at, off |-> 0, ref |-> 1]

Opens(k, f) == [k |-> k, file |-> f, err |-> "OK"]
Refuses(k, why) == [k |-> k, file |-> Free, err |-> why]

OpenListing(k, path) ==
  IF path = Bad THEN Refuses(k, "EINVAL") ELSE Opens(k, File("list", path))

OpenRam(k, r) ==
  IF r.i = 0 THEN Refuses(k, "ENOMEM")
  ELSE Opens([k EXCEPT !.ram = r.ram], File("ram", <<r.i>>))

\* The backend of a normalised name.  "/bin" is compared as text: it refuses
\* every name that begins with these letters.
OpenBackend(k, path) ==
  LET mem == memfs_lookup(path)
  IN  CASE path = Bad -> Refuses(k, "EINVAL")
        [] path # Bad /\ mem # {} -> Opens(k, File("mem", <<CHOOSE i \in mem : TRUE>>))
        [] /\ path # Bad /\ mem = {}
           /\ path[2] \in BinLike \/ (path[2] = "disk" /\ Len(path) > 2) ->
             Refuses(k, "ENOENT")
        [] OTHER -> OpenRam(k, ramfs_open(k.ram, path))

\* A name that begins with the letters of "/dev/ls".
OpenList(k, w) ==
  CASE w[3] # "ls" -> Refuses(k, "EINVAL")
    [] w[3] = "ls" /\ (Len(w) = 3 \/ (Len(w) = 4 /\ w[4] = "")) -> Opens(k, File("list", Root))
    [] OTHER -> OpenListing(k, vfs_normalize_path(<<"">> \o SubSeq(w, 4, Len(w)),
                                                  ListPathMax).path)

\* What vfs_open makes of an absolute name: the state, and a file or an error.
vfs_open(k, w) ==
  IF Len(w) >= 3 /\ w[2] = "dev" /\ w[3] \in LsLike THEN OpenList(k, w)
  ELSE OpenBackend(k, vfs_normalize_path(w, VfsPathMax).path)

\* The bytes a read returns and the offset it leaves.
vfs_read(k, f, len) ==
  CASE f.kind = "mem" -> memfs_read(f.at[1], f.off, len)
    [] f.kind = "ram" -> ramfs_read(k.ram[f.at[1]], f.off, len)
    [] f.kind = "list" -> IF f.at[2] = "disk" THEN <<>>
                          ELSE Slice(memfs_list, f.off, len)

-----------------------------------------------------------------------------
(* The system calls of a process p. *)

\* handles_init: the console's handles are open, and nobody is counted.
handles_init == [h \in Handle |-> IF h \in Std THEN [File("tty", <<>>) EXCEPT !.ref = 0] ELSE Free]

\* Neither does anything to a free handle.
syscall_acquire_handle(k, h) ==
  IF k.handle[h] = Free THEN k ELSE [k EXCEPT !.handle[h].ref = @ + 1]

syscall_release_handle(k, h) ==
  IF k.handle[h].ref <= 1 THEN [k EXCEPT !.handle[h] = Free]
  ELSE [k EXCEPT !.handle[h].ref = @ - 1]

FreeHandles(k) == {h \in Handle : k.handle[h] = Free}
FreeFds(k, p) == {d \in Fd : k.fds[p][d] = None}
Least(S) == CHOOSE x \in S : \A y \in S : x <= y

\* handle_alloc and sched_allocate_fd for the file f.
Install(k, p, f) ==
  LET h == Least(FreeHandles(k))
      d == Least(FreeFds(k, p))
  IN  IF FreeHandles(k) = {} \/ FreeFds(k, p) = {} THEN Fails(k, "ENOMEM")
      ELSE [k |-> [k EXCEPT !.handle[h] = f, !.fds[p][d] = h],
            err |-> "OK", fd |-> d, data |-> <<>>]

InstallOpened(k, p, o) ==
  IF o.err # "OK" THEN Fails(k, o.err) ELSE Install(o.k, p, o.file)

OpenResolved(k, p, r) ==
  CASE r = Bad -> Fails(k, "EINVAL")
    [] r \in {<<"", "dev", "tty">>, <<"", "dev", "console">>} ->
         Install(k, p, File("tty", <<>>))
    [] OTHER -> InstallOpened(k, p, vfs_open(k, r))

sys_open(k, p, w) == OpenResolved(k, p, resolve_path(k.cwd[p], w))

sys_close(k, p, d) ==
  syscall_release_handle([k EXCEPT !.fds[p][d] = None], k.fds[p][d])

Advance(k, h, data) ==
  [Returns([k EXCEPT !.handle[h].off = @ + Len(data)]) EXCEPT !.data = data]

sys_read(k, p, d, len) ==
  Advance(k, k.fds[p][d], vfs_read(k, k.handle[k.fds[p][d]], len))

sys_write(k, p, d, bytes) ==
  LET h == k.fds[p][d]
      f == k.handle[h]
  IN  CASE f.kind = "mem" -> Fails(k, "EIO")
        [] f.kind = "list" -> Fails(k, "EBADF")
        [] f.kind = "tty" -> Returns(k)
        [] f.kind = "ram" ->
             Returns([k EXCEPT !.ram[f.at[1]] = ramfs_write(@, f.off, bytes),
                               !.handle[h].off = @ + Len(bytes)])

ChdirOpened(p, r, o) ==
  IF o.err # "OK" THEN Fails(o.k, o.err) ELSE Returns([o.k EXCEPT !.cwd[p] = r])

ChdirResolved(k, p, r) ==
  IF r = Bad THEN Fails(k, "EINVAL") ELSE ChdirOpened(p, r, vfs_open(k, r))

sys_chdir(k, p, w) == ChdirResolved(k, p, resolve_path(k.cwd[p], w))

\* The name SYSCALL_GETCWD copies out, Bad when it does not fit.
sys_getcwd(k, p, size) == IF Chars(k.cwd[p]) >= size THEN Bad ELSE k.cwd[p]

\* The two ends of a pipe that nobody reads or writes here.
SecondEnd(p, r, w) ==
  IF w.err # "OK" THEN Fails(sys_close(r.k, p, r.fd), "ENOMEM")
  ELSE [w EXCEPT !.data = <<r.fd, w.fd>>]

FirstEnd(p, r) ==
  IF r.err # "OK" THEN r ELSE SecondEnd(p, r, Install(r.k, p, File("pipe", <<>>)))

sys_pipe(k, p) == FirstEnd(p, Install(k, p, File("pipe", <<>>)))
=============================================================================
