------------------------------- MODULE Shell -------------------------------
(***************************************************************************)
(* A user session: init keeps a shell running (user/init.c), the shell     *)
(* carries out the lines that are typed (user/shell.c), and the programs   *)
(* it starts do their work (user/cat.c, user/ls.c), all on the system      *)
(* calls of Vfs.                                                           *)
(*                                                                         *)
(* User threads are not preempted and none of these calls blocks, except   *)
(* the read of a line and sys_wait; so a command up to its sys_wait is one *)
(* step, and so is a whole program.  k of Vfs has one field more: k.kid,    *)
(* the programs that were started, "orphan" when their shell is gone.      *)
(* tty_read never returns 0, so a command that reads the console to its    *)
(* end has none.  Programs that do, and shells or init started from the    *)
(* shell, are left out: no line asks for them.                             *)
(***************************************************************************)
EXTENDS Vfs, TLC

CONSTANTS
  Lines,      \* the lines typed, as sequences of words
  Text,       \* the bytes of the words that are used as text
  Stray,      \* what may lie behind args in memory: NoWord, Wild or a word
  Chunk,      \* READ_CHUNK
  StrMax,     \* USER_STR_MAX
  PromptMax,  \* sizeof(cwd) in _start
  MaxLen      \* bound: bytes in a file

Kids == 1..3        \* bound: one orphan beside the children of a pipeline
MaxTokens == 4
Newline == <<10>>
NoWord == <<>>      \* a null pointer
Wild == <<"?">>     \* a pointer to nothing
NoKid == [st |-> "none", path |-> <<>>, argv |-> <<>>]
Nothing == [what |-> "nothing", name |-> <<>>, text |-> <<>>]

ASSUME ShellAssumption ==
  /\ Procs = Kids \cup {0}
  /\ Chunk \in Nat \ {0} /\ StrMax \in Nat /\ PromptMax \in Nat
  /\ MaxLen \in Nat
  /\ \A l \in Lines : l # <<>> /\ Len(l) <= MaxTokens

VARIABLES
  k,       \* the kernel's state, see Vfs
  pc,      \* the shell: prompt, wait1, wait2 (calls of sys_wait to come),
           \* console (in a command that reads the console for ever), dead
  first,   \* history: it is the first shell
  line,    \* the line typed last
  failed,  \* a command or program reported a failure since then
  out      \* what the last program or command that lists bytes has shown

vars == <<k, pc, first, line, failed, out>>
sh == 0

-----------------------------------------------------------------------------
(* Processes. *)

Inherited(k1, p) == {d \in Fd : k1.fds[p][d] # None}

\* A reference more for the handle of each descriptor of the shell in ds.
AcquireAll(k1, ds) ==
  FoldSet(LAMBDA d, x : syscall_acquire_handle(x, k1.fds[sh][d]), k1, ds)

\* sched_create_user: the child has the shell's descriptors and directory.
Create(k1, r, argv) ==
  LET c == Least({i \in Kids : k1.kid[i] = NoKid})
  IN  Returns([AcquireAll(k1, Inherited(k1, sh)) EXCEPT
         !.kid[c] = [st |-> "ready", path |-> r, argv |-> argv],
         !.cwd[c] = k1.cwd[sh], !.fds[c] = k1.fds[sh]])

\* SYSCALL_SPAWN with the descriptors in map as overrides: a reference is
\* taken for each and recorded where nobody looks.
SpawnResolved(k1, r, argv, map) ==
  IF \/ r = Bad
     \/ \E i \in DOMAIN argv : argv[i] = Wild \/ Chars(argv[i]) + 1 >= StrMax
  THEN Fails(k1, "EINVAL")
  ELSE Create(AcquireAll(k1, map), r, argv)

sys_spawn(k1, path, argv, map) ==
  SpawnResolved(k1, resolve_path(k1.cwd[sh], path), argv, map)

\* sched_exit of a process: its descriptors are released.
ReleaseFds(k1, p) ==
  FoldSet(LAMBDA d, x : sys_close(x, p, d), k1, Inherited(k1, p))

\* The bytes from a descriptor up to the end, Chunk at a time.
RECURSIVE ReadOn(_, _, _, _)
ReadOn(p, d, r, sofar) ==
  IF r.data = <<>> THEN [r EXCEPT !.data = sofar]
  ELSE ReadOn(p, d, sys_read(r.k, p, d, Chunk), sofar \o r.data)

ReadAll(k1, p, d) == ReadOn(p, d, sys_read(k1, p, d, Chunk), <<>>)

-----------------------------------------------------------------------------
(* The builtin commands: the state they leave, whether they report a       *)
(* failure, and what they show.                                            *)

Outcome(k1, fail, shown) == [k |-> k1, failed |-> fail, out |-> shown]

\* cmd_cat, and start_main of /bin/cat for the process p.
CatShown(p, d, name, r) ==
  Outcome(sys_close(r.k, p, d), FALSE, [what |-> "bytes", name |-> name, text |-> r.data])

CatOpened(p, name, o) ==
  IF o.err # "OK" THEN Outcome(o.k, TRUE, Nothing)
  ELSE CatShown(p, o.fd, name, ReadAll(o.k, p, o.fd))

cmd_cat(k1, p, w) == CatOpened(p, <<k1.cwd[p], w>>, sys_open(k1, p, w))

\* The text, a newline, and the file is closed; errors are not looked at.
WriteText(k1, d, text) ==
  sys_close(sys_write(sys_write(k1, sh, d, text).k, sh, d, Newline).k, sh, d)

\* mutant: the text lands at the start of the file.
WriteNeverDrains(o, text, append) ==
  IF o.err # "OK" THEN Outcome(o.k, TRUE, Nothing)
  ELSE Outcome(WriteText(o.k, o.fd, text), FALSE, Nothing)

WriteOpened(o, text, append) ==
  IF o.err # "OK" THEN Outcome(o.k, TRUE, Nothing)
  ELSE Outcome(WriteText(IF append THEN ReadAll(o.k, sh, o.fd).k ELSE o.k, o.fd, text),
               FALSE, Nothing)

cmd_write(k1, w, text, append) == WriteOpened(sys_open(k1, sh, w), text, append)

\* Opening a directory is all that creates it; the descriptor is closed.  A
\* name out of a line fits the buffer for the name with a slash.
OpenAndClose(o) ==
  IF o.err # "OK" THEN Outcome(o.k, TRUE, Nothing)
  ELSE Outcome(sys_close(o.k, sh, o.fd), FALSE, Nothing)

cmd_mkdir(k1, w) ==
  IF IsAbsolute(w) THEN OpenAndClose(sys_open(k1, sh, Append(Stem(w), "")))
  ELSE Outcome(k1, TRUE, Nothing)

Quietly(c) == Outcome(c.k, c.err # "OK", Nothing)

cmd_cd(k1, w) == Quietly(sys_chdir(k1, sh, w))

cmd_pwd(k1) == Outcome(k1, sys_getcwd(k1, sh, 2 * PromptMax) = Bad, Nothing)

resolve_cmd(w) == IF IsAbsolute(w) THEN w ELSE <<"", "bin">> \o w

-----------------------------------------------------------------------------
(* The programs. *)

\* list_directory of ls: the names it prints, and the name it asks for.
AbsPath(cwd, w) ==
  LET a == IF IsAbsolute(w) THEN w ELSE Stem(cwd) \o w
      b == IF Last(a) = "." THEN Append(Front(a), "") ELSE a
  IN  IF b # Root /\ Last(b) = "" THEN Front(b) ELSE b

Entries(listing, dir) ==
  LET under == {i \in DOMAIN listing : IF dir = Root THEN TRUE
                                       ELSE IsStrictPrefix(dir, listing[i])}
      n == IF dir = Root THEN 1 ELSE Len(dir)
  IN  {listing[i][n + 1] : i \in under}

NamesShown(p, d, name, dir, r) ==
  Outcome(sys_close(r.k, p, d), FALSE,
          [what |-> "names", name |-> name,
           text |-> IF r.k.handle[r.k.fds[p][d]].kind = "list" THEN Entries(r.data, dir)
                    ELSE {}])

ListOpened(p, name, dir, o) ==
  IF o.err # "OK" THEN Outcome(o.k, TRUE, Nothing)
  ELSE NamesShown(p, o.fd, name, dir, ReadAll(o.k, p, o.fd))

list_directory(k1, p, w) ==
  LET dir == AbsPath(k1.cwd[p], w)
  IN  ListOpened(p, <<k1.cwd[p], w>>, dir,
                 sys_open(k1, p, <<"", "dev", "ls">> \o Tail(dir)))

\* What the program of a child does; one that memfs does not have exits, and
\* echo, hello and fuzz only write to the console.
Program(k1, c) ==
  LET kid == k1.kid[c]
      arg == IF Len(kid.argv) > 1 THEN kid.argv[2] ELSE NoWord
  IN  CASE memfs_lookup(kid.path) = {} -> Outcome(k1, FALSE, Nothing)
        [] kid.path = <<"", "bin", "cat">> ->
             IF arg = NoWord THEN Outcome(k1, TRUE, Nothing) ELSE cmd_cat(k1, c, arg)
        [] kid.path = <<"", "bin", "ls">> ->
             list_directory(k1, c, IF arg = NoWord THEN <<".">> ELSE arg)
        [] OTHER -> Outcome(k1, FALSE, Nothing)

-----------------------------------------------------------------------------
(* The actions. *)

\* init spawns a shell with its own descriptors, 0 to 2, and directory.
SpawnShell(k1) ==
  [FoldSet(LAMBDA h, x : syscall_acquire_handle(x, h), k1, Std) EXCEPT
     !.cwd[sh] = Root, !.fds[sh] = [d \in Fd |-> IF d \in Std THEN d ELSE None]]

Init ==
  /\ k = SpawnShell([ram |-> <<>>, handle |-> handles_init,
                     fds |-> [p \in Procs |-> [d \in Fd |-> None]],
                     cwd |-> [p \in Procs |-> Root], kid |-> [c \in Kids |-> NoKid]])
  /\ pc = "prompt" /\ first = TRUE /\ line = <<>> /\ failed = FALSE /\ out = Nothing

Becomes(o, next) ==
  /\ k' = o.k /\ failed' = o.failed /\ out' = o.out
  /\ pc' = next /\ first' = (first /\ next # "dead")

\* Is descriptor d of process p on the console?
OnConsole(k1, p, d) == k1.fds[p][d] # None /\ k1.handle[k1.fds[p][d]].kind = "tty"

\* The shell at its prompt reads the line l.
Reads(l) == pc = "prompt" /\ OnConsole(k, sh, 0) /\ line' = l

\* A line with the command name and at least n words.
Typed(l, name, n) == Reads(l) /\ l[1] = <<name>> /\ Len(l) >= n

\* The words a command needs, its name included.
Needed == ("cd" :> 2) @@ ("mkdir" :> 2) @@ ("write" :> 3) @@ ("append" :> 3)

\* The message that words are missing.
Incomplete(l) ==
  \E name \in DOMAIN Needed :
    /\ Typed(l, name, 1) /\ Len(l) < Needed[name]
    /\ Becomes(Outcome(k, TRUE, Nothing), "prompt")

\* A command that reads what it opened up to the end.
ReadsToEnd(o, outcome) ==
  IF o.err = "OK" /\ OnConsole(o.k, sh, o.fd)
  THEN Becomes(Outcome(o.k, FALSE, Nothing), "console")
  ELSE Becomes(outcome, "prompt")

SizeOf(w) ==
  LET r == {i \in DOMAIN k.ram : k.ram[i].path = resolve_path(k.cwd[sh], w)}
  IN  IF r = {} THEN 0 ELSE k.ram[CHOOSE i \in r : TRUE].size

Builtin(l) ==
  \/ Typed(l, "help", 1) /\ Becomes(Outcome(k, FALSE, Nothing), "prompt")
  \/ Typed(l, "cd", 2) /\ Becomes(cmd_cd(k, l[2]), "prompt")
  \/ Typed(l, "pwd", 1) /\ Becomes(cmd_pwd(k), "prompt")
  \/ Typed(l, "mkdir", 2) /\ Becomes(cmd_mkdir(k, l[2]), "prompt")
  \/ Typed(l, "cat", 1) /\ Len(l) = 1 /\ Becomes(Outcome(k, FALSE, Nothing), "console")
  \/ Typed(l, "cat", 2) /\ ReadsToEnd(sys_open(k, sh, l[2]), cmd_cat(k, sh, l[2]))
  \/ Typed(l, "write", 3) /\ Becomes(cmd_write(k, l[2], Text[l[3]], FALSE), "prompt")
  \/ /\ Typed(l, "append", 3)
     /\ SizeOf(l[2]) + Len(Text[l[3]]) < MaxLen
     /\ ReadsToEnd(sys_open(k, sh, l[2]), cmd_write(k, l[2], Text[l[3]], TRUE))
  \/ Incomplete(l)

Builtins == {"help", "exit", "exec", "cd", "pwd", "mkdir", "cat", "write", "append"}
IsProgram(l) == Reads(l) /\ l[1] \notin {<<b>> : b \in Builtins}

\* The index of the first "|" or ">" that has a command before it, else 0.
Split(l) ==
  LET marks == {i \in DOMAIN l : l[i] \in {<<"|">>, <<">">>}}
  IN  IF marks = {} \/ 1 \in marks THEN 0 ELSE Least(marks)

\* The pointers from args[i] on.  The array has MaxTokens places, so a line
\* that fills it has no null pointer behind its last word.
Pointers(l, i, stray) ==
  SubSeq(l, i, Len(l)) \o
    (IF Len(l) = MaxTokens /\ stray # NoWord THEN <<stray>> ELSE <<>>)

Waits(s, calls) ==
  Becomes(Quietly(s), IF s.err = "OK" THEN calls ELSE "prompt")

\* cmd_spawn and spawn_and_wait; "hello" is a line of its own in the code.
Spawn(l) ==
  /\ IsProgram(l) /\ Split(l) = 0
  /\ Waits(sys_spawn(k, resolve_cmd(l[1]), l, {}), "wait1")

\* sched_exit of the shell: its children stay, and nobody will wait for them.
Exit(k1) ==
  LET k2 == ReleaseFds(k1, sh)
  IN  [k2 EXCEPT !.kid = [c \in Kids |-> IF @[c].st = "ready"
                                         THEN [@[c] EXCEPT !.st = "orphan"] ELSE @[c]]]

\* The parent closes its ends of the pipe.
Unpiped(k1, ends) == sys_close(sys_close(k1, sh, ends[1]), sh, ends[2])

\* The second command is started, the pipe closed, and two waits follow.
SecondSpawned(ends, s) ==
  Becomes(Outcome(Unpiped(s.k, ends), s.err # "OK", Nothing), "wait2")

\* mutant: the pipe stays open in the shell when its first command fails.
FirstLeavesPipe(cmd2, ends, s) ==
  /\ s.err # "OK"
  /\ Becomes(Outcome(s.k, TRUE, Nothing), "prompt")

\* The first command is started; reading the name of the second may fault.
FirstSpawned(cmd2, ends, s) ==
  \/ /\ s.err # "OK"
     /\ Becomes(Outcome(Unpiped(s.k, ends), TRUE, Nothing), "prompt")
  \/ /\ s.err = "OK" /\ cmd2[1] = Wild
     /\ \A c \in Kids : k.kid[c] = NoKid
     /\ Becomes(Outcome(Exit(s.k), FALSE, Nothing), "dead")
  \/ /\ s.err = "OK" /\ cmd2[1] # Wild
     /\ SecondSpawned(ends, sys_spawn(s.k, resolve_cmd(cmd2[1]), cmd2, {ends[1]}))

Piped(l, cmd2, p) ==
  \/ p.err # "OK" /\ Becomes(Outcome(p.k, TRUE, Nothing), "prompt")
  \/ /\ p.err = "OK"
     /\ FirstSpawned(cmd2, p.data, sys_spawn(p.k, resolve_cmd(l[1]),
                                             SubSeq(l, 1, Split(l) - 1), {p.data[2]}))

Pipeline(l) ==
  /\ IsProgram(l) /\ Split(l) # 0 /\ l[Split(l)] = <<"|">>
  /\ \E stray \in Stray :
       LET cmd2 == Pointers(l, Split(l) + 1, stray)
       IN  \/ cmd2 = <<>> /\ Becomes(Outcome(k, TRUE, Nothing), "prompt")
           \/ cmd2 # <<>> /\ Piped(l, cmd2, sys_pipe(k, sh))

\* The program is started with the file as an override nobody uses.
RedirectSpawned(d, s) ==
  Becomes(Outcome(sys_close(s.k, sh, d), s.err # "OK", Nothing),
          IF s.err = "OK" THEN "wait1" ELSE "prompt")

RedirectOpened(l, o) ==
  \/ o.err # "OK" /\ Becomes(Outcome(o.k, TRUE, Nothing), "prompt")
  \/ /\ o.err = "OK"
     /\ RedirectSpawned(o.fd, sys_spawn(o.k, resolve_cmd(l[1]),
                                        SubSeq(l, 1, Split(l) - 1), {o.fd}))

Redirect(l) ==
  /\ IsProgram(l) /\ Split(l) # 0 /\ l[Split(l)] = <<">">>
  /\ \E stray \in Stray :
       LET file == Pointers(l, Split(l) + 1, stray)
       IN  \/ file = <<>> /\ Becomes(Outcome(k, TRUE, Nothing), "prompt")
           \/ file = <<Wild>> /\ Becomes(Outcome(k, TRUE, Nothing), "prompt")
           \/ file \notin {<<>>, <<Wild>>} /\ RedirectOpened(l, sys_open(k, sh, file[1]))

\* exit; exec replaces the shell by hello, which exits.
Quit(l) ==
  /\ Reads(l) /\ l[1] \in {<<"exit">>, <<"exec">>}
  /\ Becomes(Outcome(Exit(k), FALSE, Nothing), "dead")

\* A child runs its program to the end.  An orphan stays in the thread list
\* for ever then; nothing looks at it again, so it is dropped here.
Ended(c, o) ==
  LET mine == k.kid[c].st = "ready"
  IN  /\ k' = [ReleaseFds(o.k, c) EXCEPT
                 !.cwd[c] = Root,
                 !.kid[c] = IF mine THEN [@ EXCEPT !.st = "dead"] ELSE NoKid]
      /\ failed' = (failed \/ (o.failed /\ mine))
      /\ out' = IF o.out = Nothing THEN out ELSE o.out
      /\ UNCHANGED <<pc, first, line>>

Run(c) == k.kid[c].st \in {"ready", "orphan"} /\ Ended(c, Program(k, c))

Mine == {c \in Kids : k.kid[c].st \in {"ready", "dead"}}

\* mutant: a wait with nothing to wait for keeps looking.
ReapSpins ==
  /\ pc \in {"wait1", "wait2"}
  /\ \/ /\ \E c \in Mine : k.kid[c].st = "dead" /\ k' = [k EXCEPT !.kid[c] = NoKid]
        /\ pc' = IF pc = "wait2" THEN "wait1" ELSE "prompt"
     \/ Mine = {} /\ k' = k /\ pc' = pc
  /\ UNCHANGED <<first, line, failed, out>>

\* One sys_wait of the shell: a dead child is reaped; without children it
\* returns at once.
Reap ==
  /\ pc \in {"wait1", "wait2"}
  /\ \/ \E c \in Mine : k.kid[c].st = "dead" /\ k' = [k EXCEPT !.kid[c] = NoKid]
     \/ Mine = {} /\ k' = k
  /\ pc' = IF pc = "wait2" THEN "wait1" ELSE "prompt"
  /\ UNCHANGED <<first, line, failed, out>>

\* The shell reads an error for a line, yields and tries again; or a command
\* shows the lines that are typed.
Loops == (pc = "console" \/ (pc = "prompt" /\ ~OnConsole(k, sh, 0))) /\ UNCHANGED vars

\* init reaps the shell and spawns the next one.
Restart ==
  /\ pc = "dead"
  /\ k' = SpawnShell(k)
  /\ pc' = "prompt"
  /\ UNCHANGED <<first, line, failed, out>>

Next ==
  \/ \E l \in Lines : Builtin(l) \/ Spawn(l) \/ Pipeline(l) \/ Redirect(l) \/ Quit(l)
  \/ \E c \in Kids : Run(c)
  \/ Reap
  \/ Restart
  \/ Loops

Spec == Init /\ [][Next]_vars

\* Threads are scheduled in turn (SchedFair): the shell and init get to return
\* from sys_wait, and a child that is ready runs.  Run(c) is enabled as long
\* as the child is ready and nothing else ends that, so its weak fairness is
\* that the child is not ready for ever.
Fairness ==
  /\ WF_vars(Reap) /\ WF_vars(Restart)
  /\ \A c \in Kids : []<>(k.kid[c].st \notin {"ready", "orphan"})

FairSpec == Spec /\ Fairness

-----------------------------------------------------------------------------
(* What is checked. *)

Segs(w) == SelectSeq(w, LAMBDA s : s # "")
RamNames == {Segs(k.ram[i].path) : i \in DOMAIN k.ram}
RamBytes(n) ==
  LET f == k.ram[CHOOSE i \in DOMAIN k.ram : Segs(k.ram[i].path) = n]
  IN  SubSeq(f.data, 1, f.size)
Content == [n \in RamNames |-> RamBytes(n)]
MemIndex(n) == {i \in DOMAIN Mem : Segs(Mem[i].path) = n}
IsList(n) == Len(n) >= 2 /\ SubSeq(n, 1, 2) = <<"dev", "ls">>
IsConsole(n) == n \in {<<"dev", "tty">>, <<"dev", "console">>}
NotInMemory(n) == MemIndex(n) # {} \/ IsList(n) \/ IsConsole(n)

Files == INSTANCE ShellSpec WITH content <- Content, dir <- Segs(k.cwd[sh]),
                                 Unwritable <- NotInMemory

\* Every line typed does to the files and to the working directory what
\* ShellSpec says (where cd makes a missing name), in whatever chunks the file is read, however its buffer
\* grew and whatever the name looked like: names resolve as the reference
\* Ref says (both normalize_path, resolve_path), append ends up behind the
\* last byte, and no program changes the bytes of a file.
ImplementsFiles == Files!Spec

\* What cat shows, as a command or as a program, is the whole file that the
\* name stands for (sys_read in pieces of READ_CHUNK over memfs_read,
\* ramfs_read and the listing branch of vfs_read).
CatShowsFile ==
  out.what = "bytes" =>
    LET n == Files!Ref(Segs(out.name[1]), out.name[2])
    IN  out.text = CASE MemIndex(n) # {} -> Mem[CHOOSE i \in MemIndex(n) : TRUE].data
                     [] IsList(n) -> IF Len(n) > 2 /\ n[3] = "disk" THEN <<>>
                                     ELSE memfs_list
                     [] n \in RamNames -> RamBytes(n)

\* ls prints the children of the directory that its argument names, for an
\* argument without "..": list_directory compares text where the kernel
\* resolves names, and the two agree only then.
LsListsChildren ==
  (out.what = "names" /\ ".." \notin Range(out.name[2])) =>
    LET n == Files!Ref(Segs(out.name[1]), out.name[2])
        below == {i \in DOMAIN Mem : IsStrictPrefix(n, Segs(Mem[i].path))}
    IN  out.text = {Segs(Mem[i].path)[Len(n) + 1] : i \in below}

\* The two together: what programs show is what the file system holds.
ShowsFiles == CatShowsFile /\ LsListsChildren

\* When the shell asks for a line, it has closed every descriptor it opened
\* and waited for every child it started, on every path through the pipeline
\* and redirection code.  And the console does not go away under a running
\* program, nor under the first shell, whatever has exited before: their
\* references keep handles 0 to 2 although init's are not counted.
Live == {c \in Kids : k.kid[c].st \in {"ready", "orphan"}} \cup (IF first THEN {sh} ELSE {})
PromptClean ==
  /\ pc = "prompt" => Inherited(k, sh) = Std /\ Mine = {}
  /\ \A p \in Live, d \in Std : OnConsole(k, p, d)

\* The causes a failure may have: a word that is missing, a relative name for
\* mkdir, a name that does not fit, one under /disk or that begins with the
\* letters /bin or /dev/ls, a full table of files, handles used up by earlier
\* pipelines and redirections (two for each pipeline, one for each
\* redirection, because the overrides taken by SYSCALL_SPAWN are never
\* dropped), or a pointer read from behind args.
Cause(l) ==
  LET builtin == l[1] \in {<<b>> : b \in Builtins}
      names == IF builtin THEN {2} \cap DOMAIN l ELSE 2..Len(l)
      slack == IF builtin THEN 1 ELSE 8
      Needs(n) == Cardinality(FreeHandles(k)) < n
  IN  \/ \E c \in DOMAIN Needed : l[1] = <<c>> /\ Len(l) < Needed[c]
      \/ Split(l) # 0 /\ (Split(l) = Len(l) \/ Last(l) = <<"cat">>)
      \/ l[1] = <<"mkdir">> /\ ~IsAbsolute(l[2])
      \/ Needs(IF Split(l) # 0 /\ l[Split(l)] = <<"|">> THEN 2 ELSE 1)
      \/ Len(l) = MaxTokens /\ Split(l) # 0
      \/ \E i \in names \cup (IF builtin THEN {} ELSE {1}) :
           Chars(k.cwd[sh]) + Chars(l[i]) + slack >= UserPathMax
      \/ \E i \in names :
           LET n == Files!Ref(Segs(k.cwd[sh]), l[i])
           IN  \/ n # <<>> /\ n[1] \in BinLike \cup {"disk"} /\ MemIndex(n) = {}
               \/ Len(n) > 1 /\ n[1] = "dev" /\ n[2] \in LsLike \ {"ls"}
               \/ Len(k.ram) = MaxFiles /\ (n \notin RamNames \/ ".." \in Range(l[i]))

\* A command or program that reports a failure has one of those causes, after
\* any sequence of earlier commands: nothing else makes an open, a change of
\* directory, a pipe or a spawn fail, and the name of the working directory
\* always fits the buffers of the prompt and of pwd.
FailsForCause == [][failed' /\ (~failed \/ line' # line) => Cause(line)']_vars

\* Every sys_wait the shell makes returns, also the second one of a pipeline
\* whose second command was not started; and when a shell has exited, by
\* itself or by a fault, init starts a new one.  Whether that one can read a
\* line is another question, see RestartReads.
PromptReturns == (pc \in {"wait1", "wait2", "dead"}) ~> (pc = "prompt")

\* A shell that init has started reads lines: "handles persist if other
\* processes hold them" (syscall.c:118), and init holds the console's.
RestartReads == pc = "prompt" => OnConsole(k, sh, 0)

\* "Verify directory exists by opening it" (syscall.c:588): after cd the shell
\* is in a directory whose name was there before.
ChdirVerifies ==
  [][pc = "prompt" /\ k'.cwd[sh] # k.cwd[sh] =>
       LET n == Segs(k'.cwd[sh]) IN n = <<>> \/ n \in RamNames \/ NotInMemory(n)]_vars
=============================================================================
