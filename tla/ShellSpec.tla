----------------------------- MODULE ShellSpec -----------------------------
(***************************************************************************)
(* What the shell's commands do to the files, as its help line and the     *)
(* names of the commands promise it: files are byte sequences with a name, *)
(* "write" lays its text over the start of a file, "append" puts it at the *)
(* end, "cd" changes the directory, and nothing else changes the bytes of  *)
(* a file.  A command that has no effect says so, unless the file cannot   *)
(* be written at all.  Opening a name makes an empty file of it, so any    *)
(* command that opens one may leave one behind.                            *)
(***************************************************************************)
EXTENDS Integers, SequencesExt, TLC

CONSTANTS
  Lines,  \* the command lines, as sequences of words
  Stray,  \* words that a line of four words may be followed by in memory
  Text,   \* the bytes of the words that are used as text
  Unwritable(_)  \* the names that are not files in memory

VARIABLES
  content,  \* the bytes of every file in memory, by name
  dir,      \* the working directory of the shell
  line,     \* the line typed last
  failed    \* the shell has reported a failure of it

\* The segments a name stands for, seen from the directory d.
RECURSIVE Walk(_, _)
Walk(d, w) ==
  IF w = <<>> THEN d
  ELSE CASE Head(w) \in {"", "."} -> Walk(d, Tail(w))
         [] Head(w) = ".." -> Walk(IF d = <<>> THEN d ELSE Front(d), Tail(w))
         [] OTHER -> Walk(Append(d, Head(w)), Tail(w))

Ref(d, w) == IF Len(w) > 1 /\ w[1] = "" THEN Walk(<<>>, w) ELSE Walk(d, w)

Newline == <<10>>
Old(n) == IF n \in DOMAIN content THEN content[n] ELSE <<>>
Overlay(old, new) ==
  [i \in 1..(IF Len(new) > Len(old) THEN Len(new) ELSE Len(old)) |->
     IF i <= Len(new) THEN new[i] ELSE old[i]]

\* The line typed in this step is the command name with n words at least.
Command(name, n) == line' \in Lines /\ Len(line') >= n /\ line'[1] = <<name>>

\* A command that ought to change something may do nothing only when it says so.
Excused ==
  \/ line'[1] \notin {<<"write">>, <<"append">>, <<"cd">>}
  \/ failed'
  \/ line'[1] # <<"cd">> /\ Unwritable(Ref(dir, line'[2]))

Init == content = <<>> /\ dir = <<>> /\ line = <<>> /\ failed = FALSE

Write ==
  /\ Command("write", 3)
  /\ LET n == Ref(dir, line'[2])
     IN  content' = n :> Overlay(Old(n), Text[line'[3]] \o Newline) @@ content
  /\ UNCHANGED dir

AppendTo ==
  /\ Command("append", 3)
  /\ LET n == Ref(dir, line'[2])
     IN  content' = n :> Old(n) \o Text[line'[3]] \o Newline @@ content
  /\ UNCHANGED dir

Chdir ==
  /\ Command("cd", 2) /\ ~failed'
  /\ LET n == Ref(dir, line'[2])
     IN  dir' = n /\ (n \in DOMAIN content \/ Unwritable(n))
  /\ UNCHANGED content

\* cd to a name that is not there.  The check of sys_chdir ("Verify directory
\* exists by opening it", syscall.c:588) makes the name instead of refusing
\* it; Shell states the intent as ChdirVerifies, which does not hold.
ChdirMakes ==
  /\ Command("cd", 2) /\ ~failed'
  /\ LET n == Ref(dir, line'[2])
     IN  n \notin DOMAIN content /\ dir' = n /\ content' = n :> <<>> @@ content

\* A name of the line or from behind it, or one that ls asks the listing
\* device for; the line is typed now, or a program it started runs.
Touch ==
  /\ line' \in Lines /\ Excused
  /\ \E w \in Range(line') \cup (IF Len(line') = 4 THEN Stray ELSE {}) :
       \E n \in {Ref(dir, w), Walk(<<"dev", "ls">>, w), Walk(<<"dev", "ls">> \o dir, w)} :
         /\ n \notin DOMAIN content
         /\ content' = n :> <<>> @@ content
  /\ UNCHANGED dir

NoEffect == line' \in Lines /\ Excused /\ UNCHANGED <<content, dir>>

\* init starts the shell again, in its own directory.
Restart == dir' = <<>> /\ UNCHANGED <<content, line, failed>>

Next == Write \/ AppendTo \/ Chdir \/ ChdirMakes \/ Touch \/ NoEffect \/ Restart

Spec == Init /\ [][Next]_<<content, dir, line, failed>>
=============================================================================
