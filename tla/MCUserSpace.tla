---------------------------- MODULE MCUserSpace ----------------------------
(* Two threads and images laid out as the ones the kernel embeds.          *)
EXTENDS UserSpace, TLC

Seg(vaddr, memsz, filesz, w, x) ==
  [vaddr |-> vaddr, memsz |-> memsz, filesz |-> filesz, w |-> w, x |-> x]

\* Code and data of a page each; zeros only, across a page boundary, as the
\* arrays of user/ls.c; and an image whose data starts on the page where its
\* code ends, which the loader refuses.
ThreeImages ==
  [shell |-> <<Seg(4, 2, 2, FALSE, TRUE), Seg(6, 2, 1, TRUE, FALSE)>>,
   ls    |-> <<Seg(4, 1, 1, FALSE, TRUE), Seg(7, 2, 0, TRUE, FALSE)>>,
   tight |-> <<Seg(4, 1, 1, FALSE, TRUE), Seg(5, 2, 1, TRUE, FALSE)>>]

FourPaths == {"shell", "ls", "tight", "missing"}

\* As many strings as fit, each as long as USER_STR_MAX allows, for a program
\* that is given no argv; and a command with one argument.
LongVectors == {[args |-> <<>>, envs |-> [i \in 1..7 |-> 64]],
                [args |-> <<3, 12>>, envs |-> <<>>]}

ThreadSymmetry == Permutations(Threads)
=============================================================================
