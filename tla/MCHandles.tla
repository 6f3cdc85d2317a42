----------------------------- MODULE MCHandles -----------------------------
(* Instances of Handles for TLC. *)
EXTENDS Handles

\* The maps the shell passes: none, or a standard descriptor replaced by the
\* first one after them.
ShellMaps == {NoMap} \cup {[NoMap EXCEPT ![s] = NStd] : s \in Std}

\* All arguments, none, and the redirection of a standard descriptor only.
AllPairs == Fd \X Fd
NoPairs == {}
Redirect == {<<NStd, 0>>}

\* Stop where the counts no longer mean anything.
Intact == ~lost
=============================================================================
