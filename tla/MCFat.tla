------------------------------- MODULE MCFat -------------------------------
(* An instance of Fat for TLC. *)
EXTENDS Fat, TLC

Readme == <<"A">>
Files == {<<"A">>, <<"D", "B">>}
Directories == {<<"D">>}
HandleSymmetry == Permutations(Handles)
=============================================================================
