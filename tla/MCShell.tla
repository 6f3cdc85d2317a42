------------------------------ MODULE MCShell ------------------------------
(* A session small enough for TLC: two files, names of every backend.      *)
EXTENDS Shell

SegLenDef ==
  [s \in {"", ".", "..", "a", "b", "bin", "cat", "ls", "dev", "tty", "disk", "no", "x",
          "yz", "|", ">", "?", "long", "binary", "lsx"} |->
     CASE s = "" -> 0 [] s = "long" -> 60
       [] s \in {"bin", "cat", "dev", "tty", "lsx"} -> 3
       [] s \in {"..", "ls", "no", "yz"} -> 2
       [] s = "disk" -> 4 [] s = "binary" -> 6
       [] OTHER -> 1]

MemDef == <<[path |-> <<"", "bin", "cat">>, data |-> <<7, 8, 9>>],
            [path |-> <<"", "bin", "ls">>, data |-> <<>>]>>

BinLikeDef == {"bin", "binary"}
LsLikeDef == {"ls", "lsx"}

TextDef == <<"x">> :> <<1>> @@ <<"yz">> :> <<2, 3>>

StrayDef == {NoWord, Wild}

A == <<"", "a">>
LinesDef == {
  <<<<"help">>>>, <<<<"pwd">>>>, <<<<"exec">>>>,
  <<<<"cd">>, <<"", "b", ".", "x", "..">>>>,
  <<<<"mkdir">>, <<"", "dev", "tty">>>>,
  <<<<"mkdir">>, <<"a">>>>, <<<<"cd">>>>, <<<<"cat">>>>,
  <<<<"cat">>, <<"..", "a", "">>>>, <<<<"cat">>, <<"", "disk", "x">>>>,
  <<<<"cat">>, <<"", "binary">>>>, <<<<"cat">>, <<"", "dev", "lsx">>>>,
  <<<<"append">>, <<"", "dev", "tty">>, <<"x">>>>, <<<<"append">>, A>>,
  <<<<"write">>, A, <<"x">>>>, <<<<"write">>, <<"long", "b">>, <<"yz">>>>,
  <<<<"append">>, A, <<"yz">>>>,
  <<<<"ls">>, <<"", "bin", ".">>>>,
  <<<<"ls">>, <<"|">>, <<"cat">>, <<"", "bin", "cat">>>>, <<<<"ls">>, <<"|">>, <<"cat">>>>,
  <<<<"ls">>, <<"long", "long">>, <<"|">>, <<"ls">>>>,
  <<<<"ls">>, <<".">>, <<"ls">>, <<"|">>>>,
  <<<<"ls">>, <<".">>, <<">">>, <<"b">>>>, <<<<"ls">>, <<".">>, <<".">>, <<">">>>>}
=============================================================================
