------------------------------- MODULE MCBuild -------------------------------
(***************************************************************************)
(* Instances of Build for TLC: a project with a shared library, a binary   *)
(* and a subdirectory in which there is another library.  Section y is a   *)
(* binary with an extension that rebuild does not know.                    *)
(***************************************************************************)
EXTENDS Build

MCDirs == {"top", "sub"}

MCSections == {"a", "m", "d", "b", "x", "y"}

MCHome == [s \in MCSections |-> IF s = "b" THEN "sub" ELSE "top"]

MCType == [s \in MCSections |-> CASE s \in {"a", "b", "x"} -> "library"
                                  [] s \in {"m", "y"} -> "binary"
                                  [] s = "d" -> "subdir"]

MCSubDir == [s \in {"d"} |-> "sub"]

OneConf == [d \in MCDirs |-> IF d = "top" THEN {"c1"} ELSE {"c"}]
Reordered == [d \in MCDirs |-> IF d = "top" THEN {"c1", "c3"} ELSE {"c"}]
TwoConfs == [d \in MCDirs |-> IF d = "top" THEN {"c1", "c2"} ELSE {"c"}]

MCTargets == {"A", "A2", "M", "B", "X", "D", "Y"}

\* The second configuration renames library a; the third lists the same files
\* as the first, in another order.
MCTarget ==
  [c \in {"c1", "c2", "c3", "c"} |->
     [s \in MCSections |-> CASE s = "a" -> IF c = "c2" THEN "A2" ELSE "A"
                             [] s = "m" -> "M" [] s = "b" -> "B" [] s = "d" -> "D"
                             [] s = "x" -> "X" [] s = "y" -> "Y"]]

AllDefault ==
  [c1 |-> <<"a", "m", "d">>, c2 |-> <<"d", "m", "a">>, c3 |-> <<"d", "m", "a">>, c |-> <<"b">>]
\* Two libraries.
WithX == [AllDefault EXCEPT !.c1 = <<"a", "x">>, !.c3 = <<"x", "a">>]

\* Everything; or also the library, or the refused binary.
OnlyAll == {<<>>}
WholeOrPart == {<<>>, <<"a">>, <<"y">>}

NoEdits == [s \in MCSections |-> 1]
EditA == [NoEdits EXCEPT !["a"] = 2]

\* What the theorems of Build assume is so of these instances.
ASSUME
  /\ InTheirPlaces /\ TargetsApart /\ OwnTargets /\ OneMode
  /\ AskedByDefault /\ RefusedAtRoot /\ OnlyDi = {} /\ NamedAreListed
  /\ Confs \in {OneConf, Reordered} => SameFiles
  /\ Nested([d \in MCDirs |-> IF d = "top" THEN 1 ELSE 0])
=============================================================================
