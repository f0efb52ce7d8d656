---------------------------- MODULE MCCompilePool ----------------------------
(***************************************************************************)
(* Instances of CompilePool for TLC.                                       *)
(***************************************************************************)
EXTENDS CompilePool

\* With several threads every module has a group of its own (oneatatime), and
\* the groups that hold an up-to-date module, like the first, are empty.
OneEach == [g \in Groups |-> IF g \in {0, 3} THEN 0 ELSE 1]

\* With one thread groups are as large as object names allow.
Grouped == [g \in Groups |-> CASE g = 3 -> 0 [] g = 4 -> 1 [] OTHER -> 2]
=============================================================================
