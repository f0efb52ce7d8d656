-------------------------------- MODULE MCNet --------------------------------
(***************************************************************************)
(* Instances of Net for TLC: a chain of packages, of which the first also  *)
(* imports what it generates itself, and a project that needs two of them. *)
(***************************************************************************)
EXTENDS Net

MCPackages == {"a", "b", "c"}

MCUses == [p \in MCPackages \union {"here"} |->
             CASE p = "a" -> {"a", "b"} [] p = "b" -> {"c"} [] p = "c" -> {} [] p = "here" -> {"b"}]

MCRequires == [p \in MCPackages \union {"here"} |-> IF p = "a" THEN {"c"} ELSE {}]

\* Packages that need each other.
Circle == [MCUses EXCEPT !["c"] = {"b"}]
=============================================================================
