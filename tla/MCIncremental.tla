---------------------------- MODULE MCIncremental ----------------------------
(***************************************************************************)
(* Instances of Incremental for TLC: a program whose two modules "one" and *)
(* "two" have objects of one name, and import each other and a library.    *)
(***************************************************************************)
EXTENDS Incremental

MCModules == {"main", "one", "two", "lib"}
MCOrder == [m \in MCModules |-> CASE m = "main" -> 1 [] m = "one" -> 2 [] m = "two" -> 3 [] OTHER -> 4]
MCImports == [m \in MCModules |-> CASE m = "main" -> {"one"} [] m = "one" -> {"two"}
                                    [] m = "two" -> {"one", "lib"} [] OTHER -> {}]
MCBase == [m \in MCModules |-> IF m = "two" THEN "one" ELSE m]
MCMaxEdit == [m \in MCModules |-> IF m = "lib" THEN 1 ELSE 0]
=============================================================================
