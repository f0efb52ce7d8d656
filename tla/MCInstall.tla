------------------------------ MODULE MCInstall ------------------------------
(***************************************************************************)
(* Instances of Install for TLC.  Package "p" has a library whose          *)
(* preinstall hook copies a file, a binary that is not installed, a subdir *)
(* section with a section of its own and a documentation file; package "q" *)
(* is one sourcelibrary.                                                   *)
(***************************************************************************)
EXTENDS Install, Paths

MCPackages == {"p", "q"}

MCSections == {"lib", "tool", "empty", "dir", "inner", "src"}

MCFiles == {"conf", "lib.a", "inner.di", "dir.post", "p.html", "q.d"}

Choice(D, default, f) == [x \in D |-> IF x \in DOMAIN f THEN f[x] ELSE default]

MCPre  == Choice(MCSections, {}, [lib |-> {"conf"}, empty |-> {"conf"}])
MCBody == Choice(MCSections, {}, [lib |-> {"lib.a"}, inner |-> {"inner.di"},
                                  src |-> {"q.d"}])
MCPost == Choice(MCSections, {}, [dir |-> {"dir.post"}])
MCSub  == Choice(MCSections, <<>>, [dir |-> <<"inner">>])
MCDocs == Choice(MCPackages \union MCSections, {}, [p |-> {"p.html"}])

NoDocs == [d \in MCPackages \union MCSections |-> {}]

MCWhole == [p |-> {<<"lib", "tool", "dir">>}, q |-> {<<"src">>}]
MCSome  == [p |-> {<<"dir">>, <<"empty", "lib">>}, q |-> {}]
UnderPrefix == [f \in MCFiles |-> IF f = "conf" THEN "outside" ELSE "under"]

\* The shortened name is a path of the other package.
MCLookalike == [f \in MCFiles |-> "q.d"]

\* Every path of up to six elements, and of up to four.
MCElements == {"", ".", "..", "a", ".hidden"}
MCInputs   == UNION {[1..n -> MCElements] : n \in 1..6}
MCDirs     == UNION {[1..n -> MCElements] : n \in 1..4}

\* TLC evaluates it before it begins: what manifests name is what was copied.
ASSUME PathsKeepTheirMeaning

\* What the theorems of Install and Paths assume is so of these instances.
ASSUME WellReleased /\ CanonicalDirs(MCElements \union {"file"})
=============================================================================
