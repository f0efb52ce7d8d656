--------------------------------- MODULE Net ---------------------------------
(***************************************************************************)
(* "dsss net deps", "install" and "fetch" (sss/net.d): the lists that are  *)
(* kept from a mirror, and the installation of a package that first        *)
(* installs what it imports, by calling itself.  What uninstall, build and *)
(* install do in detail is in the modules Install and Build.               *)
(***************************************************************************)
EXTENDS Naturals, Sequences, SequencesExt

CONSTANTS
  Packages,
  Here,       \* the project in the directory where net deps is given
  Dsss,       \* the package "dsss", which is never uninstalled first
  Uses,       \* the packages that provide the modules a package imports
  Requires,   \* settings["requires"]
  Elsewhere,  \* packages installed under another prefix, given with --use
  InHalf,     \* packages that the first part of a list names
  MaxGen      \* bound: the last generation of the lists and packages upstream

Projects == Packages \union {Here}

ASSUME NetAssumption ==
  /\ Here \notin Packages
  /\ Uses \in [Projects -> SUBSET Packages] /\ Requires \in [Projects -> SUBSET Packages]
  /\ Elsewhere \subseteq Packages /\ InHalf \subseteq Packages
  /\ MaxGen \in Nat \ {0}

VARIABLES
  now,       \* the generation published upstream
  mirror,    \* the file "mirror" exists
  list,      \* the lists on disk
  installed, \* the generation of each package under the prefix, 0 for none
  scratch,   \* the generations unpacked in each package's scratch directory
  cmd,       \* the command that runs or ran last, and what came of it
  stack      \* its packages in the works, outermost first

vars == <<now, mirror, list, installed, scratch, cmd, stack>>

Names == {"source", "pkgs"}

NoList == [gen |-> 0, whole |-> FALSE]

Running == {"mirror", "source", "pkgs", "run"}

Commands ==
  {c \in [op : {"none", "install", "fetch", "deps"}, pkg : Projects,
          state : Running \union {"idle", "ok", "error", "threw", "exited"}, dated : BOOLEAN] :
     /\ c.pkg = Here <=> c.op \in {"none", "deps"}
     /\ c.state \in Running => c.op # "none"}

Phases == {"sources", "archive", "uninstall", "trace", "deps", "build", "install"}

Frames == [pkg : Projects, at : Phases, todo : SUBSET Packages, src : 0..MaxGen]

Frame(p, at) == [pkg |-> p, at |-> at, todo |-> {}, src |-> 0]

\* The user's own project is traced where it is; the others need a directory
\* with a dsss.conf first.
Fits(f) ==
  IF f.pkg = Here THEN f.at \in {"trace", "deps"}
  ELSE f.at \in {"deps", "build", "install"} => f.src # 0

TypeOK ==
  /\ now \in 1..MaxGen /\ mirror \in BOOLEAN
  /\ list \in [Names -> [gen : 0..MaxGen, whole : BOOLEAN]]
  /\ installed \in [Packages -> 0..MaxGen]
  /\ scratch \in [Packages -> SUBSET (1..MaxGen)]
  /\ cmd \in Commands
  /\ stack \in Seq(Frames)
  /\ \A i \in DOMAIN stack : Fits(stack[i])

NoCommand == [op |-> "none", pkg |-> Here, state |-> "idle", dated |-> FALSE]

Init ==
  /\ now = 1 /\ mirror = FALSE
  /\ list = [l \in Names |-> NoList]
  /\ installed = [p \in Packages |-> 0]
  /\ scratch = [p \in Packages |-> {}]
  /\ cmd = NoCommand
  /\ stack = <<>>

Busy == cmd.state \in Running

Top == stack[Len(stack)]

Have(p) == installed[p] # 0 \/ p \in Elsewhere

-----------------------------------------------------------------------------
(* The user, and the keepers of the lists. *)

Publish ==
  /\ ~Busy /\ now < MaxGen
  /\ now' = now + 1 /\ cmd' = NoCommand
  /\ UNCHANGED <<mirror, list, installed, scratch, stack>>

\* dsss uninstall
Uninstall(p) ==
  /\ ~Busy /\ installed[p] # 0
  /\ installed' = [installed EXCEPT ![p] = 0] /\ cmd' = NoCommand
  /\ UNCHANGED <<now, mirror, list, scratch, stack>>

Command(op, p) ==
  /\ ~Busy
  /\ cmd' = [op |-> op, pkg |-> p, state |-> IF mirror THEN "source" ELSE "mirror",
             dated |-> mirror]
  /\ UNCHANGED <<now, mirror, list, installed, scratch, stack>>

\* "you may choose another mirror at any time by removing the directory"
Forget ==
  /\ ~Busy /\ mirror
  /\ mirror' = FALSE /\ list' = [l \in Names |-> NoList] /\ cmd' = NoCommand
  /\ UNCHANGED <<now, installed, scratch, stack>>

-----------------------------------------------------------------------------
(* Synchronizing *)

\* The choice is kept before anything has come from that mirror.
ChooseMirror ==
  /\ cmd.state = "mirror"
  /\ mirror' = TRUE
  /\ cmd' = [cmd EXCEPT !.state = "source"]
  /\ UNCHANGED <<now, list, installed, scratch, stack>>

\* curl's result is not tested: it may have reached no one, or have been cut
\* short.  -z asks for what is newer than the file, and the file is as old as
\* its download, whole or not.
Transferred(l) ==
  IF cmd.dated /\ list[l].gen = now THEN {list[l]}
  ELSE {list[l], [gen |-> now, whole |-> TRUE], [gen |-> now, whole |-> FALSE]}

Transfer(l) ==
  /\ cmd.state = l
  /\ \E copy \in Transferred(l) : list' = [list EXCEPT ![l] = copy]
  /\ cmd' = IF l = "source" THEN [cmd EXCEPT !.state = "pkgs"]
            ELSE [cmd EXCEPT !.state = "run", !.dated = FALSE]
  /\ UNCHANGED <<now, mirror, installed, scratch, stack>>

Listed(l, p) == list[l].whole \/ p \in InHalf

-----------------------------------------------------------------------------
(* The ends of a command. *)

\* return and exceptions unwind every call: each removes its directory.
Unwind(outcome) ==
  /\ stack' = <<>>
  /\ scratch' = [p \in Packages |-> IF \E i \in DOMAIN stack : stack[i].pkg = p
                                    THEN {} ELSE scratch[p]]
  /\ cmd' = [NoCommand EXCEPT !.state = outcome]
  /\ UNCHANGED <<now, mirror, list, installed>>

\* A mutant of EndCall: the directory of all packages goes.
RemoveAllScratch ==
  /\ stack' = Front(stack)
  /\ scratch' = [p \in Packages |-> {}]
  /\ cmd' = IF Len(stack) = 1 THEN [cmd EXCEPT !.state = "ok"] ELSE cmd

\* The innermost call returns 0.
EndCall ==
  /\ stack' = Front(stack)
  /\ scratch' = [p \in Packages |-> IF p = Top.pkg THEN {} ELSE scratch[p]]
  /\ cmd' = IF Len(stack) = 1 THEN [cmd EXCEPT !.state = "ok"] ELSE cmd

\* exit, or a signal, removes nothing.
Exit ==
  /\ Busy
  /\ stack' = <<>>
  /\ cmd' = [NoCommand EXCEPT !.state = "exited"]
  /\ UNCHANGED <<now, mirror, list, installed, scratch>>

-----------------------------------------------------------------------------
(* net() *)

Starting == cmd.state = "run" /\ stack = <<>>

\* std.file.read of a list that never arrived throws.
NoLists == Starting /\ (\E l \in Names : list[l].gen = 0) /\ Unwind("threw")

\* "That package does not appear to exist!"
Unknown ==
  /\ Starting /\ (\A l \in Names : list[l].gen # 0)
  /\ cmd.op # "deps" /\ ~Listed("pkgs", cmd.pkg)
  /\ Unwind("error")

Start ==
  /\ Starting /\ (\A l \in Names : list[l].gen # 0)
  /\ cmd.op = "deps" \/ Listed("pkgs", cmd.pkg)
  /\ stack' = <<Frame(cmd.pkg, IF cmd.op = "deps" THEN "trace" ELSE "sources")>>
  /\ UNCHANGED <<now, mirror, list, installed, scratch, cmd>>

Step(at) == stack # <<>> /\ Top.at = at

\* The innermost call at its next phase.
Goto(at) == stack' = [stack EXCEPT ![Len(stack)].at = at]

\* getSources: from upstream or a mirror, both of this generation, or nothing
\* though no command failed: the status of "gunzip | tar" is that of tar, and
\* true is returned anyway.  Among the directories that hold a dsss.conf, any
\* may be the first.
GetSources ==
  /\ Step("sources") /\ Listed("source", Top.pkg)
  /\ \E new \in {{}, {now}} :
       LET found == scratch[Top.pkg] \union new IN
       /\ scratch' = [scratch EXCEPT ![Top.pkg] = found]
       /\ \E g \in IF found = {} THEN {0} ELSE found :
            stack' = [stack EXCEPT
                        ![Len(stack)].src = g,
                        ![Len(stack)].at = IF cmd.op = "fetch" THEN "archive" ELSE "uninstall"]
  /\ UNCHANGED <<now, mirror, list, installed, cmd>>

\* A package that is in pkgs.list and not in source.list, a mirror or a patch
\* that fails.
NoSources == Step("sources") /\ Unwind("threw")

Archive == Step("archive") /\ EndCall /\ UNCHANGED <<now, mirror, list, installed>>

UninstallOld ==
  /\ Step("uninstall")
  /\ installed' = IF Top.pkg = Dsss THEN installed ELSE [installed EXCEPT ![Top.pkg] = 0]
  /\ Goto("trace")
  /\ UNCHANGED <<now, mirror, list, scratch, cmd>>

\* What rebuild -notfound lists for p: it follows imports through what is
\* installed, and stops at what is not.
NotFound(p) ==
  {d \in Packages :
     /\ ~Have(d)
     /\ \A S \in SUBSET Packages :
          (Uses[p] \subseteq S /\ \A u \in S : Have(u) => Uses[u] \subseteq S) => d \in S}

\* Mutants of ToInstall.  Imports of imports are not followed.
OnlyDirect(p) == {d \in Uses[p] : ~Have(d) /\ Listed("pkgs", d)} \ {p}

\* A package is told to install itself.
AndItself(p) == {d \in NotFound(p) : Listed("pkgs", d)} \union Requires[p]

\* Modules that pkgs.list does not name are dropped, and the package itself is
\* skipped: it may generate what it imports.
ToInstall(p) == ({d \in NotFound(p) : Listed("pkgs", d)} \union Requires[p]) \ {p}

\* A mutant of Trace: a directory without dsss.conf is no matter.
TraceAnyway ==
  /\ Step("trace")
  /\ stack' = [stack EXCEPT ![Len(stack)].todo = ToInstall(Top.pkg), ![Len(stack)].at = "deps"]
  /\ UNCHANGED <<now, mirror, list, installed, scratch, cmd>>

\* net(["deps"]): sourceToDeps
Trace ==
  /\ Step("trace") /\ (Top.src # 0 \/ Top.pkg = Here)
  /\ stack' = [stack EXCEPT ![Len(stack)].todo = ToInstall(Top.pkg), ![Len(stack)].at = "deps"]
  /\ UNCHANGED <<now, mirror, list, installed, scratch, cmd>>

\* "No config file found and no targets explicitly specified."
NoConfig == Step("trace") /\ Top.src = 0 /\ Top.pkg # Here /\ Exit

\* Mutants of AssertInstalled.  Installs again what is there.
InstallAgain(d) ==
  /\ Step("deps") /\ d \in Top.todo /\ Listed("pkgs", d)
  /\ stack' = Append([stack EXCEPT ![Len(stack)].todo = @ \ {d}], Frame(d, "sources"))
  /\ UNCHANGED <<now, mirror, list, installed, scratch, cmd>>

\* Forgets which it has asserted.
AssertAgain(d) ==
  /\ Step("deps") /\ d \in Top.todo /\ (Have(d) \/ Listed("pkgs", d))
  /\ stack' = IF Have(d) THEN stack ELSE Append(stack, Frame(d, "sources"))
  /\ UNCHANGED <<now, mirror, list, installed, scratch, cmd>>

\* net(["assert", d]): nothing if there is a manifest under any prefix
AssertInstalled(d) ==
  /\ Step("deps") /\ d \in Top.todo /\ (Have(d) \/ Listed("pkgs", d))
  /\ LET rest == [stack EXCEPT ![Len(stack)].todo = @ \ {d}] IN
     stack' = IF Have(d) THEN rest ELSE Append(rest, Frame(d, "sources"))
  /\ UNCHANGED <<now, mirror, list, installed, scratch, cmd>>

AssertUnknown(d) ==
  /\ Step("deps") /\ d \in Top.todo /\ ~Have(d) /\ ~Listed("pkgs", d)
  /\ Unwind("error")

DepsDone ==
  /\ Step("deps") /\ Top.todo = {}
  /\ \/ /\ Top.pkg # Here /\ Goto("build") /\ UNCHANGED <<scratch, cmd>>
     \/ /\ Top.pkg = Here /\ EndCall
  /\ UNCHANGED <<now, mirror, list, installed>>

\* Nothing compiles while a module it imports is missing.
BuildIt ==
  /\ Step("build") /\ NotFound(Top.pkg) \subseteq {Top.pkg}
  /\ Goto("install")
  /\ UNCHANGED <<now, mirror, list, installed, scratch, cmd>>

BuildFails == Step("build") /\ \E outcome \in {"threw", "error"} : Unwind(outcome)

InstallIt ==
  /\ Step("install")
  /\ installed' = [installed EXCEPT ![Top.pkg] = Top.src]
  /\ EndCall
  /\ UNCHANGED <<now, mirror, list>>

InstallFails == Step("install") /\ Unwind("threw")

User ==
  \/ Publish \/ Forget
  \/ \E p \in Packages : Uninstall(p) \/ Command("install", p) \/ Command("fetch", p)
  \/ Command("deps", Here)

Work ==
  \/ ChooseMirror \/ (\E l \in Names : Transfer(l))
  \/ NoLists \/ Unknown \/ Start \/ GetSources \/ NoSources \/ Archive
  \/ UninstallOld \/ Trace \/ NoConfig
  \/ (\E d \in Packages : AssertInstalled(d) \/ AssertUnknown(d))
  \/ DepsDone \/ BuildIt \/ BuildFails \/ InstallIt \/ InstallFails

Next == User \/ Work \/ Exit

Spec == Init /\ [][Next]_vars

\* A command that is running takes its next step.
FairSpec == Spec /\ WF_vars(Work)

\* Commands exit only where the code says so.
UndisturbedSpec == Init /\ [][User \/ Work]_vars

-----------------------------------------------------------------------------
(* Properties. *)

\* A package is never installed from within its own installation: packages
\* that import no one in a circle are each in the works at most once.
NeverNested ==
  \A i, j \in DOMAIN stack : i # j => stack[i].pkg # stack[j].pkg

\* However deep the installation of what a package needs goes, the sources the
\* package is built from are still there when it goes on.
SourcesStay ==
  \A i \in DOMAIN stack : stack[i].src # 0 => stack[i].src \in scratch[stack[i].pkg]

\* Only the package that was asked for is replaced: its dependencies are
\* installed if they are missing, and otherwise left as they are.
OthersKept ==
  [][Busy => \A p \in Packages \ {cmd.pkg} :
       installed[p] # 0 => installed'[p] = installed[p]]_vars

\* A build starts with all it imports installed, directly or through other
\* packages, but for what pkgs.list does not know.
DependenciesFirst ==
  \A i \in DOMAIN stack : stack[i].at \in {"build", "install"} =>
    \A d \in NotFound(stack[i].pkg) \ {stack[i].pkg} : ~Listed("pkgs", d)

\* If the command returns 0 everything the package imports is installed: after
\* net deps too, as far as pkgs.list knows it.
SuccessMeansInstalled ==
  cmd.state = "ok" =>
    /\ cmd.op = "install" => Have(cmd.pkg) /\ NotFound(cmd.pkg) = {}
    /\ cmd.op = "deps" => \A d \in NotFound(Here) : ~Listed("pkgs", d)

\* "make sure the directory gets removed": a command that has ended, in any
\* way but a signal, has left nothing in the scratch directories.  The code does
\* not keep this: see "Departures" in the README.
ScratchRemoved == ~Busy => \A p \in Packages : scratch[p] = {}

\* "make sure our sources list is up to date": when the work begins, what was
\* transferred is there whole.  The code does not keep this either.
ListsWhole == cmd.state = "run" => \A l \in Names : list[l].gen = now => list[l].whole

\* Every command ends.
CommandEnds == Busy ~> ~Busy

=============================================================================
