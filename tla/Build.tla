-------------------------------- MODULE Build --------------------------------
(***************************************************************************)
(* "dsss build", "install", "binstall", "clean" and "distclean" on a tree  *)
(* of project directories (sss/build.d, clean.d, install.d, and readConfig *)
(* of conf.d): which files they leave in the tree and under the prefix     *)
(* while the user edits sources and dsss.conf between them, and commands   *)
(* die.  GNU or Posix with shared library support and safe libraries; no   *)
(* hooks, documentation or --test.                                         *)
(***************************************************************************)
EXTENDS Naturals, Sequences, FiniteSets, SequencesExt

CONSTANTS
  Dirs, Root,    \* project directories; where the commands are given
  Sections,      \* sections of all their configurations
  Targets,       \* target names, different in different directories
  Home,          \* the directory of each section
  Type,          \* settings["type"]
  SubDir,        \* the directory a subdir section names
  Shared,        \* sections with a "shared" setting
  NoSource,      \* library sections without .d files
  OnlyDi,        \* those of them with .di files
  BadExtension,  \* binary sections that are neither .d nor .brf
  Confs,         \* contents that dsss.conf may have in each directory
  Default,       \* sections built if none is named, of each content
  Target,        \* settings["target"], of each content and section
  Requests,      \* the elements named on the command line
  Debugs,        \* values of --debug
  MaxEdition,    \* bound: the last edition of each section's sources
  Absent, Stub, NoConf

AllConfs == UNION {Confs[d] : d \in Dirs}

Kinds == {"lib", "dbg", "so", "ln", "bin"}

\* A library, a debug library, a shared library, its short name, a binary;
\* and the .di files of a library section.
Files == (Kinds \X Targets) \union ({"di"} \X Sections)

\* What a file was made from.
Content == [ed : Nat, dbg : BOOLEAN, of : Targets]

ASSUME ProjectAssumption ==
  /\ Root \in Dirs
  /\ Home \in [Sections -> Dirs]
  /\ Type \in [Sections -> {"library", "sourcelibrary", "binary", "special", "subdir"}]
  /\ SubDir \in [{s \in Sections : Type[s] = "subdir"} -> Dirs]
  /\ Shared \subseteq Sections /\ NoSource \subseteq Sections
  /\ OnlyDi \subseteq NoSource /\ BadExtension \subseteq Sections
  /\ NoConf \notin AllConfs
  /\ AllConfs \subseteq DOMAIN Default \intersect DOMAIN Target
  /\ \A c \in AllConfs : Default[c] \in Seq(Sections) /\ Target[c] \in [Sections -> Targets]
  /\ \A r \in Requests : r \in Seq(Sections)
  /\ Debugs \subseteq BOOLEAN
  /\ MaxEdition \in [Sections -> Nat \ {0}]
  /\ Absent \notin Content /\ Stub \notin Content /\ Absent # Stub

VARIABLES
  src,    \* the edition of each section's sources
  conf,   \* dsss.conf of each directory
  last,   \* dsss.last: the configuration of the last command, or NoConf
  newer,  \* dsss.conf is newer than dsss.last
  tree,   \* the files in the project's directories
  cut,    \* sections of whose .di files there a death in writing has left a part
  prefix, \* the files installed
  cmd,    \* the command that runs or ran last, and what came of it
  stack,  \* active calls of build(), install(), distclean(), outermost first
  todo    \* what the innermost has still to do for its current section

vars == <<src, conf, last, newer, tree, cut, prefix, cmd, stack, todo>>

userVars == <<src, conf>>

Steps == [where : {"tree", "prefix", "copy"}, file : Files, val : Content \union {Absent, Stub}]

Call(op, dir, req) == [op |-> op, dir |-> dir, conf |-> NoConf, req |-> req,
                       phase |-> "read", at |-> 1]

Calls == [op : {"build", "install", "distclean"}, dir : Dirs, conf : AllConfs \union {NoConf},
          req : Seq(Sections), at : Nat,
          phase : {"read", "imports", "stubs", "libs", "bins", "copy", "clean", "remove", "end"}]

TypeOK ==
  /\ \A s \in Sections : src[s] \in 1..MaxEdition[s]
  /\ \A d \in Dirs : conf[d] \in Confs[d] /\ last[d] \in Confs[d] \union {NoConf}
  /\ newer \in [Dirs -> BOOLEAN]
  /\ tree \in [Files -> Content \union {Absent, Stub}]
  /\ cut \subseteq Sections
  /\ prefix \in [Files -> Content \union {Absent, Stub}]
  /\ cmd.op \in {"none", "build", "install", "binstall", "distclean", "clean"}
  /\ cmd.state \in {"idle", "running", "ok", "error", "died"}
  /\ stack \in Seq(Calls) /\ (stack # <<>> <=> cmd.state = "running")
  /\ todo \in Seq(Steps)

NoCommand == [op |-> "none", req |-> <<>>, dbg |-> FALSE, state |-> "idle"]

Init ==
  /\ src = [s \in Sections |-> 1]
  /\ conf \in {f \in [Dirs -> AllConfs] : \A d \in Dirs : f[d] \in Confs[d]}
  /\ last = [d \in Dirs |-> NoConf]
  /\ newer = [d \in Dirs |-> FALSE]
  /\ tree = [f \in Files |-> Absent]
  /\ cut = {}
  /\ prefix = [f \in Files |-> Absent]
  /\ cmd = NoCommand
  /\ stack = <<>>
  /\ todo = <<>>

Running == cmd.state = "running"

Top == stack[Len(stack)]

\* The stack with its innermost call at another phase, or section.
At(phase, n) == [stack EXCEPT ![Len(stack)].phase = phase, ![Len(stack)].at = n]

-----------------------------------------------------------------------------
(* The user. *)

EditSource(s) ==
  /\ ~Running
  /\ src[s] < MaxEdition[s]
  /\ src' = [src EXCEPT ![s] = @ + 1]
  /\ cmd' = NoCommand
  /\ UNCHANGED <<conf, last, newer, tree, cut, prefix, stack, todo>>

EditConf(d, c) ==
  /\ ~Running
  /\ c # conf[d]
  /\ conf' = [conf EXCEPT ![d] = c]
  /\ newer' = [newer EXCEPT ![d] = last[d] # NoConf]
  /\ cmd' = NoCommand
  /\ UNCHANGED <<src, last, tree, cut, prefix, stack, todo>>

\* binstall is a build and then, if it returns 0, an install.
Give(op, req, dbg) ==
  /\ ~Running
  /\ cmd' = [op |-> op, req |-> req, dbg |-> dbg, state |-> "running"]
  /\ stack' = <<Call(IF op = "binstall" THEN "build" ELSE op, Root, req)>>
  /\ UNCHANGED <<userVars, last, newer, tree, cut, prefix, todo>>

\* A mutant of WithoutImports: clean leaves dsss_imports.
KeepImports(d) == tree

WithoutImports(d) ==
  [f \in Files |-> IF f[1] = "di" /\ Home[f[2]] = d THEN Absent ELSE tree[f]]

\* dsss clean reads no configuration and visits no subdirectory.
Clean ==
  /\ ~Running
  /\ tree' = WithoutImports(Root)
  /\ cut' = {s \in cut : tree'[<<"di", s>>] # Absent}
  /\ cmd' = [NoCommand EXCEPT !.op = "clean", !.state = "ok"]
  /\ UNCHANGED <<userVars, last, newer, prefix, stack, todo>>

-----------------------------------------------------------------------------
(* readConfig *)

\* "distclean if it's changed": distclean is given the configuration that
\* readConfig(null, false, configLBName) returns, and that call reads
\* configFName, whatever its third argument.
ConfigChanged ==
  /\ Running /\ Top.phase = "read"
  /\ last[Top.dir] # NoConf /\ newer[Top.dir]
  /\ stack' = Append(stack, [Call("distclean", Top.dir, <<>>) EXCEPT
                               !.conf = conf[Top.dir], !.phase = "clean"])
  /\ UNCHANGED <<userVars, last, newer, tree, cut, prefix, cmd, todo>>

FirstPhase(op) == CASE op = "build" -> "imports" [] op = "install" -> "copy"
                    [] op = "distclean" -> "clean"

\* std.file.copy gives dsss.last the date of dsss.conf.
ReadConfig ==
  /\ Running /\ Top.phase = "read"
  /\ ~(last[Top.dir] # NoConf /\ newer[Top.dir])
  /\ last' = [last EXCEPT ![Top.dir] = conf[Top.dir]]
  /\ newer' = [newer EXCEPT ![Top.dir] = FALSE]
  /\ stack' = [At(FirstPhase(Top.op), 1) EXCEPT ![Len(stack)].conf = conf[Top.dir]]
  /\ UNCHANGED <<userVars, tree, cut, prefix, cmd, todo>>

-----------------------------------------------------------------------------
(* The loops over sections.  Each plans what a section needs. *)

Put(where, file, val) == [where |-> where, file |-> file, val |-> val]

\* vSaySystemRDie of a compiler: the file is gone until the compiler ends.
Make(file, val) == <<Put("tree", file, Absent), Put("tree", file, val)>>

\* A mutant of ImportPlan: the dates are not compared.
ImportIfAbsent(s, t) ==
  IF /\ Type[s] = "library" /\ s \notin NoSource
     /\ tree[<<"di", s>>] = Absent
  THEN <<Put("tree", <<"di", s>>, [ed |-> src[s], dbg |-> cmd.dbg, of |-> t])>>
  ELSE <<>>

\* dsss_imports/<file>i, written if it is older than its source; its pragma
\* names the library, and the debug library if one is being built.  A command
\* that dies in writing it is DieWriting.  A source that was edited is newer
\* than the file: what is edited is saved in a later second than the file was
\* written in, for the test of dates is strict.
ImportPlan(s, t) ==
  IF /\ Type[s] = "library" /\ s \notin NoSource
     /\ tree[<<"di", s>>] = Absent \/ src[s] > tree[<<"di", s>>].ed
  THEN <<Put("tree", <<"di", s>>, [ed |-> src[s], dbg |-> cmd.dbg, of |-> t])>>
  ELSE <<>>

Link(t) == [ed |-> 0, dbg |-> FALSE, of |-> t]

\* The short names are linked to the stub, and only to the stub.
StubPlan(s, t) ==
  IF Type[s] = "library" /\ s \in Shared /\ tree[<<"so", t>>] = Absent
  THEN <<Put("tree", <<"so", t>>, Stub), Put("tree", <<"ln", t>>, Link(t))>>
  ELSE <<>>

\* buildLibrary(target, ...)
BuildLibrary(s, t, kind, val) ==
  Make(<<kind, t>>, val) \o IF s \in Shared THEN Make(<<"so", t>>, val) ELSE <<>>

LibraryPlan(s, t) ==
  IF Type[s] = "library" /\ s \notin NoSource
  THEN LET made(dbg) == [ed |-> src[s], dbg |-> dbg, of |-> t] IN
       (IF cmd.dbg THEN BuildLibrary(s, t, "dbg", made(TRUE)) ELSE <<>>)
         \o BuildLibrary(s, t, "lib", made(FALSE))
  ELSE <<>>

BinaryPlan(s, t) ==
  IF Type[s] = "binary"
  THEN <<Put("tree", <<"bin", t>>, [ed |-> src[s], dbg |-> cmd.dbg, of |-> t])>>
  ELSE <<>>

\* A mutant of Copies: what is installed is not copied again.
CopiesOfNew(files) ==
  LET new == SelectSeq(files, LAMBDA f : prefix[f] = Absent) IN
  [i \in DOMAIN new |-> Put("copy", new[i], Absent)]

Copies(files) == [i \in DOMAIN files |-> Put("copy", files[i], Absent)]

\* A mutant of InstallPlan: the imports before the library.
ImportsBeforeLibrary(s, t) ==
  CASE Type[s] = "library" -> Copies(<<<<"di", s>>, <<"lib", t>>>>)
    [] Type[s] = "binary" -> Copies(<<<<"bin", t>>>>)
    [] OTHER -> <<>>

\* install() counts .di files as sources, build() does not.
InstallPlan(s, t) ==
  CASE Type[s] = "library" /\ s \notin NoSource \ OnlyDi ->
         Copies(<<<<"lib", t>>>>)
           \o (IF cmd.dbg THEN Copies(<<<<"dbg", t>>>>) ELSE <<>>)
           \o (IF s \in Shared
               THEN Copies(<<<<"so", t>>>>) \o <<Put("prefix", <<"ln", t>>, Link(t))>>
               ELSE <<>>)
           \o Copies(<<<<"di", s>>>>)
    [] Type[s] = "binary" -> Copies(<<<<"bin", t>>>>)
    [] OTHER -> <<>>

\* A mutant of DistcleanPlan: the short names stay.
LinksStay(s, t) ==
  CASE Type[s] \in {"library", "sourcelibrary"} ->
         <<Put("tree", <<"lib", t>>, Absent), Put("tree", <<"so", t>>, Absent)>>
    [] Type[s] = "binary" -> <<Put("tree", <<"bin", t>>, Absent)>>
    [] OTHER -> <<>>

\* The debug library is not among them.
DistcleanPlan(s, t) ==
  CASE Type[s] \in {"library", "sourcelibrary"} ->
         <<Put("tree", <<"lib", t>>, Absent), Put("tree", <<"so", t>>, Absent),
           Put("tree", <<"ln", t>>, Absent)>>
    [] Type[s] = "binary" -> <<Put("tree", <<"bin", t>>, Absent)>>
    [] OTHER -> <<>>

Plan(phase, s, t) ==
  CASE phase = "imports" -> ImportPlan(s, t)
    [] phase = "stubs" -> StubPlan(s, t)
    [] phase = "libs" -> LibraryPlan(s, t)
    [] phase = "bins" -> BinaryPlan(s, t)
    [] phase = "copy" -> InstallPlan(s, t)
    [] phase = "remove" -> DistcleanPlan(s, t)

Loops == {"imports", "stubs", "libs", "bins", "copy", "remove"}

\* A mutant of Secs: imports and stubs of what was asked for only.
BuildSources(g) == IF g.req = <<>> THEN Default[g.conf] ELSE g.req

\* allSources, or buildSources
Secs(g) == IF g.req = <<>> \/ g.phase \in {"imports", "stubs"} THEN Default[g.conf] ELSE g.req

Looping == Running /\ todo = <<>> /\ Top.phase \in Loops

InLoop == Looping /\ Top.at <= Len(Secs(Top))

Current == Secs(Top)[Top.at]

\* A mutant of Recurses: only build visits subdirectories.
OnlyBuildRecurses == Type[Current] = "subdir" /\ Top.phase = "libs"

Recurses == Type[Current] = "subdir" /\ Top.phase \in {"libs", "copy", "remove"}

Refused == Top.phase = "bins" /\ Current \in BadExtension

\* A mutant of EnterSection: a "continue" that skips the increment.
SameSectionAgain ==
  /\ InLoop /\ ~Recurses /\ ~Refused
  /\ todo' = Plan(Top.phase, Current, Target[Top.conf][Current])
  /\ stack' = IF todo' = <<>> THEN stack ELSE At(Top.phase, Top.at + 1)
  /\ UNCHANGED <<userVars, last, newer, tree, cut, prefix, cmd>>

EnterSection ==
  /\ InLoop /\ ~Recurses /\ ~Refused
  /\ todo' = Plan(Top.phase, Current, Target[Top.conf][Current])
  /\ stack' = At(Top.phase, Top.at + 1)
  /\ UNCHANGED <<userVars, last, newer, tree, cut, prefix, cmd>>

\* chdir(build) and a call of the same function, for all of the directory.
EnterSubdir ==
  /\ InLoop /\ Recurses
  /\ stack' = Append(At(Top.phase, Top.at + 1), Call(Top.op, SubDir[Current], <<>>))
  /\ UNCHANGED <<userVars, last, newer, tree, cut, prefix, cmd, todo>>

NextPhase(phase) ==
  CASE phase = "imports" -> "stubs" [] phase = "stubs" -> "libs" [] phase = "libs" -> "bins"
    [] phase = "bins" -> "end" [] phase = "copy" -> "end" [] phase = "remove" -> "end"

EndLoop ==
  /\ Looping /\ Top.at > Len(Secs(Top))
  /\ stack' = At(NextPhase(Top.phase), 1)
  /\ UNCHANGED <<userVars, last, newer, tree, cut, prefix, cmd, todo>>

\* distclean begins with clean, and ends with the removal of dsss.last.
CleanFirst ==
  /\ Running /\ Top.phase = "clean"
  /\ tree' = WithoutImports(Top.dir)
  /\ cut' = {s \in cut : tree'[<<"di", s>>] # Absent}
  /\ stack' = At("remove", 1)
  /\ UNCHANGED <<userVars, last, newer, prefix, cmd, todo>>

PutFile ==
  /\ Running /\ todo # <<>>
  /\ LET step == Head(todo) IN
     \/ /\ step.where = "tree"
        /\ tree' = [tree EXCEPT ![step.file] = step.val]
        /\ cut' = {s \in cut : <<"di", s>> # step.file}
        /\ UNCHANGED prefix
     \/ /\ step.where = "prefix"
        /\ prefix' = [prefix EXCEPT ![step.file] = step.val]
        /\ UNCHANGED <<tree, cut>>
     \/ /\ step.where = "copy" /\ tree[step.file] # Absent
        /\ prefix' = [prefix EXCEPT ![step.file] = tree[step.file]]
        /\ UNCHANGED <<tree, cut>>
  /\ todo' = Tail(todo)
  /\ UNCHANGED <<userVars, last, newer, cmd, stack>>

\* Mutants of Return.  Installs whatever build returned.
InstallAnyway(ret) ==
  /\ last' = IF Top.op = "distclean" THEN [last EXCEPT ![Top.dir] = NoConf] ELSE last
  /\ LET then == Len(stack) = 1 /\ cmd.op = "binstall" /\ Top.op = "build" IN
     /\ stack' = IF then THEN <<Call("install", Root, cmd.req)>> ELSE Front(stack)
     /\ cmd' = IF Len(stack) > 1 \/ then THEN cmd
               ELSE [cmd EXCEPT !.state = IF ret = 0 THEN "ok" ELSE "error"]
  /\ UNCHANGED <<userVars, newer, tree, cut, prefix, todo>>

\* Answers when build has returned.
AnswerEarly(ret) ==
  /\ last' = IF Top.op = "distclean" THEN [last EXCEPT ![Top.dir] = NoConf] ELSE last
  /\ LET then == Len(stack) = 1 /\ cmd.op = "binstall" /\ Top.op = "build" /\ ret = 0 IN
     /\ stack' = IF then THEN <<Call("install", Root, cmd.req)>> ELSE Front(stack)
     /\ cmd' = IF Len(stack) > 1 THEN cmd
               ELSE [cmd EXCEPT !.state = IF ret = 0 THEN "ok" ELSE "error"]
  /\ UNCHANGED <<userVars, newer, tree, cut, prefix, todo>>

\* What a call that returns leaves: build() of a subdirectory may have
\* returned 1, and its caller does not look.
Return(ret) ==
  /\ last' = IF Top.op = "distclean" THEN [last EXCEPT ![Top.dir] = NoConf] ELSE last
  /\ LET then == Len(stack) = 1 /\ cmd.op = "binstall" /\ Top.op = "build" /\ ret = 0 IN
     /\ stack' = IF then THEN <<Call("install", Root, cmd.req)>> ELSE Front(stack)
     /\ cmd' = IF Len(stack) > 1 \/ then THEN cmd
               ELSE [cmd EXCEPT !.state = IF ret = 0 THEN "ok" ELSE "error"]
  /\ UNCHANGED <<userVars, newer, tree, cut, prefix, todo>>

Returns == Running /\ Top.phase = "end" /\ Return(0)

\* "I don't know how to build something with extension ..."
Refuse == InLoop /\ Refused /\ Return(1)

\* An exception nothing catches: a compiler, a hook or a cp that failed; or a
\* signal.
Die ==
  /\ Running
  /\ cmd' = [cmd EXCEPT !.state = "died"]
  /\ stack' = <<>> /\ todo' = <<>>
  /\ UNCHANGED <<userVars, last, newer, tree, cut, prefix>>

\* A death within std.file.write of an import file, on a full disk for one.  The
\* sources come before the pragma: what is left ends in the one or the other,
\* and is as new as if it were whole.  Tree has what it was being made from.
DieWriting ==
  /\ Running /\ todo # <<>>
  /\ LET step == Head(todo) IN
     /\ step.where = "tree" /\ step.file[1] = "di"
     /\ tree' = [tree EXCEPT ![step.file] = step.val]
     /\ cut' = cut \union {step.file[2]}
  /\ cmd' = [cmd EXCEPT !.state = "died"]
  /\ stack' = <<>> /\ todo' = <<>>
  /\ UNCHANGED <<userVars, last, newer, prefix>>

\* cp of a file that does not exist.
CopyFails == /\ Running /\ todo # <<>>
             /\ Head(todo).where = "copy" /\ tree[Head(todo).file] = Absent
             /\ Die

User ==
  \/ \E s \in Sections : EditSource(s)
  \/ \E d \in Dirs : \E c \in Confs[d] : EditConf(d, c)
  \/ \E op \in {"build", "install", "binstall"}, r \in Requests, b \in Debugs : Give(op, r, b)
  \/ Give("distclean", <<>>, FALSE)
  \/ Clean

Work ==
  \/ ConfigChanged \/ ReadConfig \/ EnterSection \/ EnterSubdir \/ EndLoop
  \/ CleanFirst \/ PutFile \/ Returns \/ Refuse \/ CopyFails

Next == User \/ Work \/ Die \/ DieWriting

Spec == Init /\ [][Next]_vars

\* A command that is running takes its next step.
FairSpec == Spec /\ WF_vars(Work)

\* Commands die only for want of a file.
UndisturbedSpec == Init /\ [][User \/ Work]_vars /\ WF_vars(Work)

\* A user who, after a command that failed, builds or cleans before anything
\* else.
CarefulSpec ==
  Init /\ [][Next /\ (cmd.state \in {"died", "error"} => cmd'.op \in {"build", "distclean"})]_vars

-----------------------------------------------------------------------------
(* Properties. *)

\* What is reached from a list of sections: the least set that has them and,
\* with a subdir section, what the dsss.conf of its directory lists.
ReachedFrom(list) ==
  {s \in Sections : \A S \in SUBSET Sections :
     /\ ToSet(list) \subseteq S
     /\ \A t \in S : Type[t] = "subdir" => ToSet(Default[conf[SubDir[t]]]) \subseteq S
     => s \in S}

Everything == ReachedFrom(Default[conf[Root]])

\* The sections the command is about.
Reached == IF cmd.req = <<>> THEN Everything ELSE ReachedFrom(cmd.req)

TargetOf(s) == Target[conf[Home[s]]][s]

Fresh(s) == [ed |-> src[s], dbg |-> FALSE, of |-> TargetOf(s)]

Built(s) == Type[s] = "library" /\ s \notin NoSource

\* The files of section s in fs are made from its sources as they are now,
\* under the target it has now; but for import files of which a death has left
\* a part, and the copies made of them.
UpToDate(fs, s) ==
  LET t == TargetOf(s) IN
  /\ Built(s) =>
       /\ fs[<<"lib", t>>] = Fresh(s)
       /\ s \in Shared => fs[<<"so", t>>] = Fresh(s)
       /\ s \notin cut =>
            /\ fs[<<"di", s>>] \in Content
            /\ fs[<<"di", s>>].ed = src[s] /\ fs[<<"di", s>>].of = t
  /\ Type[s] = "binary" => fs[<<"bin", t>>] \in Content /\ fs[<<"bin", t>>].ed = src[s]

\* Whenever something is linked, every shared library of the directory is
\* there, real or a stub, but for the one that is being made: however earlier
\* commands died, and whatever was removed.
StubsFirst ==
  Running /\ Top.op = "build" /\ Top.phase \in {"libs", "bins"} =>
    \A s \in {x \in ToSet(Default[Top.conf]) : Type[x] = "library" /\ x \in Shared} :
      LET so == <<"so", Target[Top.conf][s]>> IN
      tree[so] # Absent \/ (todo # <<>> /\ Head(todo).file = so)

\* If build returns 0 all that was asked for is up to date in the tree, in
\* subdirectories too, whatever was edited and whatever died before.  Import
\* files are excepted that a death has cut short while they were written and
\* whose sources were not edited after: ImportsAreWhole.
SuccessMeansBuilt ==
  cmd.state = "ok" /\ cmd.op \in {"build", "binstall"} => \A s \in Reached : UpToDate(tree, s)

\* If binstall returns 0 it is up to date under the prefix, with the same
\* exception.
SuccessMeansInstalled ==
  cmd.state = "ok" /\ cmd.op = "binstall" => \A s \in Reached : UpToDate(prefix, s)

\* If build returns 0 no import file is one that a death has cut short.  The
\* code does not keep this: such a file is newer than its source, which is all
\* that build looks at (see "Departures" in the README).
ImportsAreWhole ==
  cmd.state = "ok" /\ cmd.op \in {"build", "binstall"} => Reached \intersect cut = {}

\* A shared library that is installed is not a stub.  The code does not keep
\* this: see "Departures" in the README.
NoStubInstalled == \A t \in Targets : prefix[<<"so", t>>] # Stub

\* A program that imports an installed .di file finds what its pragma names,
\* in a release and in a debug build: at any moment of any command.
InstalledImportsLink ==
  \A s \in Sections :
    LET di == prefix[<<"di", s>>] IN
    di # Absent => /\ prefix[<<"lib", di.of>>] # Absent
                   /\ di.dbg => prefix[<<"dbg", di.of>>] # Absent

\* After distclean nothing that DSSS made is left.
DistcleanLeavesNothing ==
  cmd.state = "ok" /\ cmd.op = "distclean" =>
    /\ \A f \in Files : tree[f] = Absent
    /\ \A d \in Dirs : last[d] = NoConf

\* After a build of everything there are no files of a target that the
\* configuration has no more.
NoOldTargets ==
  cmd.state = "ok" /\ cmd.op = "build" /\ cmd.req = <<>> =>
    \A f \in Kinds \X Targets : tree[f] # Absent => \E s \in Everything : TargetOf(s) = f[2]

\* binstall never looks for a file that its own build has not made.
InstallFindsWhatWasBuilt ==
  Running /\ cmd.op = "binstall" /\ todo # <<>> /\ Head(todo).where = "copy" =>
    tree[Head(todo).file] # Absent

\* Every command ends.
CommandEnds == Running ~> ~Running

-----------------------------------------------------------------------------
(* What the theorems assume of a project. *)

\* Sections are built in the directory whose dsss.conf has them, and elements of
\* the command line are sections of the directory where the command is given.
InTheirPlaces ==
  /\ \A d \in Dirs : \A c \in Confs[d] : \A s \in ToSet(Default[c]) : Home[s] = d
  /\ \A r \in Requests : \A s \in ToSet(r) : Home[s] = Root

\* Files of different directories are different files.
TargetsApart ==
  \A s, t \in Sections : \A c \in Confs[Home[s]], e \in Confs[Home[t]] :
    Target[c][s] = Target[e][t] => Home[s] = Home[t]

\* No directory is below itself.
Nested(rank) ==
  /\ rank \in [Dirs -> Nat]
  /\ \A s \in Sections : Type[s] = "subdir" => rank[SubDir[s]] < rank[Home[s]]

\* Libraries of one directory have different targets, and so have binaries.
OwnTargets ==
  \A s, t \in Sections : \A c \in Confs[Home[s]] :
    /\ Home[s] = Home[t] /\ Target[c][s] = Target[c][t]
    /\ (Built(s) /\ Built(t)) \/ (Type[s] = "binary" /\ Type[t] = "binary")
    => s = t

\* Libraries that the command line may name are built if none is named.
AskedByDefault ==
  \A r \in Requests, c \in Confs[Root] : \A s \in ToSet(r) :
    Built(s) => s \in ToSet(Default[c])

\* Only the directory where the command is given has sections that are refused.
RefusedAtRoot == \A s \in BadExtension : Home[s] = Root

\* All commands are given --debug, or none.
OneMode == \A b, c \in Debugs : b = c

\* Whatever is edited, dsss.conf lists the same sections with the same targets.
SameFiles ==
  \A d \in Dirs : \A b, c \in Confs[d] :
    /\ ToSet(Default[b]) = ToSet(Default[c])
    /\ \A s \in ToSet(Default[c]) : Target[b][s] = Target[c][s]

\* What the command line may name is built if nothing is named, or refused.
NamedAreListed ==
  \A r \in Requests, c \in Confs[Root] : \A s \in ToSet(r) :
    s \in ToSet(Default[c]) \/ (Type[s] = "binary" /\ s \in BadExtension)

=============================================================================
