------------------------------- MODULE Install -------------------------------
(***************************************************************************)
(* "dsss install" and "dsss uninstall" (sss/install.d, sss/uninstall.d)    *)
(* and the file system they leave behind: the installed files and the      *)
(* manifest of each package, from which uninstall works.                   *)
(*                                                                         *)
(* One command runs at a time; it may die at any step (a copy that fails,  *)
(* a hook that throws, a killed process), and what it had only in memory   *)
(* is lost.  A file is identified with its installed path.                 *)
(***************************************************************************)
EXTENDS Naturals, Sequences, FiniteSets, SequencesExt

CONSTANTS
  Packages,       \* tool names: conf.settings[""]["name"]
  Files,          \* the absolute paths that commands may write or remove
  Sections,       \* sections of the dsss.conf files, subdirectories included
  Self,           \* a manifest's entry for the manifest file itself
  Absent,         \* disk[f] of a path with no file
  NoFile,         \* stands in manifest[p] for a manifest file not there
  NoInstall,      \* sections with a "noinstall" setting
  EmptyLib,       \* library sections with no source files
  Pre, Body, Post,\* files the preinstall hook, the section itself and the
                  \* postinstall hook of a section copy
  Sub,            \* sections of a subdir section's own dsss.conf, else <<>>
  Docs,           \* files in dsss_docs, of a package or of a subdir section
  Whole,          \* requests that install all of a release of a package
  Some,           \* requests that name only some of its sections
  Place,          \* where a file goes, relative to forcePrefix
  Lookalike,      \* the path a wrongly shortened entry names
  Undeletable     \* entries whose removal fails

ASSUME PackagesAssumption ==
  /\ Self \notin Files
  /\ Absent \notin Packages
  /\ NoFile \notin Files \union {Self}
  /\ Packages \intersect Sections = {}

ASSUME SectionsAssumption ==
  /\ NoInstall \subseteq Sections
  /\ EmptyLib \subseteq Sections
  /\ Pre \in [Sections -> SUBSET Files]
  /\ Body \in [Sections -> SUBSET Files]
  /\ Post \in [Sections -> SUBSET Files]
  /\ DOMAIN Sub = Sections
  /\ \A s \in Sections : Sub[s] \in Seq(Sections)
  /\ \A s \in Sections : Sub[s] # <<>> => Body[s] = {}
  /\ Docs \in [Packages \union Sections -> SUBSET Files]

ASSUME RequestsAssumption ==
  /\ DOMAIN Whole = Packages /\ DOMAIN Some = Packages
  /\ \A p \in Packages : \A r \in Whole[p] \union Some[p] : r \in Seq(Sections)

ASSUME PlacesAssumption ==
  /\ Place \in [Files -> {"under", "outside", "sibling", "relative"}]
  /\ Lookalike \in [Files -> Files]
  /\ Undeletable \subseteq Files \union {Self}

VARIABLES
  disk,     \* the package whose copy of each file is on disk, or Absent
  manifest, \* the entries of <prefix>/share/dsss/manifest/<p>.manifest
  cmd,      \* the command that is running
  pkg,      \* the package it is working on
  tools,    \* packages the uninstall command has still to remove
  stack,    \* the active calls of install(), outermost first
  phase,    \* how far the innermost call, or uninstall, has got
  todo,     \* files the current phase has still to copy or remove
  outcome   \* history: how the last command on each package ended

vars == <<disk, manifest, cmd, pkg, tools, stack, phase, todo, outcome>>

(***************************************************************************)
(* copyAndManifest and the install hook shorten a destination that starts  *)
(* with the characters of forcePrefix; uninstall puts forcePrefix before   *)
(* what is not absolute.  Under forcePrefix, or away from it, the two are  *)
(* inverse.  A sibling (/usr2 when forcePrefix is /usr) is shortened to    *)
(* another absolute path, and a hook's relative destination was relative   *)
(* to the working directory: both come back as a different path.           *)
(***************************************************************************)
RecordedAs(f) == IF Place[f] \in {"sibling", "relative"} THEN Lookalike[f] ELSE f

RecordedSet(F) == {RecordedAs(f) : f \in F}

Entries == Files \union {Self}

NoManifest == {NoFile}

Frame == [dir : Packages \union Sections, secs : Seq(Sections), at : Nat \ {0},
          mem : SUBSET Entries]

\* Mutant: the manifest does not begin with itself.
CallWithoutSelf(dir, secs) == [dir |-> dir, secs |-> secs, at |-> 1, mem |-> {}]

Call(dir, secs) == [dir |-> dir, secs |-> secs, at |-> 1, mem |-> {Self}]

Top == stack[Len(stack)]

Current == Top.secs[Top.at]

\* The stack with its innermost call replaced by g.
WithTop(g) == [stack EXCEPT ![Len(stack)] = g]

Remember(F) == [Top EXCEPT !.mem = @ \union RecordedSet(F)]

Skip(g) == [g EXCEPT !.at = @ + 1]

TypeOK ==
  /\ disk \in [Files -> Packages \union {Absent}]
  /\ manifest \in [Packages -> (SUBSET Entries) \union {NoManifest}]
  /\ cmd \in {"idle", "install", "uninstall"}
  /\ pkg \in Packages
  /\ tools \in Seq(Packages)
  /\ stack \in Seq(Frame)
  /\ phase \in {"enter", "pre", "body", "post", "save", "fill", "docs", "remove"}
  /\ todo \in SUBSET Entries
  /\ outcome \in [Packages -> {"none", "whole", "some", "broken", "halfremoved"}]

Init ==
  /\ disk = [f \in Files |-> Absent]
  /\ manifest = [p \in Packages |-> NoManifest]
  /\ cmd = "idle"
  /\ pkg \in Packages
  /\ tools = <<>>
  /\ stack = <<>>
  /\ phase = "enter"
  /\ todo = {}
  /\ outcome = [p \in Packages |-> "none"]

-----------------------------------------------------------------------------
(* dsss install *)

\* install(buildElems): read the configuration, start a manifest.
Install(p, request) ==
  /\ cmd = "idle"
  /\ cmd' = "install"
  /\ pkg' = p
  /\ stack' = <<Call(p, request)>>
  /\ phase' = "enter"
  /\ outcome' = [outcome EXCEPT ![p] = IF request \in Whole[p] THEN "whole" ELSE "some"]
  /\ UNCHANGED <<disk, manifest, tools, todo>>

Installing(ph) == cmd = "install" /\ phase = ph

InSection == Top.at <= Len(Top.secs)

\* Mutant: the loop does not move on.
SkipSectionStays ==
  /\ Installing("enter") /\ InSection
  /\ Current \in NoInstall
  /\ UNCHANGED vars

SkipSection ==
  /\ Installing("enter") /\ InSection
  /\ Current \in NoInstall
  /\ stack' = WithTop(Skip(Top))
  /\ UNCHANGED <<disk, manifest, cmd, pkg, tools, phase, todo, outcome>>

EnterSection ==
  /\ Installing("enter") /\ InSection
  /\ Current \notin NoInstall
  /\ phase' = "pre"
  /\ todo' = Pre[Current]
  /\ UNCHANGED <<disk, manifest, cmd, pkg, tools, stack, outcome>>

\* copyInFile; the section's own files are recorded one by one, a hook's
\* files only when the hook returns, the documentation never.
CopyFile(f) ==
  /\ cmd = "install"
  /\ phase \in {"pre", "body", "post", "docs"}
  /\ f \in todo
  /\ disk' = [disk EXCEPT ![f] = pkg]
  /\ todo' = todo \ {f}
  /\ stack' = IF phase = "body" THEN WithTop(Remember({f})) ELSE stack
  /\ UNCHANGED <<manifest, cmd, pkg, tools, phase, outcome>>

\* "continue": neither the postinstall hook nor the manifest is reached.
EndPreEmptyLib ==
  /\ Installing("pre") /\ todo = {}
  /\ Current \in EmptyLib
  /\ stack' = WithTop(Skip(Remember(Pre[Current])))
  /\ phase' = "enter"
  /\ UNCHANGED <<disk, manifest, cmd, pkg, tools, todo, outcome>>

\* A subdir section: install(null, null, pname, &manifest).
EndPreSubdir ==
  /\ Installing("pre") /\ todo = {}
  /\ Current \notin EmptyLib
  /\ Sub[Current] # <<>>
  /\ stack' = Append(WithTop(Remember(Pre[Current])), Call(Current, Sub[Current]))
  /\ phase' = "enter"
  /\ UNCHANGED <<disk, manifest, cmd, pkg, tools, todo, outcome>>

EndPre ==
  /\ Installing("pre") /\ todo = {}
  /\ Current \notin EmptyLib
  /\ Sub[Current] = <<>>
  /\ stack' = WithTop(Remember(Pre[Current]))
  /\ phase' = "body"
  /\ todo' = Body[Current]
  /\ UNCHANGED <<disk, manifest, cmd, pkg, tools, outcome>>

EndBody ==
  /\ Installing("body") /\ todo = {}
  /\ phase' = "post"
  /\ todo' = Post[Current]
  /\ UNCHANGED <<disk, manifest, cmd, pkg, tools, stack, outcome>>

\* Mutant: what the postinstall hook copied is not recorded.
EndPostForgets ==
  /\ Installing("post") /\ todo = {}
  /\ phase' = "save"
  /\ UNCHANGED <<disk, manifest, cmd, pkg, tools, stack, todo, outcome>>

EndPost ==
  /\ Installing("post") /\ todo = {}
  /\ stack' = WithTop(Remember(Post[Current]))
  /\ phase' = "save"
  /\ UNCHANGED <<disk, manifest, cmd, pkg, tools, todo, outcome>>

\* std.file.write truncates the file before it writes it.
TruncateManifest ==
  /\ Installing("save") /\ Len(stack) = 1
  /\ manifest' = [manifest EXCEPT ![pkg] = {}]
  /\ phase' = "fill"
  /\ UNCHANGED <<disk, cmd, pkg, tools, stack, todo, outcome>>

FillManifest ==
  /\ Installing("fill")
  /\ manifest' = [manifest EXCEPT ![pkg] = Top.mem]
  /\ stack' = WithTop(Skip(Top))
  /\ phase' = "enter"
  /\ UNCHANGED <<disk, cmd, pkg, tools, todo, outcome>>

\* Mutant: the parent does not get the manifest of its subdirectory.
MergeNothing ==
  /\ Installing("save") /\ Len(stack) > 1
  /\ stack' = WithTop(Skip(Top))
  /\ phase' = "enter"
  /\ UNCHANGED <<disk, manifest, cmd, pkg, tools, todo, outcome>>

\* (*subManifest) ~= manifest
MergeManifest ==
  /\ Installing("save") /\ Len(stack) > 1
  /\ stack' = [WithTop(Skip(Top)) EXCEPT ![Len(stack) - 1].mem = @ \union Top.mem]
  /\ phase' = "enter"
  /\ UNCHANGED <<disk, manifest, cmd, pkg, tools, todo, outcome>>

StartDocs ==
  /\ Installing("enter") /\ ~InSection
  /\ phase' = "docs"
  /\ todo' = Docs[Top.dir]
  /\ UNCHANGED <<disk, manifest, cmd, pkg, tools, stack, outcome>>

\* The recursive call returns to the subdir section that made it.
ReturnToParent ==
  /\ Installing("docs") /\ todo = {} /\ Len(stack) > 1
  /\ stack' = Front(stack)
  /\ phase' = "post"
  /\ todo' = LET up == stack[Len(stack) - 1] IN Post[up.secs[up.at]]
  /\ UNCHANGED <<disk, manifest, cmd, pkg, tools, outcome>>

EndInstall ==
  /\ Installing("docs") /\ todo = {} /\ Len(stack) = 1
  /\ cmd' = "idle"
  /\ stack' = <<>>
  /\ phase' = "enter"
  /\ UNCHANGED <<disk, manifest, pkg, tools, todo, outcome>>

-----------------------------------------------------------------------------
(* dsss uninstall *)

Uninstall(list) ==
  /\ cmd = "idle"
  /\ cmd' = "uninstall"
  /\ tools' = list
  /\ phase' = "enter"
  /\ UNCHANGED <<disk, manifest, pkg, stack, todo, outcome>>

EndUninstall ==
  /\ cmd = "uninstall" /\ phase = "enter"
  /\ tools = <<>>
  /\ cmd' = "idle"
  /\ UNCHANGED <<disk, manifest, pkg, tools, stack, phase, todo, outcome>>

\* No manifest: "Package is not installed", and the rest of the list is dropped.
NotInstalled ==
  /\ cmd = "uninstall" /\ phase = "enter"
  /\ tools # <<>> /\ manifest[Head(tools)] = NoManifest
  /\ cmd' = "idle"
  /\ tools' = <<>>
  /\ UNCHANGED <<disk, manifest, pkg, stack, phase, todo, outcome>>

\* Mutants: the test for the manifest is missing; another tool's is read.
ReadUntested ==
  /\ cmd = "uninstall" /\ phase = "enter"
  /\ tools # <<>>
  /\ pkg' = Head(tools)
  /\ todo' = manifest[Head(tools)]
  /\ phase' = "remove"
  /\ UNCHANGED <<disk, manifest, cmd, tools, stack, outcome>>

ReadLast ==
  /\ cmd = "uninstall" /\ phase = "enter"
  /\ tools # <<>> /\ manifest[Last(tools)] # NoManifest
  /\ pkg' = Head(tools)
  /\ todo' = manifest[Last(tools)]
  /\ phase' = "remove"
  /\ UNCHANGED <<disk, manifest, cmd, tools, stack, outcome>>

ReadManifest ==
  /\ cmd = "uninstall" /\ phase = "enter"
  /\ tools # <<>> /\ manifest[Head(tools)] # NoManifest
  /\ pkg' = Head(tools)
  /\ todo' = manifest[Head(tools)]
  /\ phase' = "remove"
  /\ UNCHANGED <<disk, manifest, cmd, tools, stack, outcome>>

\* The manifest's first entry is the manifest itself.
RemoveManifest ==
  /\ cmd = "uninstall" /\ phase = "remove"
  /\ Self \in todo
  /\ todo' = todo \ {Self}
  /\ manifest' = IF Self \in Undeletable THEN manifest
                 ELSE [manifest EXCEPT ![pkg] = NoManifest]
  /\ UNCHANGED <<disk, cmd, pkg, tools, stack, phase, outcome>>

\* Mutant: the manifest may be deleted after the files it lists.
RemoveFileFirst(f) ==
  /\ cmd = "uninstall" /\ phase = "remove"
  /\ f \in todo
  /\ todo' = todo \ {f}
  /\ disk' = IF f \in Undeletable THEN disk ELSE [disk EXCEPT ![f] = Absent]
  /\ UNCHANGED <<manifest, cmd, pkg, tools, stack, phase, outcome>>

\* tryRemove: a failure is ignored.
RemoveFile(f) ==
  /\ cmd = "uninstall" /\ phase = "remove"
  /\ f \in todo /\ Self \notin todo
  /\ todo' = todo \ {f}
  /\ disk' = IF f \in Undeletable THEN disk ELSE [disk EXCEPT ![f] = Absent]
  /\ UNCHANGED <<manifest, cmd, pkg, tools, stack, phase, outcome>>

NextTool ==
  /\ cmd = "uninstall" /\ phase = "remove" /\ todo = {}
  /\ tools' = Tail(tools)
  /\ phase' = "enter"
  /\ outcome' = [outcome EXCEPT ![pkg] = "none"]
  /\ UNCHANGED <<disk, manifest, cmd, pkg, stack, todo>>

-----------------------------------------------------------------------------
\* The process dies: an uncaught exception (a failed cp, an error hook), a
\* signal, a full disk.  Its memory is lost, the file system stays.
Die ==
  /\ cmd # "idle"
  /\ cmd' = "idle"
  /\ tools' = <<>> /\ stack' = <<>> /\ phase' = "enter" /\ todo' = {}
  /\ outcome' = [outcome EXCEPT ![pkg] = CASE cmd = "install" -> "broken"
                                           [] phase = "remove" -> "halfremoved"
                                           [] OTHER -> @]
  /\ UNCHANGED <<disk, manifest, pkg>>

Command ==
  \/ \E p \in Packages : \E r \in Whole[p] \union Some[p] : Install(p, r)
  \/ \E list \in UNION {[1..n -> Packages] : n \in 1..Cardinality(Packages)} :
        Uninstall(list)

InstallStep ==
  \/ SkipSection \/ EnterSection \/ (\E f \in Files : CopyFile(f))
  \/ EndPreEmptyLib \/ EndPreSubdir \/ EndPre \/ EndBody \/ EndPost
  \/ TruncateManifest \/ FillManifest \/ MergeManifest
  \/ StartDocs \/ ReturnToParent \/ EndInstall

UninstallStep ==
  \/ EndUninstall \/ NotInstalled \/ ReadManifest \/ RemoveManifest
  \/ (\E f \in Files : RemoveFile(f)) \/ NextTool

Undisturbed == Command \/ InstallStep \/ UninstallStep

Next == Undisturbed \/ Die

Spec == Init /\ [][Next]_vars

\* No command ever dies.
UndisturbedSpec == Init /\ [][Undisturbed]_vars /\ WF_vars(InstallStep \/ UninstallStep)

\* A command that is running takes its next step; nothing makes the user
\* give a command, and nothing makes a command die.
FairSpec == Spec /\ WF_vars(InstallStep \/ UninstallStep)

-----------------------------------------------------------------------------
(* Properties.  First the parts of a package that they speak of. *)

Idle(p) == cmd = "idle" \/ pkg # p

FilesOf(p) == {f \in Files : disk[f] = p}

\* A section that copies nothing but what its preinstall hook does.
Skipped == NoInstall \union EmptyLib

\* The sections that installing s reaches: s, the sections of its subdirectory,
\* and so on down.
Under(s) ==
  {t \in Sections : \A S \in SUBSET Sections :
     s \in S /\ (\A u \in S \ Skipped : ToSet(Sub[u]) \subseteq S) => t \in S}

\* What a section records itself.
Own(s) == RecordedSet(Pre[s] \union Body[s] \union Post[s])

\* What installing section s records by the time the manifest is saved after it.
\* Empty libraries are left out: the continue of EndPreEmptyLib passes the
\* saving by, and what their preinstall hook has copied is recorded in memory
\* only, until a later section of the same call is saved.
RecordedBy(s) == UNION {Own(t) : t \in Under(s) \ Skipped}

DocFiles == UNION {Docs[d] : d \in DOMAIN Docs}

\* Packages share no file and no section, nothing is shortened to another
\* path, and manifest files can be deleted.
Disjoint(own, sown) ==
  /\ own \in [Files -> Packages]
  /\ sown \in [Sections -> Packages]
  /\ \A s \in Sections : \A f \in Pre[s] \union Body[s] \union Post[s] \union Docs[s] :
        own[f] = sown[s]
  /\ \A s \in Sections : \A i \in DOMAIN Sub[s] : sown[Sub[s][i]] = sown[s]
  /\ \A p \in Packages : \A f \in Docs[p] : own[f] = p
  /\ \A p \in Packages : \A r \in Whole[p] \union Some[p] : \A i \in DOMAIN r :
        sown[r[i]] = p

WellPlaced ==
  /\ \E own \in [Files -> Packages], sown \in [Sections -> Packages] : Disjoint(own, sown)
  /\ \A f \in Files : RecordedAs(f) = f
  /\ Self \notin Undeletable

\* What installing section s, and not what is below it, may copy.
MayCopy(s) == Pre[s] \union IF s \in EmptyLib THEN {} ELSE Body[s] \union Post[s]

\* A request for the whole of a package installs at least one section, and the
\* manifest after it records what any section of the package may copy.
CompleteReleases(sown) ==
  \A p \in Packages : \A r \in Whole[p] :
    /\ \E i \in DOMAIN r : r[i] \notin Skipped
    /\ \A s \in Sections \ NoInstall : sown[s] = p =>
          MayCopy(s) \subseteq UNION {RecordedBy(r[i]) : i \in DOMAIN r}

\* As WellPlaced, with releases that are complete.
WellReleased ==
  /\ \E own \in [Files -> Packages], sown \in [Sections -> Packages] :
        Disjoint(own, sown) /\ CompleteReleases(sown)
  /\ WellPlaced

\* A manifest never lists a file that the package does not have on disk:
\* whatever install and uninstall have done, and wherever they died, what
\* uninstall would delete is the package's own.  It rests on the manifest's
\* being its own first entry, so that uninstall deletes it before the rest.
NoDanglingRecord ==
  \A p \in Packages : manifest[p] # NoManifest =>
    \A e \in manifest[p] \ {Self} : disk[e] = p

\* While a package is being installed, all that the sections already done
\* record, nested subdirectories included, is in the manifest on disk: dying in
\* section k orphans nothing of sections 1 to k-1.  The exception is the moment
\* within std.file.write at which the manifest is truncated: then it is only in
\* what is about to be written, and a death loses the record of them all.
SavedSectionsAreRecorded ==
  cmd = "install" =>
    \A i \in 1..(stack[1].at - 1) :
      RecordedBy(stack[1].secs[i]) \subseteq
        IF phase = "fill" THEN stack[1].mem ELSE manifest[pkg]

\* The same with no exception.  The code does not keep this: see "Departures"
\* in the README.
RecordedAtEveryMoment ==
  cmd = "install" =>
    \A i \in 1..(stack[1].at - 1) : RecordedBy(stack[1].secs[i]) \subseteq manifest[pkg]

\* When a section begins, and after the last, what the preinstall hooks of those
\* before it have copied is in the manifest on disk, an empty library's too.  The
\* code does not keep this either.
HooksAreRecorded ==
  Installing("pre") \/ Installing("docs") =>
    \A i \in 1..(stack[1].at - 1) :
      stack[1].secs[i] \notin NoInstall => RecordedSet(Pre[stack[1].secs[i]]) \subseteq manifest[pkg]

\* After an install of the whole package every file of its, but for its
\* documentation, is in the manifest, whatever was tried and failed before.
WholeInstallIsTracked ==
  \A p \in Packages : outcome[p] = "whole" /\ Idle(p) =>
    \A f \in FilesOf(p) : f \in manifest[p] \union DocFiles

\* Everything on disk is in some manifest, as README.technical says of DSSS.
EverythingIsTracked ==
  \A p \in Packages : Idle(p) =>
    \A f \in FilesOf(p) : manifest[p] # NoManifest /\ f \in manifest[p]

\* A step for one package leaves the files and the manifest of every other
\* package alone.
OthersUntouched ==
  [][\A p \in Packages : p # pkg' =>
        manifest'[p] = manifest[p] /\ \A f \in Files : disk[f] = p <=> disk'[f] = p]_vars

\* Uninstalling a package that was installed whole removes its manifest and
\* every file of its but the documentation and what cannot be deleted.
UninstallRemovesWhole ==
  [][\A p \in Packages : outcome[p] = "whole" /\ outcome'[p] = "none" =>
        /\ manifest'[p] = NoManifest
        /\ \A f \in Files : disk'[f] = p => f \in DocFiles \union Undeletable]_vars

\* Every command ends, however deep the subdirectories.
CommandEnds == cmd # "idle" ~> cmd = "idle"

=============================================================================
