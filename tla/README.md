# A TLA+ verification of DSSS and rebuild

DSSS, the D Shared Software System, builds, installs, removes and downloads D
software. The repository holds two programs:

* `dsss` (src/sss and src/hcf, about 4400 lines of D): a command-line program
  that reads a `dsss.conf`, runs one command, and exits. Between commands its
  state is in the file system: the tree of the project, the installation
  prefix, and the manifests from which `dsss uninstall` works.
* `rebuild` (src/rebuild, about 65000 lines of C++): the build tool that dsss
  runs for every library and binary. Nearly all of it is the vendored front end
  of DMD 2.019, used to find imports. What is rebuild's own is the grouping and
  dating of modules, the pool of compilation threads, response files and the
  link: about 1500 lines of mars.c, compile.c, response.c and link.c.

This directory models the parts whose behaviour depends on the order of steps,
on commands that die, or on threads. It states what should hold of them, checks
it with TLC on small instances and proves part of it with TLAPS for all sizes.

## 1. Inventory

Status: M modelled, P partly, - not modelled.

| Part | Source | State it keeps | Operations | Status |
|---|---|---|---|---|
| command line | sss/main.d | the command, its elements, flags, prefix | main: parse, getPrefix, dispatch | P |
| configuration | sss/conf.d | dsss.conf, dsss.last, settings by section | readConfig, sourcesByElems, targetToFiles, library names | P |
| hooks | sss/conf.d 885-1060 | settings, manifest entries | exec, install, installdir, set, add, warn, error | P |
| build | sss/build.d | imports, stubs, libraries, binaries in the tree | build, buildLibrary | P |
| clean, distclean | sss/clean.d | the same files, dsss.last | clean, distclean | P |
| install | sss/install.d | files under the prefix, manifest | install | M |
| uninstall, installed | sss/uninstall.d | the same | uninstall, installed | M |
| net | sss/net.d | the chosen mirror, two lists, scratch directories, what is installed | sync, deps, assert, fetch, install (depslist, list and search only print) | M |
| genconfig | sss/genconfig.d | writes dsss.conf once | genconfig | - |
| wrappers | sss/system.d, sss/platform.d | none | print and run a command | - |
| paths | hcf/path.d | none | canonPath, mkdirP, rmRecursive | P |
| processes | hcf/process.d, hcf/env.d | none | run, or throw if it failed | P |
| grouping, dating | rebuild/mars.c 1401-1683 | modules, groups, object times | which modules are compiled, together with which | M |
| compilation threads | rebuild/mars.c 1687-1868, compile.c, response.c | curcompile, errors, mutex, compile.rf, objects | compileThread, runCompile, systemResponse, join | M |
| link, clean, run | rebuild/link.c | the output file | runLINK, deleteExeFile, runProgram | P |
| rebuild configuration | rebuild/config.c | profile settings | a reader with includes | - |
| DMD front end | rebuild/*.c | syntax trees | vendored | - |
| utilities, Windows bindings | rebuild/util, bcd | none | vendored, generated | - |

**How they interact.** `main` calls one of build, clean, install, uninstall,
net... and exits with what it returned. Every function of that kind reads the
configuration itself, may call itself in a subdirectory (`chdir` and a nested
call), runs hooks and external programs, and lets an exception end the whole
program when one of these fails: nothing undoes what was done. They share
nothing but the file system. `build` runs rebuild, which starts `-j` threads
that share a mutex, two counters and the files they write. `net install` is a
loop of fetch, uninstall, build and install that calls itself for
dependencies.

**What is hard.**

* Death between any two steps, of build, install and uninstall, and what the
  next command makes of what was left: half a library, a stub without short
  names, a manifest that was truncated, a manifest that is gone.
* Records that must agree with files: the manifest with the prefix, dsss.last
  with the configuration that built the tree, an import file's pragma with the
  library it names.
* Recursion into subdirectories whose results must reach the caller: manifests
  merged level by level, return codes, the working directory.
* Threads of rebuild: a counter under a mutex, a counter that is not, and a
  response file that all threads share.

**What would make each part correct.**

* install, uninstall: a manifest lists only files its package has on disk
  (NoDanglingRecord); all that was installed is tracked, also when install
  dies halfway, but for the moment at which it rewrites the manifest
  (SavedSectionsAreRecorded, WholeInstallIsTracked, EverythingIsTracked); uninstall removes it all and
  nothing of another package (UninstallRemovesWhole, OthersUntouched); paths keep their meaning on the way
  into a manifest and back (PathsKeepTheirMeaning).
* build, clean: binstall finds what it built (InstallFindsWhatWasBuilt); success means up to date, in the tree and after binstall under
  the prefix, but for import files that a death has cut short
  (SuccessMeansBuilt, SuccessMeansInstalled); stubs before links
  (StubsFirst); no stub is ever installed (NoStubInstalled); installed imports
  name installed libraries (InstalledImportsLink); distclean and clean undo
  build (DistcleanLeavesNothing, NoOldTargets).
* threads: each group once (CompiledAtMostOnce), no failure lost
  (FailureIsSeen), only new objects linked (LinksOnlyNewObjects), the end is
  reached (ProgramEnds), and in one sentence ImplementsJobs.
* net: what a package imports is installed before it is built
  (DependenciesFirst, SuccessMeansInstalled), a package is never installed from
  within its own installation (NeverNested, SourcesStay), only the package that
  was asked for is replaced (OthersKept), and commands end (CommandEnds).
* configuration: braces are counted to what nested blocks mean (ReadsLikeBlocks,
  ClosedFilesAreRead); the defaults of `*` never win over a section's own
  settings (OwnSettingsWin); `add` appends (AddAppends).
* grouping and dating: whatever was compiled, renamed or left half done by
  earlier builds, a build that succeeds leaves a program of the present sources
  (ProgramIsCurrent).

## 2. Plan

| # | Module | Subject | State |
|---|---|---|---|
| 1 | Install | install.d, uninstall.d, manifests | done, proofs in InstallProofs |
| 2 | CompileJobs, CompilePool | what the threads of rebuild promise; the threads | done, proofs and refinement in CompilePoolProofs |
| 3 | Build | build.d, clean.d, readConfig with dsss.last | done, proofs in BuildProofs, BuildSuccessProofs and BuildCleanProofs |
| 4 | Conf | the reader of dsss.conf against nested blocks; hooks that set and add settings | done, proofs in ConfProofs |
| 5 | Net | net.d: lists, deps, assert, recursive install | done, proofs in NetProofs |
| 6 | Incremental | mars.c 1401-1683: which modules are compiled and in which groups; compilation and renames; runLINK's test of dates | done, proofs in IncrementalProofs |
| 7 | Paths | canonPath and the shortening and lengthening of manifest entries, on sequences of path elements | done, evaluated by the runs of MCInstall, entries proved in InstallProofs |

The order follows the damage a fault would do: losing track of, or deleting,
what users have installed; then linking wrong objects; then building wrong
ones. Net comes after what it composes. All modules that will be proved about
use recursive functions, never RECURSIVE operators.

Abstract specifications: CompileJobs (done); for Net the set of packages and
their dependency order, which NeverNested and DependenciesFirst state as
invariants; for Install a map from packages to sets of files, of
which disk and manifests are the implementation.

## 3. Install: manifests and files

| In the module | In the code |
|---|---|
| `disk[f]` | whose copy of the file is at path f; `Absent` if there is none |
| `manifest[p]` | the entries of share/dsss/manifest/p.manifest; `NoFile` if there is no such file |
| `stack` | the nested calls of install(): sections, the index `at` in the foreach, the array `manifest` in memory (`mem`) |
| `phase`, `todo` | where the innermost call is, and the files it has still to copy (or uninstall to remove) |
| `cmd`, `pkg`, `tools` | the command, the package it works on, the rest of uninstall's list |
| `outcome` | history only: how the last command on each package ended |

`Install` starts a command; `SkipSection` is the noinstall `continue`,
`EnterSection` the preinstall hook, `EndPreEmptyLib` the `continue` for a
library without sources, `EndPreSubdir` and `ReturnToParent` the nested call
and the merge of its manifest, `CopyFile` one copyAndManifest, `TruncateManifest`
and `FillManifest` the two halves of std.file.write, `MergeManifest` the
subManifest branch, `StartDocs` and the last copies the documentation. Uninstall
is `NotInstalled`, `ReadManifest`, `RemoveManifest`, `RemoveFile`, `NextTool`.
`Die` may happen at any step: a cp or hook that fails throws, nothing catches it
(hcf/process.d 268-298), and what was in memory is lost. After each section
that is not an empty library the manifest on disk is brought up to date, so that
such a death orphans no more than the files of one section; except where it
falls between TruncateManifest and FillManifest, which leaves an empty manifest
and orphans everything. SavedSectionsAreRecorded therefore looks, in that
moment, at what is about to be written, and the departures of section 9 have the
statement without that exception.

A file is identified with its path. Which files a section copies is a constant:
targetToFiles and the platform branches decide names, not order. `RecordedAs`
stands for the shortening of paths by forcePrefix, on install, and its inverse,
on uninstall; where a path has only the same first characters as the prefix the
two are not inverse, and `Place` says which files are so placed.

`Paths` is what happens to the paths themselves: `canonPath` as the chain of
its loops, on the elements between the separators, and `Entry` and `EntryPath`,
the shortening and its inverse. `CutUps` is a fold because the loop goes back,
after each cut, to the separator before it: what it has passed is `kept`.
PathsKeepTheirMeaning, which has no state and is an ASSUME of MCInstall that
TLC evaluates, compares them with `Meaning`, the way down from the root
or from the working directory, over every path of up to six elements of which
each is empty, a name, a hidden name, one dot or two (19530 paths), and over
every pair of absolute paths of up to four as prefix and destination. canonPath
is not idempotent, as it drops `.` after it has looked for `..`: `x/a/./..`
becomes `x/a/..`, and only then `x`.

## 4. CompileJobs and CompilePool: the threads of rebuild

`CompileJobs` is what a user may expect of a compilation: each job is tried
once, and what is linked is complete and without errors; if any failed, the
program gives up, after all have been tried. It may also die where it is, when a
response file cannot be written (`Die`). `CompilePool` is the code: each
thread has a program counter over the statements of compileThread that touch
shared state (lock, test, take, bump, unlock), runCompile (write, run, remove,
and the load and store of the unlocked `global.errors++`), the renaming of
objects, and the main program that joins the threads, tests errors and links.

| In the module | In the code |
|---|---|
| `curcompile`, `mutex` | the globals of mars.c |
| `errors`, `reg` | global.errors, and what a thread loaded of it in `errors++` |
| `rf` | whose arguments the file compile.rf holds |
| `obj` | the objects of each group on disk: old, compiled under the name the compiler chose, renamed |
| `failed`, `attempts` | history, for the properties |

`At` requires `main = "join"`: the process, threads included, is gone once the
main program leaves. The refinement (`J == INSTANCE CompileJobs`) maps `made`
to the groups whose objects are new, `failed` to itself, and `result` to the
main program's progress.

## 5. Build: build, clean, distclean, and dsss.last

| In the module | In the code |
|---|---|
| `src[s]` | the edition of a section's sources; larger is newer |
| `conf`, `last`, `newer` | dsss.conf and dsss.last of each directory, and fileNewer of the two |
| `tree`, `prefix` | the files in the project and under the prefix, each with what it was made from: edition, debug or not, target |
| `cut` | the sections with an import file in the tree that a death has cut short |
| `cmd` | the command, its elements, --debug, and what became of it |
| `stack` | nested calls of build, install and distclean, each with its directory, configuration, loop (`phase`) and index (`at`) |
| `todo` | the file operations left for the current section |

Every command is a stack of calls; a call reads the configuration
(`ConfigChanged`, `ReadConfig`) and runs its loops over sections: build has
imports, stubs, libraries and binaries (comments 1 to 4 of build.d), install and
distclean have one. `EnterSection` plans what the loop's body does with one
section, as a sequence of single writes, removals and copies which `PutFile`
carries out one at a time, so that `Die` may fall between any two:
`ImportPlan`, `StubPlan`, `LibraryPlan` with `BuildLibrary`, `BinaryPlan`,
`InstallPlan`, `DistcleanPlan`. `EnterSubdir` is the nested call. `Refuse` is
the `return 1` for an unknown extension, `Return` what the caller makes of it.

Import files are the one kind that build leaves as it finds it, if it is newer
than its source. They are written by std.file.write, in the tree, so that a
death within that call matters (`DieWriting`): it leaves a file that is new and
not whole. `cut` has the sections of which there is such a file, until it is
removed or written anew, and SuccessMeansBuilt and SuccessMeansInstalled except
the import files of these; that build takes them for good is a departure. All
else is written by compilers, `ln` and `cp`, which the model takes to make a file
or not: libraries, binaries and copies are made anew by the next command in any case,
and of a stub it is only looked at whether it exists. That an edited source is
newer than its import file means that it is saved in a later second than the
file was written in (conf.d 1230-1235 compares dates strictly).

Install appears in both modules, on purpose: module Install has the manifest
and arbitrary files, Build has only the file copies, with their contents and
their order.

Left out of Build: hooks, documentation, `--test`, `--config`, `noinstall`,
Windows, and targets without shared libraries. A sourcelibrary is only
visited: what install copies of it are sources, which are not files of the
model. Objects are not files either; that rebuild compiles what is out of date
is assumed, and is the subject of Incremental.

## 6. Conf: the reader of dsss.conf, and hooks that change settings

| In the module | In the code |
|---|---|
| `count`, `again` | how many lines tokLine has returned; the rest of a `} else` line that closeScope puts back |
| `conf` | `section`, `sections` and `settings` of readConfig |
| `skip` | the depth and `ignoreElse` of closeScope; of depth 0 when readConfig itself reads |
| `mode`, `hooks` | whether the file is read, or refused; how many hook commands have been given |
| `command` | the set or add command that runs: `setting`, `cmd` and what is left of `useSections` |
| `meant` | history: what the lines read so far mean by their blocks |

The file is not a constant: `Line` adds any line of `Lines`, so that all files
are read side by side, and every state is that of a file read so far. `Read`
obeys one line (`Says`), `Skip` is closeScope's loop over one line, `EndOfFile`
the check for an open scope and the loop that gives every section the settings
of `*` (`Globals`). `Assign` parses a command set or add of dsssScriptedStep,
and `AssignNext` is one turn of its loop over sections. `Means` is the
reference: it keeps a stack of blocks, each taken or not, and knows nothing of
braces being counted. It takes every new line as it is read, into `meant`.

## 7. Net: lists, and packages that install what they import

| In the module | In the code |
|---|---|
| `now` | what upstream publishes, in generations |
| `mirror`, `list` | the files mirror, source.list and pkgs.list: of which generation, and whole or cut short |
| `installed` | the generation of each package that has a manifest under the prefix |
| `scratch` | the generations unpacked in a package's scratch directory |
| `cmd` | the command, whether -z dates apply to it, and how it ended |
| `stack` | nested calls of net(): package, place in the code (`at`), dependencies still to assert, the generation to be built |

`ChooseMirror` and `Transfer` are the synchronization, `Start`, `NoLists` and
`Unknown` the tests before the work. A call goes through `GetSources`,
`UninstallOld`, `Trace` (sourceToDeps), `AssertInstalled` for each dependency,
which is the nested call, `DepsDone`, `BuildIt` and `InstallIt`; fetch ends in
`Archive`. `Unwind` is a return value or an exception that passes through all
calls, each of which removes its scratch directory in its scope(exit); `Exit` is
exit() or a signal, which removes nothing.

`NotFound` is what rebuild -notfound prints: imports are followed through
packages that are installed, and stop at those that are not. What build,
install and uninstall do in detail is in Build and Install; here each is one
step that works or fails.

## 8. Incremental: which modules are compiled and linked again

| In the module | In the code |
|---|---|
| `edition`, `saved` | each source, and its date in whole seconds |
| `obj` | objects under the full names of their modules (-oq) |
| `plain` | objects under the last part of the name, as compilers write them, and as -od keeps them |
| `exe` | the program: which objects, of which sources, and its date |
| `phase`, `todo`, `cur` | the loop over cmodules, the loop of compileThread, the renames, and where they are |
| `groups` | GroupedCompiles: the names that are taken, and the modules to compile |
| `read` | the sources as the running compiler has read them |
| `touched` | history: sources that were last saved while a build was running |

`Sort` is one turn of the loop over cmodules: the group (`Free`), the test of
dates (`UpToDate` over `Reach`, which is modsToTest) and the entry (`Add`). Each
group is then `CompilerReads`, then `CompilerWrites` or `CompilerFails`, and a
`Rename` per module; `Link` is runLINK with its own test (`MustLink`). The user
saves a source at any moment (`Edit`), seconds pass at any moment (`Tick`), a
build may die anywhere (`Die`), also between the remove and the rename of an
object, and the next one finds what was left.

Left out: documentation and reflection objects, libraries that only contain
what changed, and compilers and linkers that leave half an object or
half a program. The threads are in
CompilePool; here groups are compiled one after the other.

## 9. The runs

All are run with two workers; each ends within two minutes. Deadlock is not
checked: nothing makes a user give another command, and the threads end.

### Passing runs

| Run | Instance | Shows |
|---|---|---|
| install | two packages, six sections with one subdirectory level, hooks outside the prefix, a section not installed, an empty library, a file that cannot be deleted; whole and partial requests; deaths anywhere | TypeOK, NoDanglingRecord, SavedSectionsAreRecorded (with its exception while the manifest is truncated), WholeInstallIsTracked, OthersUntouched, UninstallRemovesWhole, CommandEnds; and, as an assumption evaluated first, PathsKeepTheirMeaning |
| pool | 3 threads, 5 groups of which 2 empty, compilers that fail | TypeOK, CompiledAtMostOnce, LinksOnlyNewObjects, FailureIsSeen, ImplementsJobs, ProgramEnds |
| pool_alone | 1 thread, 7 groups of up to 2 modules, response files | LinksOnlyNewObjects, FailureIsSeen, ImplementsJobs |
| build | two shared libraries, one without sources, and a binary that is refused; edits, also of the order in dsss.conf; requests for all or one; deaths anywhere, also within the writing of an import file | TypeOK, StubsFirst, SuccessMeansBuilt and SuccessMeansInstalled (with their exception for import files cut short), InstalledImportsLink, DistcleanLeavesNothing, InstallFindsWhatWasBuilt |
| build_confs | a library, a binary and a subdirectory with a library; two contents of dsss.conf that name the library differently; deaths anywhere, as in build | SuccessMeansBuilt and SuccessMeansInstalled (as in build), InstalledImportsLink, CommandEnds |
| net | a chain of three packages, the first of which also imports what it generates and requires the last, and a project that needs two of them; lists cut short, mirrors that fail, two generations; signals anywhere | TypeOK, NeverNested, SourcesStay, DependenciesFirst, SuccessMeansInstalled, OthersKept, CommandEnds |
| conf | every dsss.conf of up to six of twelve lines: sections, `*`, settings, version blocks that hold and do not, every kind of `} else` | TypeOK, ReadsLikeBlocks, ClosedFilesAreRead, OwnSettingsWin |
| incremental | four modules, two of them with objects of one name, that import each other and an ignored one; -oq and -od, -full and not; an edit; failures and deaths anywhere | TypeOK, ProgramIsCurrent |

### Runs that end in a violation

Each checks one property that a document or comment promises, and shows how the
code departs from it. PROJECT.json quotes the lines.

| Run | What happens |
|---|---|
| install_some | `dsss install a`, later `dsss install b`: the manifest is overwritten, a's files are orphans |
| pool_response | two threads and one compile.rf: one compiles the other's group, its own not at all, and old objects are linked without an error |
| build_old_targets | the distclean of a changed dsss.conf reads the new one, so files under the old target names stay |
| conf_add | a hook's `add *:flags x`: each section gets the values of the sections before it as well |

### Departures

Other instances of the same modules show more departures, which have no run of
their own. Each line names the property, the specification and the constants
that show it; all else is as in the cfg that is named. MCInstall, MCBuild and
MCConf end with an ASSUME of what the theorems assume, so that TLC evaluates it
for the instances of the runs; for an instance that departs from it, as several
of these do, that ASSUME has to go.

| Property | Instance | What happens |
|---|---|---|
| Install: OthersUntouched | MCInstall.cfg, UndisturbedSpec, `Place` of conf "sibling" | prefix /usr, a hook that installs to /usr2: the entry is shortened to another path, which uninstall removes |
| Paths: EntriesComeBack | without its first disjunct | `--prefix=/usr --bindir=/usr/`, or `/usr//bin`: only --prefix is made canonical, so the entry begins with a separator and names a file at the root, which uninstall takes for the installed one |
| Install: EverythingIsTracked | MCInstall.cfg, UndisturbedSpec | documentation is copied and not recorded |
| Install: WholeInstallIsTracked | `Whole` ending in an element of `EmptyLib` | an empty library whose section is the last loses its hook's entries |
| Install: RecordedAtEveryMoment | MCInstall.cfg | install dies after it has truncated the manifest and before it has written it: the manifest is empty, and the files of the sections before are orphans |
| Install: HooksAreRecorded | MCInstall.cfg | the preinstall hook of an empty library has copied its files, and the `continue` passes by the writing of the manifest: until a later section writes it they are not recorded |
| Build: ImportsAreWhole | MCBuild.cfg | a build dies within the writing of an import file; what is left is newer than the source, and the next build keeps it and returns 0 |
| Build: NoStubInstalled | MCBuildOldTargets.cfg, CarefulSpec, OneConf, WholeOrPart | a compiler dies after the shared library was removed; `dsss build` of another section puts a stub there and succeeds, and install installs the stub |
| Build: InstalledImportsLink | the same, UndisturbedSpec, `Debugs = {TRUE, FALSE}` | `build --debug`, `install`: installed imports name a library that is not installed |
| Build: DistcleanLeavesNothing | the same, `Debugs = {TRUE}` | debug libraries survive distclean |
| Build: SuccessMeansBuilt | the same, `Home` of y "sub" and y among the defaults of sub | the return code of a subdirectory's build is dropped |
| Build: InstallFindsWhatWasBuilt | MCBuild.cfg with `OnlyDi`, or a request for a section not in `Default` | install copies imports that build has not made |
| Net: NeverNested | MCNet.cfg with `Uses <- Circle` | packages that need each other install each other without end, in one scratch directory |
| Net: ScratchRemoved | MCNet.cfg, UndisturbedSpec | exit() three calls down leaves the scratch directory, and the next install may build the older sources in it |
| Net: ListsWhole | the same | half a list is as new as its download, and `curl -z` does not ask again |
| Incremental: ObjdirIsUsed | MCIncremental.cfg | -od and one module to compile: newonames.data[0] of an empty Array (mars.c 1828) |

Met while modelling, without a property:

* conf.d: a later header `[]` empties the settings of the top level; a header
  that is repeated is listed twice and begins anew; a comment or a continued
  line in a skipped block that ends in `{` deepens it; lines are not joined at
  their backslash in closeScope; `} else x = y` after a block that was taken
  skips to a `}` that is not there; a section without any setting has a null
  table, and does not get those of `*`; `set x=y` without a section sets the top
  level, where docs/README.software_engineers speaks of the current one.
* build.d 248: flags are copied before the prebuild hook that may set them.
* build.d 100: a source that is saved in the same second as its import file was
  written in is not newer (conf.d 1230-1235), so the import stays as it was.
* build.d 184: a stub whose `ln` was interrupted never gets its short names.
* net.d 323: the old version is uninstalled before the build of the new one,
  which may fail.
* mars.c 1850: after a build that died before its renames, a group whose
  compiler fails renames what was left to modules of its own; the linker then
  refuses until the object is made again.
* link.c 231: a program is done if it is newer than its objects, also one that a
  linker has left half written.
* mars.c 1625: a source saved after the compiler has read it and before the
  object is written is older than its object (`touched`).

### Bounds, and why they are enough

* *Packages, sections.* Two packages are enough for one to harm the other. The
  sections of the instances are one of each kind the code tells apart, plus one
  that nests, because a subdirectory inside a subdirectory runs the same code
  on one more call.
* *Threads and groups.* The race for the last group and a lost increment need
  two threads; the third can hold the mutex meanwhile. Five groups, two of them
  empty, let each of three threads compile one, meet an empty group first and
  last but one, and find none left. CompilePoolProofs removes the bound.
* *Editions* (`MaxEdition`): one edit of the sources. Only "older" and "not
  older" are ever compared, and after a successful build the history before it
  does not matter.
* *Configurations* (`Confs`): two contents of one directory's dsss.conf, edited
  any number of times: with another name for a library (build_confs) or the
  same sections in another order (build).
* *Generations* (`MaxGen`): two, so that lists, sources left behind and what is
  installed can each be older than upstream. Three packages make a chain of
  nested calls three deep, with one dependency that two packages share.
* *Lines* (`MaxLines`): six, enough for two nested blocks with else, each with
  a line inside, or a block closed, taken up and nested once more. The bound
  `MaxHooks` is one command, as the second starts from a state like the first's.
  The constraint `Bounds` stops at files in which a `}` closes nothing, of which
  no property speaks, and lets hooks run after files of three lines.
* *Seconds and edits* (`MaxTime`, `MaxEdit`): sources are from second 1, and
  what happens is in seconds 2 and 3; one edit, of the module that all others
  import, one of them only through another. An edit in the same second as an
  object, before it, and after it are all there. IncrementalProofs removes
  the bounds.
* Nothing else is bounded: commands may be given any number of times, and the
  state spaces are finite by themselves. `attempts` and `errors` are bounded by
  the number of groups.

### Fairness

FairSpec of Install, Build and Net: a command that runs takes its next step. It is a
sequential program, so the only assumption is that hooks, compilers, curl and cp end.
Nothing makes a user give a command, and no command has to die. FairSpec of
CompilePool: every thread takes its next step if it can continuously, and so
does the main program; this is what a scheduler of threads does, and it needs
no more than weak fairness for the mutex because a thread that waits for it is
overtaken at most once per group.

Two more specifications restrict what happens for the departures, so that they
blame no one but the code: in UndisturbedSpec no command dies, but of a cp that
finds no file (Net: nor exits, but where the code does); in CarefulSpec of Build the user who has seen a command
fail builds or cleans before anything else.

### What each property could miss

For each property of a passing run PROJECT.json names a mutant of the model, a
slip that someone could make in that code, under which the property fails: a
manifest without its own entry, a merge that forgets, a mutex that is not
released, an import that is not dated, a `continue` that skips the increment,
a `<=` for `<` between dates, a package that is told to install itself.
The mutants stand in the modules, each before the definition it replaces.

## 10. The proofs

**InstallProofs** (from Install's assumptions: the types of its constants).

* `TypeCorrect`: Spec => []TypeInv. TypeInv is TypeOK and `Progress`, which ties
  the phase, the stack and the file list together; without it TypeOK is not
  inductive, as Top of an empty stack has no type.
* `ManifestsTruthful`: WellPlaced => (Spec => []NoDanglingRecord), for any
  packages, sections, nesting and files. WellPlaced says that packages share no
  file and no section, that entries are read back as the paths they stand for,
  and that manifests can be deleted; the violation runs show what happens
  without the second. The inductive invariant `Safe` says that every call on
  the stack works for the same package and remembers only files of it that are
  already on disk (`CallsSound`), that what a hook has just copied is there
  (`HookCopied`), that files on disk and files still to do belong to the right
  package (`DiskOwned`, `TodoOwned`), that a manifest on disk begins with itself
  (`SelfRecorded`, `SelfFirst`), and NoDanglingRecord. The argument for
  uninstall is the point of the design: the manifest is deleted before any
  other file, so there is no state with a manifest and without a file of it.
* `OthersSafe`: WellPlaced => (Spec => OthersUntouched), from the same
  invariant.

The other half of InstallProofs is that manifests list enough.

* `DoneSectionsSaved`: Spec => []SavedSectionsAreRecorded, for any nesting; with
  its exception between truncation and writing, where it speaks of what is about
  to be written, and of what empty libraries' hooks copy it does not speak.
  SectionsAssumption has it that a subdir section copies no body of its own, as
  the code's branches exclude each other. The invariant `Recording` follows an
  entry on its way: of each call on the stack, what the sections it has finished
  record is in its caller's manifest in memory (`CallsTracked`), what the
  sections of the outermost have recorded is in the manifest on disk
  (`SectionsSaved`), and what the innermost call has copied of its present
  section it has also remembered (`Stage`). What a section records with all its
  subdirectories (`RecordedBy`) is the least set of sections closed under
  nesting, which needs no induction.
* `WholeTracked`, `WholeRemoved`: under `WellReleased`, which adds to
  WellPlaced that a release is installed by requests that name every section
  and have one that records (the departures show what an empty library at the
  end does). `Tracking` says that a file on disk is documentation or was copied
  by a section of its package, that a package installed whole has a manifest
  that accounts for a release, and that, while it is removed, the list in memory
  still has what is left.

* `EntriesStandForPaths`: of Paths, and the reason why Install may identify a
  file with its path. An entry made by install is read back by uninstall as the
  path that was copied to, if and only if the directory is not the prefix with a
  second separator after it: the departure that section 9 describes is the only
  one. It holds for paths of any length, and `CopiesComeBack` states it of what
  canonPath makes of --prefix (EntriesComeBack).

**CompilePoolProofs** (from PoolAssumption: some finite set of threads, any
number of groups).

* `PoolTypes`, `PoolCompilesOnce`: from PoolInv: whoever is between lock and
  unlock holds the mutex (`MutexInv`); a busy thread's group is below
  curcompile (`ClaimInv`); two busy threads have different groups
  (`DistinctInv`); groups from curcompile on were never tried (`AttemptInv`).
* `PoolSeesFailures`: from the types and FailureIsSeen itself, with or without
  response files: what `errors++` stores is never 0.
* `PoolLinksNew`, `PoolImplementsJobs`: under `OneIfResponse` (if the compiler
  takes a response file there is one thread), only new objects are linked, and
  CompilePool implements CompileJobs under the mapping of section 4. ObjInv
  adds that a compiler reads what its own thread has written (`ResponseInv`);
  that a group below curcompile is made, failed, or in some thread's hands
  (`TakenInv`); and that a lost increment cannot bring errors back to 0: a value
  in `reg` is never negative, so every store writes at least 1. Step by step:
  RunOK of a group of one module, or Rename, is a Compile that succeeds, RunFails
  is one that fails, RunLink is Link, Fatal is GiveUp, WriteFails is Die, all
  else stutters.

`OneIfResponse` is just what is needed: with a response file and two threads the
statements are false, as run pool_response shows.

**NetProofs** (from NetAssumption; any packages, imports and lists).

* `NetTypes`: with `Fits`, which says that a call which builds or installs has
  sources in a directory with a dsss.conf.
* `NetNeverNested`, `NetSourcesStay`, `NetOthersKept`, each under `Acyclic`:
  there is a rank such that what a package uses or requires, but for itself,
  ranks lower. The code needs that assumption, as the departures show. The
  inductive invariant says that inner calls are for packages of lower rank that
  were not installed when they were called (`Descending`), that what a call has
  still to assert ranks below its package, and that its sources are in its
  scratch directory (`Sound`). A rank is enough, though imports are followed
  through other packages: NotFound is contained in every set closed under
  imports, and the packages of lower rank are such a set.
* `NetDependenciesFirst`, `NetSuccessMeansInstalled`, also under `Acyclic`: the added invariant
  (`Asserted`) says of each call that has traced its package: whatever was not
  found for it is still to be asserted, in the hands of the call it waits for,
  or unknown to pkgs.list; once it builds, nothing is left to assert. The step
  that needs an argument is the return of an inner call for d, since the
  imports of d are then followed too: what is not found for p afterwards was
  not found for p or for d before (`FoundMore`), and d itself was built with
  nothing missing. No inner call uninstalls anything, because it was called for
  what was not installed (`Descending`).

**IncrementalProofs** (from IncrementalAssumption and NoFileAssumption; any
modules, imports, names of objects, kinds of build, and any number of builds).

* `IncrementalTypes`.
* `IncrementalCurrent`: Spec => []ProgramIsCurrent. The program of a build that
  succeeds says little of the builds before it, so the invariant has two parts.
  What holds of files always, whatever died (`FilesFresh`): an object or program
  is of the present edition of a source, or is not younger than it, or that
  source was saved during a build (`Fresh`). Equal dates are on the safe side,
  because the tests of dates are strict. What holds within a build that has met
  no error: each module waits to be sorted, compiled or renamed (`Waits`), or
  its object will do (`Serves`), which means that it is of the present sources
  or is another module's and the linker will refuse it; two modules of one group
  have two names (`Grouped`), so that a rename takes the object that was just
  compiled (`Renaming`); the compiler has read the present sources (`Reading`).
  At the link nothing waits, and either the program is younger than all objects
  or it is made of them.

**BuildProofs** (from ProjectAssumption; any directories, sections,
configurations, requests and modes, any edits between commands).

* `BuildTypes`: from TypeInv, which adds to TypeOK that every call is in a phase
  of its own function and has the configuration of its directory, and that what
  is left to do belongs to the section that was entered last (`Shape`).
* `StubsPrecedeLinks`: Spec => []StubsFirst, under `InTheirPlaces` (a section is
  named in the dsss.conf of its own directory), `TargetsApart` (two directories
  have no target in common) and `Nested` (no directory is below itself). Each is
  needed: the build of a subdirectory with the same target removes the shared
  library of this one. `Lower` says that calls go
  down; `StubsStand` says of every call on the stack, not of the innermost only,
  that the shared libraries of the sections it has passed are there, but for the
  one that is being made.
* `ImportsFindLibraries`: Spec => []InstalledImportsLink, under `InTheirPlaces`,
  `Nested` and `OneMode` (all commands are given --debug, or none: see the
  departures). That an import names a library is decided by build, and that the
  library is there by install, perhaps after dsss.conf was changed in between.
  `Configured` therefore says that imports in the tree name the target of the
  configuration in dsss.last, which is dsss.conf or older, and then a distclean
  comes before anything is installed; and `Linked` adds, of a call of install, that it has copied a
  library before the import it copies next.

**BuildSuccessProofs** (the same, on top of BuildProofs): what a command that
returns 0 has done, in its own directory and in all that subdir sections lead
to. Six hypotheses say what a project must be like: `InTheirPlaces`,
`TargetsApart` and `Nested` as above; `OwnTargets`, that two libraries or two
binaries of one directory do not write the same file; `AskedByDefault`, that a
library named on the command line is one that is built by default, for only of
those does build write the imports; and `RefusedAtRoot`, that no
subdirectory has a section that is refused, for the return code of its build is
dropped. Where one of the last two fails, so does the property (see the
departures). What is reached is the least set closed under subdir sections
(`ReachedFrom`); proofs use it by `ReachedStep`: what is reached is listed, or
below a subdir section that is.

* `BuiltWhenItSucceeds`: Spec => []SuccessMeansBuilt, which excepts the import
  files in `cut`: of these, too, the invariant says that they are written from
  the present edition under the present target (`Made`), and not that they are
  whole. A command is a stack of
  calls, each half way, and anything may have died before it, so the invariant
  (`BuildInv`) gives every call of build on the stack a promise (`Claims`): of
  the imports, libraries and binaries that its loops have passed, each is up to
  date *when todo is done* (`Comes`: todo's last write of the file if it has
  one, else what is in the tree), and all that is below the subdir sections it
  has passed is so as well, but for what is below the directory of the call it
  waits for. That call's own promise, once it has come to its end, makes up for
  the exception (`EndGood`, `CallerClaims`). Three facts make the promises last:
  a distclean in a call's subdirectory touches nothing outside of what is below
  it (`Chained`, with `Lower`); no import is newer than its source
  (`NoneNewer`), or build would keep an import of another edition; and it has
  the target of dsss.conf, for otherwise a distclean has come first
  (`Configured`, and dsss.conf not newer than dsss.last in `Claims`).
* `InstalledWhenItSucceeds`: Spec => []SuccessMeansInstalled. When install
  begins all that is reached is `Ready`; that stays so to the end, for no
  distclean is due anywhere and install writes only under the prefix. Each of
  its calls has the promise `Carries`: what it has passed is in the prefix as it
  is in the tree, or todo still copies it (`Lands`).
* `InstallFindsItsFiles`: Spec => []InstallFindsWhatWasBuilt, also under
  `OnlyDi = {}`: with only .di files install would copy what build does not make.
  Every copy in todo is of a file that is there (`Installs`).

**BuildCleanProofs** (the same): what distclean leaves. Besides `InTheirPlaces`
there are three hypotheses. `SameFiles`: whatever is edited, the dsss.conf of a
directory lists the same sections with the same targets, in any order.
`NamedAreListed`: what the command line names is built by default, or is refused.
And no command is given --debug. Each is needed: the code finds what to remove by
the dsss.conf of today, by the sections built by default, and not the debug
libraries (run build_old_targets, and the departures).

* `DistcleanEndsClean`: Spec => []DistcleanLeavesNothing. `Traced` says of every
  file in the tree, or still to be made by todo, that it is made for a section
  that a distclean from the root comes to (`Known`), so that nothing is out of its
  reach. That is true between any two steps of any command, dead ones included.
  `Sweeping` follows a distclean that the user asked for: files only go, and each
  call of it, the callers that wait included, has swept what its loop has passed,
  with all that is below its subdir sections, but for what is in the hands of a
  call further in. `Swept` of a directory speaks of all its sections, so that
  what an inner call has done is what its caller needs when it returns.
* `OldTargetsAreRenamed`: Spec => []NoOldTargets, from the same invariant. The
  run that violates NoOldTargets renames a target; where no dsss.conf does that,
  or drops a section, no order of commands and deaths leads to it.

**ConfProofs** (from ConfAssumption and LinesAssumption; files of any length,
blocks nested to any depth).

* `ConfTypes`: with a bound on the depth by the lines that made it (`Counted`).
* `SkippingIsNesting`, `ClosedIsRead`, `OwnBeforeGlobal`, under `ElsesOpen`:
  every `} else` begins a block of its own. `} else x = y` is left out because
  the code departs there (section 9). ReadsLikeBlocks alone is not inductive: it
  speaks of states between lines, and says nothing of the depth. `Agrees` states
  what the depth counts, namely the blocks from the first that is not taken,
  what `ignoreElse` knows of that block, and what a rewritten `} else` that is
  still to be read will make of it. `Refusals` and `AllRead` carry that to the
  end of the file.

**Model-checked only.** Liveness (CommandEnds, ProgramEnds), which is beyond
the prover; and, as they hold under hypotheses, that the instances meet these:
MCInstall, MCBuild and MCConf end with an ASSUME of them. Of
PathsKeepTheirMeaning, the part about entries is proved, and CanonMeansTheSame is
evaluated for paths of bounded length: CutUps is a fold, and for all paths it
would need induction over them.

## 11. Not modelled, and why

* The DMD front end (src/rebuild but for mars.c, compile.c, response.c, link.c
  and config.c), rebuild/util and bcd are vendored or generated: about 65000 of
  the repository's lines. They parse D to find imports, and no property of
  DSSS or rebuild is about them but that they find imports, which Incremental
  takes as its constant `Imports`. That is why the models stand for so small a
  share of all lines; of the 5900 lines that are DSSS's and rebuild's own, much
  is again messages, options, platforms and command lines put together.
* Of hcf/path.d, mkdirP, rmRecursive and whereAmI; genconfig asks and writes a file once;
  rebuild/config.c reads profiles once at the start; system.d, platform.d and
  process.d wrap single calls, whose failure is an action of the modules.
* In dsss net, depslist, list and search print and change nothing; in hooks,
  exec and eval run another program, whose effect only it knows.
* pthread_create's result is not tested in the code; a thread that could not be
  created is undefined behaviour there, and the model creates all of them.
