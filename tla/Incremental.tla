----------------------------- MODULE Incremental -----------------------------
(***************************************************************************)
(* How rebuild decides what to compile and to link again (rebuild/mars.c,  *)
(* the loop over cmodules; link.c runLINK): by the dates of files, in      *)
(* whole seconds, over builds that fail or die and edits between them.     *)
(* The threads that compile are in CompilePool; here one group is compiled *)
(* after the other.                                                        *)
(***************************************************************************)
EXTENDS Naturals, Sequences, FiniteSets

CONSTANTS
  Modules,
  Order,     \* their places in cmodules
  Imports,   \* aimports of each
  Base,      \* a module that stands for those whose object has the same name
  Ignored,   \* modules that are neither compiled nor linked (nolink, ignore=)
  Modes,     \* TRUE for -oq, the default; FALSE for -od
  OneEach,   \* oneatatime
  NoFile,
  MaxTime,   \* bound: seconds
  MaxEdit    \* bound: editions of each source

ASSUME IncrementalAssumption ==
  /\ Order \in [Modules -> Nat]
  /\ Imports \in [Modules -> SUBSET Modules] /\ Base \in [Modules -> Modules]
  /\ Ignored \subseteq Modules /\ Modes \subseteq BOOLEAN /\ OneEach \in BOOLEAN
  /\ MaxTime \in Nat /\ MaxEdit \in [Modules -> Nat]

Linked == Modules \ Ignored

Editions == [Modules -> Nat]

\* An object of a module, and the sources it was compiled from.
Objects == [mod : Modules, from : Editions, time : Nat]

Programs == [parts : [Linked -> Objects], time : Nat]

ASSUME NoFileAssumption == NoFile \notin Objects \union Programs

VARIABLES
  now,      \* the second it is
  edition,  \* of each source
  saved,    \* st_mtime of each source
  obj,      \* objects under the full names of their modules
  plain,    \* objects under the last parts of those names, as compilers write them
  exe,      \* what was linked, and when
  phase,    \* of the build
  full,     \* -full
  fullq,    \* -oq
  todo,     \* modules to sort into groups, or to rename
  groups,   \* GroupedCompiles: names of objects, and the modules to compile
  cur,      \* the group that is compiled
  read,     \* the sources as the running compiler has read them
  errors,   \* global.errors # 0
  touched   \* history: sources last saved while a build was running

vars == <<now, edition, saved, obj, plain, exe, phase, full, fullq, todo, groups, cur, read, errors, touched>>

files == <<obj, plain, exe>>
sources == <<now, edition, saved, touched>>
plan == <<full, fullq, todo, groups, cur, read, errors>>

Unread == [m \in Modules |-> 0]

Building == {"sort", "compile", "compiling", "rename", "link"}

TypeOK ==
  /\ now \in Nat /\ edition \in Editions /\ saved \in [Modules -> Nat]
  /\ \A m \in Modules : saved[m] <= now
  /\ obj \in [Modules -> Objects \union {NoFile}] /\ plain \in [Modules -> Objects \union {NoFile}]
  /\ exe \in Programs \union {NoFile}
  /\ phase \in Building \union {"idle", "ok", "failed", "crashed"}
  /\ full \in BOOLEAN /\ fullq \in BOOLEAN /\ todo \subseteq Modules
  /\ groups \in Seq([names : SUBSET Modules, mods : SUBSET Linked])
  /\ cur \in Nat \ {0} /\ read \in Editions /\ errors \in BOOLEAN /\ touched \subseteq Modules
  /\ phase \in {"compiling", "rename"} => cur <= Len(groups)
  /\ phase = "rename" => todo \subseteq groups[cur].mods

Init ==
  /\ now = 2  \* a date of 0 stands for no date
  /\ edition = [m \in Modules |-> 0] /\ saved = [m \in Modules |-> 1]
  /\ obj = [m \in Modules |-> NoFile] /\ plain = [m \in Modules |-> NoFile]
  /\ exe = NoFile
  /\ phase = "idle" /\ full = FALSE /\ fullq = TRUE /\ todo = {} /\ groups = <<>> /\ cur = 1
  /\ read = Unread /\ errors = FALSE /\ touched = {}

-----------------------------------------------------------------------------
(* Time, and the user's editor. *)

Tick ==
  /\ now < MaxTime /\ now' = now + 1
  /\ UNCHANGED <<edition, saved, touched, phase, files, plan>>

Edit(m) ==
  /\ edition[m] < MaxEdit[m]
  /\ edition' = [edition EXCEPT ![m] = @ + 1]
  /\ saved' = [saved EXCEPT ![m] = now]
  /\ touched' = IF phase \in Building THEN touched \union {m} ELSE touched \ {m}
  /\ phase' = IF phase \in Building THEN phase ELSE "idle"
  /\ UNCHANGED <<now, files, plan>>

-----------------------------------------------------------------------------
(* The loop over cmodules. *)

\* rebuild exits, and what it has in memory is gone.
Exit(how) ==
  /\ phase' = how
  /\ full' = FALSE /\ fullq' = TRUE /\ todo' = {} /\ groups' = <<>> /\ cur' = 1
  /\ read' = Unread /\ errors' = FALSE

NewGroup == [names |-> {}, mods |-> {}]

Begin ==
  /\ phase \notin Building
  /\ phase' = "sort" /\ full' \in BOOLEAN /\ fullq' \in Modes
  /\ todo' = Modules /\ groups' = <<NewGroup>>
  /\ cur' = 1 /\ errors' = FALSE
  /\ UNCHANGED <<read, sources, files>>

\* modsToTest
Reach ==
  [m \in Modules |->
     {d \in Modules : \A S \in SUBSET Modules :
                        (m \in S /\ \A s \in S : Imports[s] \subseteq S) => d \in S}]

\* m->objfile
Objfile(m) == IF fullq THEN obj[m] ELSE plain[Base[m]]

\* The next in the order of cmodules.
First(m) == m \in todo /\ \A o \in todo : Order[m] <= Order[o]

\* A mutant of UpToDate: a source of the same second is older.
UpToDateSameSecond(m) ==
  Objfile(m) # NoFile /\ \A d \in Reach[m] : saved[d] <= Objfile(m).time

\* The newest source is older than the object.
UpToDate(m) ==
  Objfile(m) # NoFile /\ \A d \in Reach[m] : saved[d] < Objfile(m).time

\* The first group without an object of that name, or a new one.
Free(m, i) ==
  IF ~fullq THEN i = 1
  ELSE IF OneEach THEN i = Len(groups) + 1
  ELSE /\ i \in DOMAIN groups => Base[m] \notin groups[i].names
       /\ \A j \in 1..(i - 1) : Base[m] \in groups[j].names

\* A mutant of Add: what is to be ignored is compiled.
AddAll(g, m) ==
  [names |-> g.names \union {Base[m]},
   mods |-> IF full \/ ~UpToDate(m) THEN g.mods \union {m} ELSE g.mods]

\* The name is taken, whether the module is compiled or not.
Add(g, m) ==
  [names |-> g.names \union {Base[m]},
   mods |-> IF m \in Linked /\ (full \/ ~UpToDate(m)) THEN g.mods \union {m} ELSE g.mods]

Sort(m) ==
  /\ phase = "sort" /\ First(m)
  /\ \E i \in 1..(Len(groups) + 1) :
       /\ Free(m, i)
       /\ groups' = IF i > Len(groups) THEN Append(groups, Add(NewGroup, m))
                    ELSE [groups EXCEPT ![i] = Add(@, m)]
  /\ todo' = todo \ {m}
  /\ UNCHANGED <<phase, full, fullq, cur, read, errors, sources, files>>

Sorted ==
  /\ phase = "sort" /\ todo = {}
  /\ phase' = "compile"
  /\ UNCHANGED <<plan, sources, files>>

-----------------------------------------------------------------------------
(* compileThread *)

Group == groups[cur].mods
Single == \E m \in Modules : Group = {m}

SkipGroup ==
  /\ phase = "compile" /\ cur <= Len(groups) /\ Group = {}
  /\ cur' = cur + 1
  /\ UNCHANGED <<phase, full, fullq, todo, groups, read, errors, sources, files>>

\* The name for -of is the first of newonames, of which there are none
\* without -oq.
NoName ==
  /\ phase = "compile" /\ cur <= Len(groups) /\ Single /\ ~fullq
  /\ Exit("crashed")
  /\ UNCHANGED <<sources, files>>

CompilerReads ==
  /\ phase = "compile" /\ cur <= Len(groups) /\ Group # {}
  /\ fullq \/ ~Single
  /\ phase' = "compiling" /\ read' = edition
  /\ UNCHANGED <<full, fullq, todo, groups, cur, errors, sources, files>>

Compiled(m) == [mod |-> m, from |-> read, time |-> now]

\* One module is compiled under its full name; several in the directory, and
\* of those with one name the last is there.
CompilerWrites ==
  /\ phase = "compiling"
  /\ IF Single
     THEN /\ obj' = [m \in Modules |-> IF m \in Group THEN Compiled(m) ELSE obj[m]]
          /\ plain' = plain
     ELSE /\ plain' \in [Modules -> {Compiled(m) : m \in Group} \union {plain[n] : n \in Modules}]
          /\ \A n \in Modules :
               IF n \in {Base[m] : m \in Group}
               THEN \E m \in Group : Base[m] = n /\ plain'[n] = Compiled(m)
               ELSE plain'[n] = plain[n]
          /\ obj' = obj
  /\ read' = Unread
  /\ phase' = "rename" /\ todo' = Group
  /\ UNCHANGED <<exe, full, fullq, groups, cur, errors, sources>>

\* It writes nothing, and the renames go on.
CompilerFails ==
  /\ phase = "compiling"
  /\ errors' = TRUE
  /\ read' = Unread
  /\ phase' = "rename" /\ todo' = Group
  /\ UNCHANGED <<full, fullq, groups, cur, files, sources>>

Renames(m) == fullq /\ ~Single /\ plain[Base[m]] # NoFile

\* One module needs no renaming, and without -oq there is none.  What an
\* earlier build left under the old name is renamed as well.
Rename(m) ==
  /\ phase = "rename" /\ First(m)
  /\ IF Renames(m)
     THEN /\ obj' = [obj EXCEPT ![m] = plain[Base[m]]]
          /\ plain' = [plain EXCEPT ![Base[m]] = NoFile]
     ELSE UNCHANGED <<obj, plain>>
  /\ todo' = todo \ {m}
  /\ UNCHANGED <<exe, phase, full, fullq, groups, cur, read, errors, sources>>

Renamed ==
  /\ phase = "rename" /\ todo = {}
  /\ phase' = "compile" /\ cur' = cur + 1
  /\ UNCHANGED <<full, fullq, todo, groups, read, errors, sources, files>>

AllCompiled ==
  /\ phase = "compile" /\ cur > Len(groups)
  /\ IF errors THEN Exit("failed") ELSE phase' = "link" /\ UNCHANGED plan
  /\ UNCHANGED <<sources, files>>

-----------------------------------------------------------------------------
(* runLINK *)

Dates == {o.time : o \in {Objfile(m) : m \in Linked} \ {NoFile}}

\* "do we even need to do the build?"
MustLink ==
  ~full /\ exe # NoFile /\ Dates # {} => \E t \in Dates : exe.time <= t

\* The linker refuses an object that is missing or there twice.  It writes the
\* program whole or not at all: were it killed midway, and had it left a part of
\* a program that is newer than the objects, the next build would take that for
\* the program.
Link ==
  /\ phase = "link"
  /\ \/ ~MustLink /\ Exit("ok") /\ exe' = exe
     \/ /\ MustLink
        /\ \A m \in Linked : Objfile(m) # NoFile /\ Objfile(m).mod = m
        /\ exe' = [parts |-> [m \in Linked |-> Objfile(m)], time |-> now]
        /\ Exit("ok")
     \/ MustLink /\ Exit("failed") /\ exe' = exe
  /\ UNCHANGED <<obj, plain, sources>>

\* A signal, also between the remove and the rename of an object.
Die ==
  /\ phase \in Building
  /\ Exit("failed")
  /\ \/ UNCHANGED obj
     \/ \E m \in Modules : /\ phase = "rename" /\ First(m) /\ Renames(m)
                           /\ obj' = [obj EXCEPT ![m] = NoFile]
  /\ UNCHANGED <<plain, exe, sources>>

Next ==
  \/ Tick \/ \E m \in Modules : Edit(m)
  \/ Begin \/ (\E m \in Modules : Sort(m)) \/ Sorted
  \/ SkipGroup \/ NoName \/ CompilerReads \/ CompilerWrites \/ CompilerFails
  \/ (\E m \in Modules : Rename(m)) \/ Renamed \/ AllCompiled
  \/ Link \/ Die

Spec == Init /\ [][Next]_vars

-----------------------------------------------------------------------------
(* Properties. *)

\* A build that ends well leaves a program of the present sources, its own and
\* all that they import: whatever earlier builds compiled, failed or died at,
\* however close in time.  Only a source that was last saved while a build was
\* running may be missing from it.
ProgramIsCurrent ==
  phase = "ok" =>
    /\ exe # NoFile
    /\ \A m \in Linked :
         /\ exe.parts[m].mod = m
         /\ \A d \in Reach[m] \ touched : exe.parts[m].from[d] = edition[d]

\* "-odobjdir write object & library files to directory objdir": objects are
\* written, however many modules there are to compile.  The code does not keep
\* this: see "Departures" in the README.
ObjdirIsUsed == phase # "crashed"

=============================================================================
