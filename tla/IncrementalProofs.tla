-------------------------- MODULE IncrementalProofs --------------------------
(***************************************************************************)
(* What is proved of Incremental, for any modules, imports, names, options *)
(* and clocks: a build that succeeds leaves a program of the present       *)
(* sources.                                                                *)
(***************************************************************************)
EXTENDS Incremental, SequenceTheorems, TLAPS

Groups == [names : SUBSET Modules, mods : SUBSET Linked]

\* An object is of the present sources, but for those saved since.
Fresh(o) ==
  /\ o.time <= now
  /\ \A d \in Reach[o.mod] \ touched : o.from[d] = edition[d] \/ o.time <= saved[d]

ProgramFresh ==
  /\ exe.time <= now
  /\ \A m \in Linked :
       /\ exe.parts[m].mod = m
       /\ \A d \in Reach[m] \ touched : exe.parts[m].from[d] = edition[d] \/ exe.time <= saved[d]

\* So are all files, whatever builds have failed or died.
FilesFresh ==
  /\ \A n \in Modules : obj[n] # NoFile => Fresh(obj[n])
  /\ \A n \in Modules : plain[n] # NoFile => Fresh(plain[n])
  /\ exe # NoFile => ProgramFresh

\* A file that will do for the object of m, or that the linker will refuse.
Serves(o, m) ==
  /\ o # NoFile
  /\ \A d \in Reach[m] \ touched : saved[d] <= o.time /\ (o.mod = m => o.from[d] = edition[d])

\* The compiler has read the present sources.
Reading ==
  phase = "compiling" => \A d \in Modules \ touched : read[d] = edition[d]

\* No two objects of a group have one name.
Grouped ==
  fullq => \A i \in DOMAIN groups : \A m, n \in groups[i].mods :
             /\ Base[m] \in groups[i].names
             /\ Base[m] = Base[n] => m = n

\* The object of a module that waits for its renaming is the one just compiled.
Renaming ==
  /\ phase \in {"compiling", "rename"} => fullq \/ ~Single
  /\ phase = "rename" /\ ~errors =>
       \A m \in todo :
         IF fullq /\ ~Single THEN Serves(plain[Base[m]], m) /\ plain[Base[m]].mod = m
         ELSE Serves(Objfile(m), m)

\* What is still to be sorted, compiled or renamed.
Waits(m) ==
  \/ phase \in {"sort", "rename"} /\ m \in todo
  \/ /\ phase # "link"
     /\ \E i \in DOMAIN groups : m \in groups[i].mods /\ IF phase = "rename" THEN cur < i ELSE cur <= i

\* All else may be linked.
Served ==
  phase \in Building /\ ~errors => \A m \in Linked : Waits(m) \/ Serves(Objfile(m), m)

Phases ==
  /\ phase \in {"sort", "link"} => ~errors
  /\ phase = "sort" => cur = 1

Inv ==
  /\ TypeOK /\ FilesFresh /\ Reading /\ Grouped /\ Renaming /\ Served /\ Phases
  /\ ProgramIsCurrent

-----------------------------------------------------------------------------
(* Groups, objects and dates. *)

LEMMA Reached == Reach \in [Modules -> SUBSET Modules]
BY DEF Reach

LEMMA Constants ==
  /\ Base \in [Modules -> Modules] /\ Linked \subseteq Modules
  /\ NoFile \notin Objects /\ NoFile \notin Programs /\ Modes \subseteq BOOLEAN
  /\ MaxEdit \in [Modules -> Nat] /\ MaxTime \in Nat
BY IncrementalAssumption, NoFileAssumption DEF Linked

\* One group more, or one module more in a group.
LEMMA Sorting ==
  ASSUME TypeOK, NEW m \in Modules, Sort(m)
  PROVE  /\ groups' \in Seq(Groups)
         /\ \E i \in 1..(Len(groups) + 1) :
              /\ Free(m, i) /\ DOMAIN groups' = DOMAIN groups \union {i}
              /\ groups'[i] = Add(IF i > Len(groups) THEN NewGroup ELSE groups[i], m)
              /\ \A j \in DOMAIN groups : j # i => groups'[j] = groups[j]
<1>1. groups \in Seq(Groups)
  BY DEF TypeOK, Groups
<1>2. PICK i \in 1..(Len(groups) + 1) :
        /\ Free(m, i)
        /\ groups' = IF i > Len(groups) THEN Append(groups, Add(NewGroup, m))
                     ELSE [groups EXCEPT ![i] = Add(@, m)]
  BY DEF Sort
<1>3. \A g \in Groups : Add(g, m) \in Groups
  BY Constants DEF Add, Groups, Linked
<1>4. NewGroup \in Groups /\ Len(groups) \in Nat
  BY <1>1, LenProperties DEF NewGroup, Groups
<1>5. CASE i > Len(groups)
  <2>1. i = Len(groups) + 1 /\ groups' = Append(groups, Add(NewGroup, m))
    BY <1>2, <1>4, <1>5
  <2>. QED
    <3>1. groups' \in Seq(Groups) /\ Len(groups') = Len(groups) + 1
      BY <2>1, <1>1, <1>3, <1>4, AppendProperties
    <3>2. groups'[i] = Add(NewGroup, m) /\ \A j \in 1..Len(groups) : groups'[j] = groups[j]
      BY <2>1, <1>1, <1>3, <1>4, AppendProperties
    <3>3. DOMAIN groups = 1..Len(groups) /\ DOMAIN groups' = 1..(Len(groups) + 1)
      BY <3>1, <1>1, LenProperties
    <3>4. DOMAIN groups' = DOMAIN groups \union {i}
      BY <3>3, <2>1, <1>4
    <3>. QED  BY <3>1, <3>2, <3>3, <3>4, <1>2, <1>5
<1>6. CASE i <= Len(groups)
  <2>1. i \in 1..Len(groups) /\ groups[i] \in Groups
    BY <1>1, <1>4, <1>6, ElementOfSeq
  <2>2. groups' = [groups EXCEPT ![i] = Add(groups[i], m)]
    BY <1>2, <1>4, <1>6
  <2>3. groups' \in Seq(Groups) /\ Len(groups') = Len(groups)
    BY <2>1, <2>2, <1>1, <1>3, ExceptSeq
  <2>. QED
    <3>1. DOMAIN groups = 1..Len(groups) /\ DOMAIN groups' = 1..Len(groups)
      BY <2>3, <1>1, LenProperties
    <3>2. /\ groups'[i] = Add(groups[i], m)
          /\ \A j \in 1..Len(groups) : j # i => groups'[j] = groups[j]
      BY <2>1, <2>2, <1>1, <1>3, ExceptSeq
    <3>3. DOMAIN groups' = DOMAIN groups \union {i}
      BY <3>1, <2>1
    <3>4. ~(i > Len(groups))
      BY <1>4, <1>6
    <3>. QED  BY <3>1, <3>2, <3>3, <3>4, <2>3, <1>2
<1>7. i > Len(groups) \/ i <= Len(groups)
  BY <1>4
<1>. QED  BY <1>5, <1>6, <1>7

\* The group that is compiled is one of the groups.
LEMMA GroupOf ==
  ASSUME TypeOK, cur <= Len(groups)
  PROVE  cur \in DOMAIN groups /\ groups[cur] \in Groups /\ Group \subseteq Linked
<1>1. groups \in Seq(Groups)
  BY DEF TypeOK, Groups
<1>2. cur \in 1..Len(groups)
  BY <1>1, LenProperties DEF TypeOK
<1>3. groups[cur] \in Groups
  BY <1>1, <1>2, ElementOfSeq
<1>4. cur \in DOMAIN groups
  BY <1>1, <1>2, LenProperties
<1>. QED  BY <1>3, <1>4 DEF Groups, Group

\* The object a module would be linked with.
LEMMA ObjfileType ==
  ASSUME TypeOK, NEW m \in Modules
  PROVE  Objfile(m) \in Objects \union {NoFile}
BY Constants DEF TypeOK, Objfile

LEMMA CompiledType ==
  ASSUME TypeOK, NEW m \in Modules
  PROVE  /\ Compiled(m) \in Objects /\ Compiled(m) # NoFile
         /\ Compiled(m).mod = m /\ Compiled(m).from = read /\ Compiled(m).time = now
<1>1. Compiled(m) \in Objects
  BY DEF TypeOK, Compiled, Objects
<1>. QED  BY <1>1, Constants DEF Compiled

-----------------------------------------------------------------------------
(* Types. *)

LEMMA NoGroups ==
  /\ Unread \in Editions
  /\ <<>> \in Seq([names : SUBSET Modules, mods : SUBSET Linked])
<1>1. Unread \in Editions
  BY DEF Unread, Editions
<1>. QED  BY <1>1, EmptySeq

LEMMA InitTypes == Init => TypeOK
<1>. SUFFICES ASSUME Init PROVE TypeOK
  OBVIOUS
<1>1. /\ now \in Nat /\ edition \in Editions /\ saved \in [Modules -> Nat]
      /\ \A m \in Modules : saved[m] <= now
  BY DEF Init, Editions
<1>2. /\ obj \in [Modules -> Objects \union {NoFile}] /\ plain \in [Modules -> Objects \union {NoFile}]
      /\ exe \in Programs \union {NoFile}
  BY DEF Init
<1>3. read \in Editions /\ groups \in Seq([names : SUBSET Modules, mods : SUBSET Linked])
  BY NoGroups DEF Init
<1>4. phase = "idle" /\ cur = 1 /\ todo = {} /\ touched = {}
  BY DEF Init
<1>5. full \in BOOLEAN /\ fullq \in BOOLEAN /\ errors \in BOOLEAN
  BY DEF Init
<1>. QED  BY <1>1, <1>2, <1>3, <1>4, <1>5 DEF TypeOK

LEMMA ExitTypes ==
  ASSUME TypeOK, NEW how \in {"ok", "failed", "crashed"}, Exit(how), UNCHANGED sources,
         obj' \in [Modules -> Objects \union {NoFile}], plain' = plain,
         exe' \in Programs \union {NoFile}
  PROVE  TypeOK'
<1>1. read' \in Editions /\ groups' \in Seq([names : SUBSET Modules, mods : SUBSET Linked])
  BY NoGroups DEF Exit
<1>2. phase' = how /\ cur' = 1 /\ todo' = {}
  BY DEF Exit
<1>3. full' \in BOOLEAN /\ fullq' \in BOOLEAN /\ errors' \in BOOLEAN
  BY DEF Exit
<1>4. /\ phase' \in Building \union {"idle", "ok", "failed", "crashed"}
      /\ ~(phase' \in {"compiling", "rename"})
  BY <1>2
<1>. QED  BY <1>1, <1>2, <1>3, <1>4 DEF TypeOK, sources

LEMMA StepTypes == TypeOK /\ [Next]_vars => TypeOK'
<1>. SUFFICES ASSUME TypeOK, [Next]_vars PROVE TypeOK'
  OBVIOUS
<1>1. CASE Tick
  BY <1>1 DEF TypeOK, Tick, files, plan
<1>2. ASSUME NEW m \in Modules, Edit(m) PROVE TypeOK'
  <2>1. edition' \in Editions /\ saved' \in [Modules -> Nat] /\ touched' \subseteq Modules
    BY <1>2 DEF TypeOK, Edit, Editions
  <2>2. \A d \in Modules : saved'[d] <= now
    BY <1>2 DEF TypeOK, Edit
  <2>3. phase' \in Building \union {"idle", "ok", "failed", "crashed"}
    BY <1>2 DEF TypeOK, Edit
  <2>4. phase' \in {"compiling", "rename"} => phase' = phase
    BY <1>2 DEF Edit
  <2>. QED  BY <1>2, <2>1, <2>2, <2>3, <2>4 DEF TypeOK, Edit, files, plan
<1>3. CASE Begin
  <2>1. groups' \in Seq([names : SUBSET Modules, mods : SUBSET Linked])
    BY <1>3 DEF Begin, NewGroup
  <2>2. phase' = "sort" /\ todo' = Modules /\ cur' = 1
    BY <1>3 DEF Begin
  <2>3. full' \in BOOLEAN /\ fullq' \in BOOLEAN /\ errors' \in BOOLEAN
    BY <1>3, Constants DEF Begin
  <2>4. UNCHANGED <<read, now, edition, saved, touched, obj, plain, exe>>
    BY <1>3 DEF Begin, sources, files
  <2>5. phase' \in Building /\ ~(phase' \in {"compiling", "rename"})
    BY <2>2 DEF Building
  <2>. QED  BY <2>1, <2>2, <2>3, <2>4, <2>5 DEF TypeOK
<1>4. ASSUME NEW m \in Modules, Sort(m) PROVE TypeOK'
  <2>1. groups' \in Seq([names : SUBSET Modules, mods : SUBSET Linked])
    BY <1>4, Sorting DEF Groups
  <2>. QED  BY <1>4, <2>1 DEF TypeOK, Sort, sources, files
<1>5. CASE Sorted
  BY <1>5 DEF TypeOK, Sorted, plan, sources, files, Building
<1>6. CASE SkipGroup
  BY <1>6 DEF TypeOK, SkipGroup, sources, files
<1>7. CASE NoName
  BY <1>7, ExitTypes DEF TypeOK, NoName, sources, files
<1>8. CASE CompilerReads
  BY <1>8 DEF TypeOK, CompilerReads, sources, files, Building
<1>9. CASE CompilerWrites
  <2>1. Group \subseteq Modules /\ todo' = Group /\ phase' = "rename"
    BY <1>9, GroupOf, Constants DEF CompilerWrites, TypeOK
  <2>2. \A m \in Group : Compiled(m) \in Objects
    BY <2>1, CompiledType
  <2>3. obj' \in [Modules -> Objects \union {NoFile}]
    <3>1. obj \in [Modules -> Objects \union {NoFile}]
      BY DEF TypeOK
    <3>2. \/ obj' = [m \in Modules |-> IF m \in Group THEN Compiled(m) ELSE obj[m]]
          \/ obj' = obj
      BY <1>9 DEF CompilerWrites
    <3>. QED  BY <2>2, <3>1, <3>2
  <2>4. plain' \in [Modules -> Objects \union {NoFile}]
    <3>1. CASE Single
      BY <1>9, <3>1 DEF CompilerWrites, TypeOK
    <3>2. CASE ~Single
      <4>1. {Compiled(m) : m \in Group} \union {plain[n] : n \in Modules} \subseteq Objects \union {NoFile}
        BY <2>2 DEF TypeOK
      <4>2. plain' \in [Modules -> {Compiled(m) : m \in Group} \union {plain[n] : n \in Modules}]
        BY <1>9, <3>2 DEF CompilerWrites
      <4>. QED  BY <4>1, <4>2
    <3>. QED  BY <3>1, <3>2
  <2>5. Unread \in Editions
    BY DEF Unread, Editions
  <2>. QED  BY <1>9, <2>1, <2>3, <2>4, <2>5 DEF TypeOK, CompilerWrites, sources, Building, Group
<1>10. CASE CompilerFails
  <2>1. Group \subseteq Modules /\ todo' = Group /\ phase' = "rename"
    BY <1>10, GroupOf, Constants DEF CompilerFails, TypeOK
  <2>2. Unread \in Editions
    BY DEF Unread, Editions
  <2>. QED  BY <1>10, <2>1, <2>2 DEF TypeOK, CompilerFails, sources, files, Building, Group
<1>11. ASSUME NEW m \in Modules, Rename(m) PROVE TypeOK'
  <2>1. /\ obj' \in [Modules -> Objects \union {NoFile}]
        /\ plain' \in [Modules -> Objects \union {NoFile}]
    BY <1>11, Constants DEF Rename, TypeOK
  <2>. QED  BY <1>11, <2>1 DEF TypeOK, Rename, sources
<1>12. CASE Renamed
  BY <1>12 DEF TypeOK, Renamed, sources, files, Building
<1>13. CASE AllCompiled
  <2>1. CASE errors
    BY <1>13, <2>1, ExitTypes DEF TypeOK, AllCompiled, sources, files
  <2>2. CASE ~errors
    BY <1>13, <2>2 DEF TypeOK, AllCompiled, sources, files, plan, Building
  <2>. QED  BY <2>1, <2>2
<1>14. CASE Link
  <2>1. exe' \in Programs \union {NoFile}
    <3>1. CASE exe' = exe
      BY <3>1 DEF TypeOK
    <3>2. CASE /\ \A m \in Linked : Objfile(m) # NoFile /\ Objfile(m).mod = m
               /\ exe' = [parts |-> [m \in Linked |-> Objfile(m)], time |-> now]
      <4>1. \A m \in Linked : Objfile(m) \in Objects
        BY <3>2, ObjfileType, Constants
      <4>. QED  BY <3>2, <4>1 DEF TypeOK, Programs
    <3>. QED  BY <1>14, <3>1, <3>2 DEF Link
  <2>2. PICK how \in {"ok", "failed"} : Exit(how)
    BY <1>14 DEF Link
  <2>. QED  BY <1>14, <2>1, <2>2, ExitTypes DEF TypeOK, Link, sources
<1>15. CASE Die
  <2>1. obj' \in [Modules -> Objects \union {NoFile}]
    BY <1>15 DEF TypeOK, Die
  <2>. QED  BY <1>15, <2>1, ExitTypes DEF TypeOK, Die, sources
<1>16. CASE UNCHANGED vars
  BY <1>16 DEF TypeOK, vars
<1>. QED
  BY <1>1, <1>2, <1>3, <1>4, <1>5, <1>6, <1>7, <1>8, <1>9, <1>10, <1>11, <1>12, <1>13, <1>14,
     <1>15, <1>16 DEF Next

\* Every reachable state is well typed, and the group that is compiled is one of
\* the groups: TypeOK.
THEOREM IncrementalTypes == Spec => []TypeOK
<1>. QED  BY InitTypes, StepTypes, PTL DEF Spec

-----------------------------------------------------------------------------
(* Files are of the present sources, but for those saved since. *)

\* What is fresh stays so while no source is saved.
LEMMA FreshKept ==
  ASSUME TypeOK, Inv, NEW o \in Objects, Fresh(o), UNCHANGED sources
  PROVE  Fresh(o)'
BY DEF Fresh, sources

\* A source that is saved is newer than every object; if a build is running
\* it no longer counts.
LEMMA FreshEdited ==
  ASSUME TypeOK, NEW m \in Modules, Edit(m), NEW o \in Objects, Fresh(o)
  PROVE  Fresh(o)'
<1>1. \A d \in Modules : d # m => edition'[d] = edition[d] /\ saved'[d] = saved[d]
  BY DEF Edit, TypeOK, Editions
<1>2. saved'[m] = now /\ now' = now /\ o.time <= now
  BY DEF Edit, TypeOK, Fresh, sources, files
<1>3. \A d \in Modules : d \notin touched' /\ d # m => d \notin touched
  BY DEF Edit
<1>4. Reach[o.mod] \subseteq Modules
  BY Reached DEF Objects
<1>5. \A d \in Reach[o.mod] \ touched' : o.from[d] = edition'[d] \/ o.time <= saved'[d]
  BY <1>1, <1>2, <1>3, <1>4 DEF Fresh
<1>. QED  BY <1>2, <1>5 DEF Fresh

\* A compiler that has read the present sources writes fresh objects.
LEMMA FreshCompiled ==
  ASSUME Inv, phase = "compiling", NEW m \in Modules
  PROVE  Fresh(Compiled(m))
<1>1. Reach[m] \subseteq Modules
  BY Reached
<1>2. \A d \in Modules \ touched : read[d] = edition[d]
  BY DEF Inv, Reading
<1>3. Compiled(m).time <= now
  BY CompiledType DEF Inv, TypeOK
<1>4. Compiled(m).mod = m /\ Compiled(m).from = read
  BY CompiledType DEF Inv
<1>. QED  BY <1>1, <1>2, <1>3, <1>4 DEF Fresh

\* Files that are moved or removed, and a program that stays.
LEMMA FilesKept ==
  ASSUME Inv, UNCHANGED sources, exe' = exe,
         \A n \in Modules : obj'[n] # NoFile => obj'[n] \in Objects /\ Fresh(obj'[n]),
         \A n \in Modules : plain'[n] # NoFile => plain'[n] \in Objects /\ Fresh(plain'[n])
  PROVE  FilesFresh'
<1>1. \A n \in Modules : (obj[n] # NoFile => Fresh(obj[n]))'
  BY DEF Fresh, sources
<1>2. \A n \in Modules : (plain[n] # NoFile => Fresh(plain[n]))'
  BY DEF Fresh, sources
<1>3. exe' # NoFile => ProgramFresh'
  BY DEF Inv, FilesFresh, ProgramFresh, sources
<1>. QED  BY <1>1, <1>2, <1>3 DEF FilesFresh

LEMMA OldFiles ==
  ASSUME Inv, NEW n \in Modules
  PROVE  /\ obj[n] # NoFile => obj[n] \in Objects /\ Fresh(obj[n])
         /\ plain[n] # NoFile => plain[n] \in Objects /\ Fresh(plain[n])
BY DEF Inv, TypeOK, FilesFresh

LEMMA StepFresh == Inv /\ [Next]_vars => FilesFresh'
<1>. SUFFICES ASSUME Inv, [Next]_vars PROVE FilesFresh'
  OBVIOUS
<1>1. CASE UNCHANGED <<sources, files>>
  <2>1. UNCHANGED <<obj, plain, exe>>
    BY <1>1 DEF files
  <2>. QED  BY <1>1, <2>1, OldFiles, FilesKept
<1>2. CASE Tick
  <2>1. now' = now + 1 /\ now \in Nat /\ UNCHANGED <<obj, plain, exe, edition, saved, touched>>
    BY <1>2 DEF Tick, Inv, TypeOK, files
  <2>2. \A o \in Objects : Fresh(o) => Fresh(o)'
    <3>. SUFFICES ASSUME NEW o \in Objects, Fresh(o) PROVE Fresh(o)'
      OBVIOUS
    <3>1. o.time \in Nat /\ o.time <= now + 1
      BY <2>1 DEF Fresh, Objects
    <3>. QED  BY <2>1, <3>1 DEF Fresh
  <2>3. exe # NoFile => ProgramFresh'
    <3>. SUFFICES ASSUME exe # NoFile PROVE ProgramFresh'
      OBVIOUS
    <3>1. exe.time \in Nat /\ exe.time <= now + 1
      BY <2>1 DEF Inv, TypeOK, FilesFresh, ProgramFresh, Programs
    <3>. QED  BY <2>1, <3>1 DEF Inv, FilesFresh, ProgramFresh
  <2>4. \A n \in Modules : obj[n] # NoFile => Fresh(obj[n])'
    BY <2>1, <2>2, OldFiles DEF Fresh
  <2>5. \A n \in Modules : plain[n] # NoFile => Fresh(plain[n])'
    BY <2>1, <2>2, OldFiles DEF Fresh
  <2>. QED  BY <2>1, <2>3, <2>4, <2>5 DEF FilesFresh, Fresh
<1>3. ASSUME NEW m \in Modules, Edit(m) PROVE FilesFresh'
  <2>1. UNCHANGED <<obj, plain, exe>> /\ now' = now
    BY <1>3 DEF Edit, files
  <2>2. \A o \in Objects : Fresh(o) => Fresh(o)'
    BY <1>3, FreshEdited DEF Inv
  <2>3. exe # NoFile => ProgramFresh'
    <3>. SUFFICES ASSUME exe # NoFile PROVE ProgramFresh'
      OBVIOUS
    <3>1. \A d \in Modules : d # m => edition'[d] = edition[d] /\ saved'[d] = saved[d]
      BY <1>3 DEF Edit, Inv, TypeOK, Editions
    <3>2. saved'[m] = now /\ exe.time <= now
      BY <1>3 DEF Edit, Inv, TypeOK, FilesFresh, ProgramFresh
    <3>3. \A d \in Modules : d \notin touched' /\ d # m => d \notin touched
      BY <1>3 DEF Edit
    <3>4. \A l \in Linked : Reach[l] \subseteq Modules
      BY Reached, Constants
    <3>5. \A l \in Linked :
            /\ exe.parts[l].mod = l
            /\ \A d \in Reach[l] \ touched : exe.parts[l].from[d] = edition[d] \/ exe.time <= saved[d]
      BY DEF Inv, FilesFresh, ProgramFresh
    <3>6. \A l \in Linked : \A d \in Reach[l] \ touched' :
            exe.parts[l].from[d] = edition'[d] \/ exe.time <= saved'[d]
      BY <3>1, <3>2, <3>3, <3>4, <3>5
    <3>. QED  BY <2>1, <3>2, <3>5, <3>6 DEF ProgramFresh
  <2>4. \A n \in Modules : obj[n] # NoFile => Fresh(obj[n])'
    BY <2>1, <2>2, OldFiles DEF Fresh
  <2>5. \A n \in Modules : plain[n] # NoFile => Fresh(plain[n])'
    BY <2>1, <2>2, OldFiles DEF Fresh
  <2>. QED  BY <2>1, <2>3, <2>4, <2>5 DEF FilesFresh, Fresh
<1>4. CASE CompilerWrites
  <2>1. /\ Group \subseteq Modules
        /\ \A m \in Group : Compiled(m) \in Objects /\ Fresh(Compiled(m))
    BY <1>4, GroupOf, Constants, CompiledType, FreshCompiled DEF CompilerWrites, Inv, TypeOK
  <2>2. \A n \in Modules : obj'[n] # NoFile => obj'[n] \in Objects /\ Fresh(obj'[n])
    <3>1. \A n \in Modules : obj'[n] = obj[n] \/ (n \in Group /\ obj'[n] = Compiled(n))
      BY <1>4 DEF CompilerWrites
    <3>. QED  BY <2>1, <3>1, OldFiles
  <2>3. \A n \in Modules : plain'[n] # NoFile => plain'[n] \in Objects /\ Fresh(plain'[n])
    <3>1. \A n \in Modules : plain'[n] = plain[n] \/ \E m \in Group : plain'[n] = Compiled(m)
      BY <1>4 DEF CompilerWrites
    <3>. QED  BY <2>1, <3>1, OldFiles
  <2>. QED  BY <1>4, <2>2, <2>3, FilesKept DEF CompilerWrites, sources
<1>5. ASSUME NEW m \in Modules, Rename(m) PROVE FilesFresh'
  <2>1. /\ \A n \in Modules : obj'[n] = obj[n] \/ (obj'[n] = plain[Base[m]])
        /\ \A n \in Modules : plain'[n] = plain[n] \/ plain'[n] = NoFile
    BY <1>5, Constants DEF Rename, Inv, TypeOK
  <2>2. Base[m] \in Modules
    BY Constants
  <2>. QED  BY <1>5, <2>1, <2>2, OldFiles, FilesKept DEF Rename, sources
<1>6. CASE Die
  <2>1. \A n \in Modules : obj'[n] = obj[n] \/ obj'[n] = NoFile
    BY <1>6 DEF Die, Inv, TypeOK
  <2>. QED  BY <1>6, <2>1, OldFiles, FilesKept DEF Die, sources
<1>7. ASSUME phase = "link", \A m \in Linked : Objfile(m) # NoFile /\ Objfile(m).mod = m,
             exe' = [parts |-> [m \in Linked |-> Objfile(m)], time |-> now],
             UNCHANGED <<obj, plain, sources>>
      PROVE  FilesFresh'
  <2>1. \A m \in Linked : Serves(Objfile(m), m)
    BY <1>7 DEF Inv, Served, Phases, Waits, Building
  <2>2. exe'.time = now /\ \A m \in Linked : exe'.parts[m] = Objfile(m)
    BY <1>7
  <2>3. \A m \in Linked : /\ exe'.parts[m].mod = m
                          /\ \A d \in Reach[m] \ touched : exe'.parts[m].from[d] = edition[d]
    BY <1>7, <2>1, <2>2 DEF Serves
  <2>4. ProgramFresh'
    BY <1>7, <2>2, <2>3 DEF ProgramFresh, sources, Inv, TypeOK
  <2>5. \A n \in Modules : obj[n] # NoFile => Fresh(obj[n])'
    BY <1>7, OldFiles DEF Fresh, sources
  <2>6. \A n \in Modules : plain[n] # NoFile => Fresh(plain[n])'
    BY <1>7, OldFiles DEF Fresh, sources
  <2>. QED  BY <1>7, <2>4, <2>5, <2>6 DEF FilesFresh, Fresh
<1>8. CASE Link
  <2>1. CASE exe' = exe
    BY <1>1, <1>8, <2>1 DEF Link, files
  <2>2. CASE exe' # exe
    BY <1>7, <1>8, <2>2 DEF Link
  <2>. QED  BY <2>1, <2>2
<1>9. CASE Begin \/ Sorted \/ SkipGroup \/ NoName \/ CompilerReads \/ CompilerFails \/ Renamed \/ AllCompiled
  BY <1>1, <1>9 DEF Begin, Sorted, SkipGroup, NoName, CompilerReads, CompilerFails, Renamed, AllCompiled
<1>10. ASSUME NEW m \in Modules, Sort(m) PROVE FilesFresh'
  BY <1>1, <1>10 DEF Sort
<1>11. CASE UNCHANGED vars
  BY <1>1, <1>11 DEF vars, sources, files
<1>. QED
  BY <1>2, <1>3, <1>4, <1>5, <1>6, <1>8, <1>9, <1>10, <1>11 DEF Next

-----------------------------------------------------------------------------
(* What is compiled, renamed and ready. *)

\* What serves as an object does so while no source is saved, and also if one
\* is saved while a build is running.
LEMMA ServesKept ==
  ASSUME NEW m \in Modules, NEW o, Serves(o, m), UNCHANGED sources
  PROVE  Serves(o, m)'
BY DEF Serves, sources

LEMMA ServesEdited ==
  ASSUME TypeOK, NEW e \in Modules, Edit(e), phase \in Building,
         NEW m \in Modules, NEW o, Serves(o, m)
  PROVE  Serves(o, m)'
<1>1. \A d \in Modules : d # e => edition'[d] = edition[d] /\ saved'[d] = saved[d]
  BY DEF Edit, TypeOK, Editions
<1>2. touched' = touched \union {e}
  BY DEF Edit
<1>3. Reach[m] \subseteq Modules
  BY Reached
<1>. QED  BY <1>1, <1>2, <1>3 DEF Serves

LEMMA ServesCompiled ==
  ASSUME Inv, phase = "compiling", NEW m \in Modules, NEW n \in Modules
  PROVE  Serves(Compiled(m), n)
<1>1. \A d \in Reach[n] : d \in Modules /\ saved[d] <= now
  BY Reached DEF Inv, TypeOK
<1>2. \A d \in Modules \ touched : read[d] = edition[d]
  BY DEF Inv, Reading
<1>. QED  BY <1>1, <1>2, CompiledType DEF Serves, Inv

\* A module that is up to date needs no compiler.
LEMMA ServesUpToDate ==
  ASSUME Inv, NEW m \in Modules, UpToDate(m)
  PROVE  Serves(Objfile(m), m)
<1>1. Objfile(m) # NoFile /\ Objfile(m) \in Objects
  BY ObjfileType DEF UpToDate, Inv
<1>2. Fresh(Objfile(m))
  BY <1>1, OldFiles, Constants DEF Objfile
<1>3. \A d \in Reach[m] : saved[d] \in Nat /\ Objfile(m).time \in Nat /\ saved[d] < Objfile(m).time
  BY <1>1, Reached DEF UpToDate, Inv, TypeOK, Objects
<1>4. \A d \in Reach[m] : saved[d] <= Objfile(m).time /\ ~(Objfile(m).time <= saved[d])
  BY <1>3
<1>. QED  BY <1>1, <1>2, <1>4 DEF Serves, Fresh

LEMMA StepReading == Inv /\ [Next]_vars => Reading'
<1>. SUFFICES ASSUME Inv, [Next]_vars, phase' = "compiling"
              PROVE  \A d \in Modules \ touched' : read'[d] = edition'[d]
  BY DEF Reading
<1>1. CASE CompilerReads
  BY <1>1 DEF CompilerReads, sources
<1>2. ASSUME NEW m \in Modules, Edit(m)
      PROVE  \A d \in Modules \ touched' : read'[d] = edition'[d]
  <2>1. phase = "compiling" /\ touched' = touched \union {m} /\ read' = read
    BY <1>2 DEF Edit, Building, plan
  <2>2. \A d \in Modules : d # m => edition'[d] = edition[d]
    BY <1>2 DEF Edit, Inv, TypeOK, Editions
  <2>. QED  BY <2>1, <2>2 DEF Inv, Reading
<1>3. CASE UNCHANGED vars
  BY <1>3 DEF Inv, Reading, vars
<1>4. CASE Tick
  BY <1>4 DEF Tick, Inv, Reading, plan
<1>5. CASE Begin \/ Sorted \/ SkipGroup \/ NoName \/ CompilerWrites \/ CompilerFails \/ Renamed \/ AllCompiled \/ Link \/ Die
  BY <1>5 DEF Begin, Sorted, SkipGroup, NoName, CompilerWrites, CompilerFails, Renamed, AllCompiled, Link, Die, Exit, plan
<1>6. ASSUME NEW m \in Modules, Sort(m) \/ Rename(m) PROVE FALSE
  BY <1>6 DEF Sort, Rename
<1>. QED  BY <1>1, <1>2, <1>3, <1>4, <1>5, <1>6 DEF Next

LEMMA StepGrouped == Inv /\ [Next]_vars => Grouped'
<1>. SUFFICES ASSUME Inv, [Next]_vars PROVE Grouped'
  OBVIOUS
<1>1. CASE UNCHANGED <<fullq, groups>>
  BY <1>1 DEF Inv, Grouped
<1>2. CASE groups' = <<>>
  BY <1>2 DEF Grouped
<1>3. CASE Begin
  <2>1. DOMAIN groups' = {1} /\ groups'[1].mods = {}
    BY <1>3 DEF Begin, NewGroup
  <2>. QED  BY <2>1 DEF Grouped
<1>4. ASSUME NEW m \in Modules, Sort(m) PROVE Grouped'
  <2>. SUFFICES ASSUME fullq PROVE Grouped'
    BY <1>4 DEF Sort, Grouped
  <2>1. PICK i \in 1..(Len(groups) + 1) :
          /\ Free(m, i) /\ DOMAIN groups' = DOMAIN groups \union {i}
          /\ groups'[i] = Add(IF i > Len(groups) THEN NewGroup ELSE groups[i], m)
          /\ \A j \in DOMAIN groups : j # i => groups'[j] = groups[j]
    BY <1>4, Sorting DEF Inv
  <2>2. \A j \in DOMAIN groups : \A a, b \in groups[j].mods :
          Base[a] \in groups[j].names /\ (Base[a] = Base[b] => a = b)
    BY DEF Inv, Grouped
  <2>3. Len(groups) \in Nat /\ DOMAIN groups = 1..Len(groups)
    BY LenProperties DEF Inv, TypeOK
  <2>4. \A a, b \in groups'[i].mods : Base[a] \in groups'[i].names /\ (Base[a] = Base[b] => a = b)
    <3>1. CASE i > Len(groups)
      BY <2>1, <3>1 DEF Add, NewGroup
    <3>2. CASE i <= Len(groups)
      <4>1. i \in DOMAIN groups /\ Base[m] \notin groups[i].names /\ ~(i > Len(groups))
        BY <2>1, <2>3, <3>2 DEF Free
      <4>2. /\ groups'[i].names = groups[i].names \union {Base[m]}
            /\ groups'[i].mods \subseteq groups[i].mods \union {m}
        BY <2>1, <4>1 DEF Add
      <4>. QED  BY <2>2, <4>1, <4>2
    <3>. QED  BY <2>3, <3>1, <3>2
  <2>. QED  BY <2>1, <2>2, <2>4 DEF Grouped
<1>5. CASE Tick \/ Sorted \/ SkipGroup \/ CompilerReads \/ CompilerWrites \/ CompilerFails \/ Renamed
  BY <1>1, <1>5 DEF Tick, Sorted, SkipGroup, CompilerReads, CompilerWrites, CompilerFails, Renamed, plan
<1>6. CASE NoName \/ Link \/ Die
  BY <1>2, <1>6 DEF NoName, Link, Die, Exit
<1>7. CASE AllCompiled
  BY <1>1, <1>2, <1>7 DEF AllCompiled, Exit, plan
<1>8. ASSUME NEW m \in Modules, Edit(m) \/ Rename(m) PROVE Grouped'
  BY <1>1, <1>8 DEF Edit, Rename, plan
<1>9. CASE UNCHANGED vars
  BY <1>1, <1>9 DEF vars
<1>. QED  BY <1>3, <1>4, <1>5, <1>6, <1>7, <1>8, <1>9 DEF Next

LEMMA StepPhases == Inv /\ [Next]_vars => Phases'
<1>. SUFFICES ASSUME Inv, [Next]_vars PROVE Phases'
  OBVIOUS
<1>1. CASE Tick \/ Begin \/ Sorted \/ SkipGroup \/ NoName \/ CompilerReads \/ CompilerWrites \/ CompilerFails
  BY <1>1 DEF Tick, Begin, Sorted, SkipGroup, NoName, CompilerReads, CompilerWrites, CompilerFails, Exit, plan, Inv, Phases
<1>2. CASE Renamed \/ AllCompiled \/ Link \/ Die
  BY <1>2 DEF Renamed, AllCompiled, Link, Die, Exit, plan, Inv, Phases
<1>3. ASSUME NEW m \in Modules, Edit(m) \/ Sort(m) \/ Rename(m) PROVE Phases'
  BY <1>3 DEF Edit, Sort, Rename, plan, Building, Inv, Phases
<1>4. CASE UNCHANGED vars
  BY <1>4 DEF vars, Inv, Phases
<1>. QED  BY <1>1, <1>2, <1>3, <1>4 DEF Next

LEMMA StepRenaming == Inv /\ [Next]_vars => Renaming'
<1>. SUFFICES ASSUME Inv, [Next]_vars PROVE Renaming'
  OBVIOUS
<1>1. CASE phase' \notin {"compiling", "rename"}
  BY <1>1 DEF Renaming
<1>2. CASE CompilerReads
  BY <1>2 DEF CompilerReads, Renaming, Single, Group
<1>3. CASE CompilerFails
  BY <1>3 DEF CompilerFails, Renaming, Single, Group, Inv
<1>4. CASE CompilerWrites
  <2>1. /\ phase = "compiling" /\ todo' = Group /\ UNCHANGED <<fullq, groups, cur, now, edition, saved, touched>>
        /\ fullq \/ ~Single
    BY <1>4 DEF CompilerWrites, sources, Inv, Renaming
  <2>2. Single' <=> Single
    BY <2>1 DEF Single, Group
  <2>3. /\ Group \subseteq Modules /\ cur \in DOMAIN groups
        /\ \A m \in Modules : Base[m] \in Modules
    BY <1>4, GroupOf, Constants DEF CompilerWrites, Inv, TypeOK
  <2>4. \A m, n \in Group : Serves(Compiled(m), n) /\ Compiled(m).mod = m
    BY <2>1, <2>3, ServesCompiled, CompiledType DEF Inv
  <2>5. ASSUME NEW m \in Group, Single PROVE Serves(obj'[m], m)
    <3>1. obj'[m] = Compiled(m)
      BY <1>4, <2>3, <2>5 DEF CompilerWrites
    <3>. QED  BY <2>4, <3>1
  <2>6. ASSUME NEW m \in Group, ~Single
        PROVE  Serves(plain'[Base[m]], m) /\ (fullq => plain'[Base[m]].mod = m)
    <3>1. PICK n \in Group : Base[n] = Base[m] /\ plain'[Base[m]] = Compiled(n)
      BY <1>4, <2>3, <2>6 DEF CompilerWrites
    <3>2. fullq => n = m
      BY <2>3, <3>1 DEF Inv, Grouped, Group
    <3>. QED  BY <2>4, <3>1, <3>2
  <2>7. \A m \in todo' :
          IF fullq /\ ~Single THEN Serves(plain'[Base[m]], m) /\ plain'[Base[m]].mod = m
          ELSE Serves(IF fullq THEN obj'[m] ELSE plain'[Base[m]], m)
    BY <2>1, <2>5, <2>6
  <2>. QED  BY <2>1, <2>2, <2>7 DEF Renaming, Serves, Objfile
<1>5. ASSUME NEW r \in Modules, Rename(r) PROVE Renaming'
  <2>1. /\ phase = "rename" /\ r \in todo /\ todo' = todo \ {r}
        /\ UNCHANGED <<fullq, groups, cur, errors, now, edition, saved, touched>>
    BY <1>5 DEF Rename, First, sources
  <2>2. Single' <=> Single
    BY <2>1 DEF Single, Group
  <2>3. /\ todo \subseteq groups[cur].mods /\ todo \subseteq Modules /\ cur \in DOMAIN groups
        /\ \A m \in Modules : Base[m] \in Modules
    BY <2>1, GroupOf, Constants DEF Inv, TypeOK
  <2>4. CASE fullq /\ ~Single
    <3>1. \A m \in todo : m # r => Base[m] # Base[r]
      BY <2>1, <2>3, <2>4 DEF Inv, Grouped
    <3>2. \A m \in todo' : plain'[Base[m]] = plain[Base[m]]
      BY <1>5, <2>1, <2>3, <3>1 DEF Rename, Inv, TypeOK
    <3>. QED  BY <2>1, <2>2, <2>4, <3>2 DEF Renaming, Serves, Inv
  <2>5. CASE ~(fullq /\ ~Single)
    <3>1. UNCHANGED <<obj, plain>>
      BY <1>5, <2>5 DEF Rename, Renames
    <3>. QED  BY <2>1, <2>2, <2>5, <3>1 DEF Renaming, Serves, Objfile, Inv
  <2>. QED  BY <2>4, <2>5
<1>6. ASSUME NEW e \in Modules, Edit(e), phase' \in {"compiling", "rename"} PROVE Renaming'
  <2>1. phase \in Building /\ phase' = phase /\ UNCHANGED <<obj, plain, fullq, todo, groups, cur, errors>>
    BY <1>6 DEF Edit, files, plan
  <2>2. (Single' <=> Single) /\ todo \subseteq Modules
    BY <2>1 DEF Single, Group, Inv, TypeOK
  <2>3. \A m \in Modules, o \in Objects \union {NoFile} : Serves(o, m) => Serves(o, m)'
    BY <1>6, <2>1, ServesEdited DEF Inv
  <2>4. \A m \in Modules : /\ plain[Base[m]] \in Objects \union {NoFile}
                           /\ Objfile(m) \in Objects \union {NoFile} /\ Objfile(m)' = Objfile(m)
    BY <2>1, ObjfileType, Constants DEF Inv, TypeOK, Objfile
  <2>5. phase = "rename" /\ ~errors =>
          \A m \in todo :
            IF fullq /\ ~Single THEN Serves(plain[Base[m]], m) /\ plain[Base[m]].mod = m
            ELSE Serves(Objfile(m), m)
    BY DEF Inv, Renaming
  <2>6. phase = "rename" /\ ~errors =>
          \A m \in todo :
            IF fullq /\ ~Single THEN Serves(plain[Base[m]], m)' /\ plain[Base[m]].mod = m
            ELSE Serves(Objfile(m), m)'
    BY <2>1, <2>2, <2>3, <2>4, <2>5 DEF Serves
  <2>. QED  BY <2>1, <2>2, <2>6 DEF Renaming, Inv
<1>7. CASE Tick
  BY <1>7 DEF Tick, files, plan, Inv, Renaming, Serves, Objfile, Single, Group
<1>8. CASE Begin \/ Sorted \/ SkipGroup \/ NoName \/ Renamed \/ AllCompiled \/ Link \/ Die
  BY <1>1, <1>8 DEF Begin, Sorted, SkipGroup, NoName, Renamed, AllCompiled, Link, Die, Exit
<1>9. ASSUME NEW m \in Modules, Sort(m) PROVE Renaming'
  BY <1>1, <1>9 DEF Sort
<1>10. CASE UNCHANGED vars
  BY <1>10 DEF vars, Inv, Renaming, Serves, Objfile, Single, Group
<1>. QED
  BY <1>1, <1>2, <1>3, <1>4, <1>5, <1>6, <1>7, <1>8, <1>9, <1>10 DEF Next

\* All modules that are linked wait or are ready.
LEMMA ServedNow ==
  ASSUME Inv, phase \in Building, ~errors
  PROVE  \A m \in Linked : Waits(m) \/ Serves(Objfile(m), m)
BY DEF Inv, Served

LEMMA SortServes ==
  ASSUME Inv, NEW s \in Modules, Sort(s)
  PROVE  Served'
<1>1. /\ phase = "sort" /\ phase' = "sort" /\ todo' = todo \ {s} /\ ~errors /\ cur = 1 /\ cur' = 1
      /\ UNCHANGED <<fullq, errors, obj, plain, now, edition, saved, touched>>
  BY DEF Sort, files, sources, Inv, Phases
<1>2. PICK i \in 1..(Len(groups) + 1) :
        /\ DOMAIN groups' = DOMAIN groups \union {i}
        /\ groups'[i] = Add(IF i > Len(groups) THEN NewGroup ELSE groups[i], s)
        /\ \A j \in DOMAIN groups : j # i => groups'[j] = groups[j]
  BY Sorting DEF Inv
<1>3. Len(groups) \in Nat /\ DOMAIN groups = 1..Len(groups)
  BY LenProperties DEF Inv, TypeOK
<1>4. \A j \in DOMAIN groups : j \in DOMAIN groups' /\ groups[j].mods \subseteq groups'[j].mods
  BY <1>2, <1>3 DEF Add
<1>5. \A m \in Linked : Serves(Objfile(m), m) => Serves(Objfile(m), m)'
  BY <1>1 DEF Serves, Objfile
<1>6. ASSUME NEW m \in Linked PROVE Waits(m)' \/ Serves(Objfile(m), m)'
  <2>1. CASE m = s /\ (full \/ ~UpToDate(s))
    <3>1. i \in DOMAIN groups' /\ m \in groups'[i].mods /\ 1 <= i
      BY <1>2, <1>3, <1>6, <2>1 DEF Add
    <3>. QED  BY <1>1, <3>1 DEF Waits
  <2>2. CASE m = s /\ UpToDate(s)
    BY <1>5, <2>2, ServesUpToDate
  <2>3. CASE m # s
    <3>1. Waits(m) \/ Serves(Objfile(m), m)
      BY <1>1, ServedNow DEF Building
    <3>2. Waits(m) => Waits(m)'
      BY <1>1, <1>4, <2>3 DEF Waits
    <3>. QED  BY <1>5, <3>1, <3>2
  <2>. QED  BY <2>1, <2>2, <2>3
<1>. QED  BY <1>6 DEF Served

LEMMA WriteServes ==
  ASSUME Inv, CompilerWrites
  PROVE  Served'
<1>1. /\ phase = "compiling" /\ phase' = "rename" /\ todo' = Group
      /\ UNCHANGED <<fullq, groups, cur, errors, now, edition, saved, touched>>
      /\ fullq \/ ~Single
  BY DEF CompilerWrites, sources, Inv, Renaming
<1>2. /\ Group \subseteq Modules /\ cur \in Nat /\ DOMAIN groups \subseteq Nat
      /\ \A m \in Modules : Base[m] \in Modules
  BY <1>1, GroupOf, Constants, LenProperties DEF Inv, TypeOK
<1>3. ASSUME NEW m \in Linked, ~errors PROVE Waits(m)' \/ Serves(Objfile(m), m)'
  <2>1. Waits(m) \/ Serves(Objfile(m), m)
    BY <1>1, <1>3, ServedNow DEF Building
  <2>2. Waits(m) => Waits(m)'
    BY <1>1, <1>2 DEF Waits, Group
  <2>3. m \in Group => Waits(m)'
    BY <1>1 DEF Waits
  <2>4. ASSUME Serves(Objfile(m), m), m \notin Group
        PROVE  Serves(IF fullq THEN obj'[m] ELSE plain'[Base[m]], m)
    <3>1. m \in Modules
      BY Constants
    <3>2. CASE fullq
      <4>1. obj'[m] = obj[m]
        BY <2>4, <3>1 DEF CompilerWrites
      <4>. QED  BY <2>4, <3>2, <4>1 DEF Objfile
    <3>3. CASE ~fullq
      <4>1. \/ plain'[Base[m]] = plain[Base[m]]
            \/ \E n \in Group : plain'[Base[m]] = Compiled(n)
        BY <1>1, <1>2, <3>1, <3>3 DEF CompilerWrites
      <4>2. \A n \in Group : Serves(Compiled(n), m)
        BY <1>1, <1>2, <3>1, ServesCompiled
      <4>. QED  BY <2>4, <3>3, <4>1, <4>2 DEF Objfile
    <3>. QED  BY <3>2, <3>3
  <2>. QED  BY <1>1, <2>1, <2>2, <2>3, <2>4 DEF Serves, Objfile
<1>. QED  BY <1>1, <1>3 DEF Served

LEMMA RenameServes ==
  ASSUME Inv, NEW r \in Modules, Rename(r)
  PROVE  Served'
<1>1. /\ phase = "rename" /\ phase' = "rename" /\ r \in todo /\ todo' = todo \ {r}
      /\ UNCHANGED <<fullq, groups, cur, errors, now, edition, saved, touched>>
  BY DEF Rename, First, sources
<1>2. ASSUME NEW m \in Linked, ~errors PROVE Waits(m)' \/ Serves(Objfile(m), m)'
  <2>1. Waits(m) \/ Serves(Objfile(m), m)
    BY <1>1, <1>2, ServedNow DEF Building
  <2>2. m \in Modules
    BY Constants
  <2>3. CASE m # r
    <3>1. Waits(m) => Waits(m)'
      BY <1>1, <2>3 DEF Waits
    <3>2. (IF fullq THEN obj'[m] ELSE plain'[Base[m]]) = Objfile(m)
      BY <2>2, <2>3 DEF Rename, Renames, Objfile, Inv, TypeOK
    <3>. QED  BY <1>1, <2>1, <3>1, <3>2 DEF Serves, Objfile
  <2>4. CASE m = r /\ fullq /\ ~Single
    <3>1. Serves(plain[Base[m]], m)
      BY <1>1, <1>2, <2>4 DEF Inv, Renaming
    <3>2. obj'[m] = plain[Base[m]]
      BY <2>2, <2>4, <3>1 DEF Rename, Renames, Serves, Inv, TypeOK
    <3>. QED  BY <1>1, <2>4, <3>1, <3>2 DEF Serves, Objfile
  <2>5. CASE m = r /\ ~(fullq /\ ~Single)
    <3>1. Serves(Objfile(m), m)
      BY <1>1, <1>2, <2>5 DEF Inv, Renaming
    <3>2. UNCHANGED <<obj, plain>>
      BY <2>5 DEF Rename, Renames
    <3>. QED  BY <1>1, <3>1, <3>2 DEF Serves, Objfile
  <2>. QED  BY <2>3, <2>4, <2>5
<1>. QED  BY <1>1, <1>2 DEF Served

LEMMA StepServed == Inv /\ [Next]_vars => Served'
<1>. SUFFICES ASSUME Inv, [Next]_vars PROVE Served'
  OBVIOUS
<1>1. CASE phase' \notin Building \/ errors'
  BY <1>1 DEF Served
<1>2. ASSUME UNCHANGED <<fullq, errors, obj, plain, now, edition, saved, touched>>, phase \in Building, ~errors,
             \A m \in Linked : Waits(m) => Waits(m)'
      PROVE  Served'
  BY <1>2, ServedNow DEF Served, Serves, Objfile
<1>3. DOMAIN groups \subseteq Nat /\ cur \in Nat /\ Len(groups) \in Nat /\ DOMAIN groups = 1..Len(groups)
  BY LenProperties DEF Inv, TypeOK
<1>4. CASE Begin
  BY <1>4, Constants DEF Begin, Served, Waits
<1>5. ASSUME NEW e \in Modules, Edit(e) PROVE Served'
  <2>. SUFFICES ASSUME phase \in Building, ~errors PROVE Served'
    BY <1>5 DEF Served, Edit, Building, plan
  <2>1. /\ phase' = phase
        /\ UNCHANGED <<obj, plain, fullq, todo, groups, cur, errors>>
    BY <1>5 DEF Edit, files, plan
  <2>2. ASSUME NEW m \in Linked PROVE Waits(m)' \/ Serves(Objfile(m), m)'
    <3>1. Waits(m) \/ Serves(Objfile(m), m)
      BY ServedNow
    <3>2. Waits(m) => Waits(m)'
      BY <2>1 DEF Waits
    <3>3. \A o \in Objects \union {NoFile} : Serves(o, m) => Serves(o, m)'
      BY <1>5, ServesEdited, Constants DEF Inv
    <3>4. Objfile(m) \in Objects \union {NoFile} /\ Objfile(m)' = Objfile(m)
      BY <2>1, ObjfileType, Constants DEF Inv, Objfile
    <3>. QED  BY <3>1, <3>2, <3>3, <3>4 DEF Serves
  <2>. QED  BY <2>2 DEF Served
<1>6. CASE Sorted
  BY <1>2, <1>6 DEF Sorted, plan, sources, files, Building, Waits, Inv, Phases
<1>7. CASE SkipGroup
  <2>1. phase = "compile" /\ phase' = "compile" /\ Group = {} /\ cur' = cur + 1 /\ groups' = groups
    BY <1>7 DEF SkipGroup
  <2>2. \A m \in Linked : Waits(m) => Waits(m)'
    BY <1>3, <2>1 DEF Waits, Group
  <2>. QED  BY <1>1, <1>2, <1>7, <2>1, <2>2 DEF SkipGroup, sources, files, Building
<1>8. CASE CompilerReads
  BY <1>1, <1>2, <1>8 DEF CompilerReads, sources, files, Building, Waits
<1>9. CASE CompilerFails
  BY <1>1, <1>9 DEF CompilerFails
<1>10. CASE Renamed
  <2>1. phase = "rename" /\ phase' = "compile" /\ todo = {} /\ cur' = cur + 1 /\ groups' = groups
    BY <1>10 DEF Renamed
  <2>2. \A m \in Linked : Waits(m) => Waits(m)'
    BY <1>3, <2>1 DEF Waits
  <2>. QED  BY <1>1, <1>2, <1>10, <2>1, <2>2 DEF Renamed, sources, files, Building
<1>11. CASE AllCompiled /\ ~errors
  <2>1. phase = "compile" /\ phase' = "link" /\ cur > Len(groups)
    BY <1>11 DEF AllCompiled
  <2>2. \A m \in Linked : ~Waits(m)
    BY <1>3, <2>1 DEF Waits
  <2>. QED  BY <1>2, <1>11, <2>1, <2>2 DEF AllCompiled, plan, sources, files, Building
<1>12. CASE NoName \/ (AllCompiled /\ errors) \/ Link \/ Die
  BY <1>1, <1>12 DEF NoName, AllCompiled, Link, Die, Exit, Building
<1>13. CASE Tick
  BY <1>13 DEF Tick, files, plan, Inv, Served, Serves, Objfile, Waits
<1>14. CASE UNCHANGED vars
  BY <1>14 DEF vars, Inv, Served, Serves, Objfile, Waits
<1>. QED
  BY <1>4, <1>5, <1>6, <1>7, <1>8, <1>9, <1>10, <1>11, <1>12, <1>13, <1>14,
     SortServes, WriteServes, RenameServes DEF Next

-----------------------------------------------------------------------------
(* The program. *)

\* Without a link the program is newer than every object, and those are as new
\* as the sources.
LEMMA NoLinkNeeded ==
  ASSUME Inv, phase = "link", ~MustLink
  PROVE  /\ exe # NoFile
         /\ \A m \in Linked : /\ exe.parts[m].mod = m
                              /\ \A d \in Reach[m] \ touched : exe.parts[m].from[d] = edition[d]
<1>1. exe # NoFile /\ \A t \in Dates : ~(exe.time <= t)
  BY DEF MustLink
<1>2. exe \in Programs /\ ProgramFresh
  BY <1>1 DEF Inv, TypeOK, FilesFresh
<1>3. ASSUME NEW m \in Linked, NEW d \in Reach[m] \ touched
      PROVE  exe.parts[m].from[d] = edition[d]
  <2>1. m \in Modules /\ d \in Modules
    BY Constants, Reached
  <2>2. Serves(Objfile(m), m)
    BY ServedNow DEF Inv, Phases, Waits, Building
  <2>3. Objfile(m) \in Objects
    BY <2>1, <2>2, ObjfileType DEF Serves, Inv
  <2>4. Objfile(m).time \in Dates
    BY <2>2 DEF Dates, Serves
  <2>5. saved[d] \in Nat /\ Objfile(m).time \in Nat /\ exe.time \in Nat
    BY <1>2, <2>1, <2>3 DEF Inv, TypeOK, Objects, Programs
  <2>6. saved[d] <= Objfile(m).time /\ ~(exe.time <= Objfile(m).time)
    BY <1>1, <2>2, <2>4 DEF Serves
  <2>7. ~(exe.time <= saved[d])
    BY <2>5, <2>6
  <2>. QED  BY <1>2, <2>7 DEF ProgramFresh
<1>. QED  BY <1>1, <1>2, <1>3 DEF ProgramFresh

LEMMA StepCurrent == Inv /\ [Next]_vars => ProgramIsCurrent'
<1>. SUFFICES ASSUME Inv, [Next]_vars, phase' = "ok" PROVE ProgramIsCurrent'
  BY DEF ProgramIsCurrent
<1>1. CASE Link
  <2>1. phase = "link" /\ UNCHANGED <<edition, touched>>
    BY <1>1 DEF Link, sources
  <2>2. CASE ~MustLink /\ exe' = exe
    BY <2>1, <2>2, NoLinkNeeded DEF ProgramIsCurrent
  <2>3. CASE /\ \A m \in Linked : Objfile(m) # NoFile /\ Objfile(m).mod = m
             /\ exe' = [parts |-> [m \in Linked |-> Objfile(m)], time |-> now]
    <3>1. \A m \in Linked : Serves(Objfile(m), m)
      BY <2>1, ServedNow DEF Inv, Phases, Waits, Building
    <3>2. \A m \in Linked : exe'.parts[m] = Objfile(m)
      BY <2>3
    <3>3. \A m \in Linked : /\ exe'.parts[m].mod = m
                            /\ \A d \in Reach[m] \ touched : exe'.parts[m].from[d] = edition[d]
      BY <2>3, <3>1, <3>2 DEF Serves
    <3>4. exe' # NoFile
      <4>1. \A m \in Linked : Objfile(m) \in Objects
        BY <2>3, ObjfileType, Constants DEF Inv
      <4>2. exe' \in Programs
        BY <2>3, <4>1 DEF Programs, Inv, TypeOK
      <4>. QED  BY <4>2, Constants
    <3>. QED  BY <2>1, <3>3, <3>4 DEF ProgramIsCurrent
  <2>. QED  BY <1>1, <2>2, <2>3 DEF Link, Exit
<1>2. CASE Tick
  BY <1>2 DEF Tick, files, Inv, ProgramIsCurrent
<1>3. CASE UNCHANGED vars
  BY <1>3 DEF vars, Inv, ProgramIsCurrent
<1>4. CASE Begin \/ Sorted \/ SkipGroup \/ NoName \/ CompilerReads \/ CompilerWrites \/ CompilerFails \/ Renamed \/ AllCompiled \/ Die
  BY <1>4 DEF Begin, Sorted, SkipGroup, NoName, CompilerReads, CompilerWrites, CompilerFails, Renamed, AllCompiled, Die, Exit, plan
<1>5. ASSUME NEW m \in Modules, Edit(m) \/ Sort(m) \/ Rename(m) PROVE FALSE
  BY <1>5 DEF Edit, Sort, Rename, Building
<1>. QED  BY <1>1, <1>2, <1>3, <1>4, <1>5 DEF Next

-----------------------------------------------------------------------------
(* The invariant. *)

LEMMA InitInv == Init => Inv
<1>. SUFFICES ASSUME Init PROVE Inv
  OBVIOUS
<1>1. TypeOK
  BY InitTypes
<1>2. phase = "idle" /\ exe = NoFile /\ groups = <<>>
  BY DEF Init
<1>3. \A n \in Modules : obj[n] = NoFile /\ plain[n] = NoFile
  BY DEF Init
<1>4. FilesFresh
  BY <1>2, <1>3 DEF FilesFresh
<1>5. Reading /\ Grouped /\ Renaming /\ Served /\ Phases /\ ProgramIsCurrent
  BY <1>2 DEF Reading, Grouped, Renaming, Served, Phases, ProgramIsCurrent, Building
<1>. QED  BY <1>1, <1>4, <1>5 DEF Inv

LEMMA StepInv == Inv /\ [Next]_vars => Inv'
BY StepTypes, StepFresh, StepReading, StepGrouped, StepRenaming, StepServed, StepPhases, StepCurrent
   DEF Inv

\* A build that ends well leaves a program of the present sources, for any
\* imports, names of objects and dates: ProgramIsCurrent.
THEOREM IncrementalCurrent == Spec => []ProgramIsCurrent
<1>1. Inv => ProgramIsCurrent
  BY DEF Inv
<1>. QED  BY <1>1, InitInv, StepInv, PTL DEF Spec

=============================================================================
