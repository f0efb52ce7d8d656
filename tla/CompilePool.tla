----------------------------- MODULE CompilePool -----------------------------
(***************************************************************************)
(* The compilation threads of rebuild (mars.c compileThread, compile.c     *)
(* runCompile, response.c systemResponse) and the main program around them *)
(* (mars.c main, from pthread_create to runLINK).                          *)
(*                                                                         *)
(* The threads share the mutex compilemutex, the counter curcompile it     *)
(* protects, the counter global.errors it does not, and the file system,   *)
(* where every response file has the same name.                            *)
(***************************************************************************)
EXTENDS Naturals, FiniteSets

CONSTANTS
  Threads,     \* global.params.procs of them
  NG,          \* GroupedCompiles.dim
  Size,        \* gc->imodules.dim of each group
  UseResponse, \* the profile has a "response" setting for the compiler
  Nobody,      \* the mutex is free
  NoFile       \* there is no file compile.rf

Groups == 0..(NG - 1)

ASSUME PoolAssumption ==
  /\ Threads # {} /\ IsFiniteSet(Threads) /\ Nobody \notin Threads
  /\ NG \in Nat
  /\ Size \in [Groups -> Nat]
  /\ UseResponse \in BOOLEAN
  /\ NoFile \notin Groups

VARIABLES
  curcompile, \* the next group to compile
  mutex,      \* the thread that holds compilemutex, or Nobody
  errors,     \* global.errors
  pc,         \* where each thread is
  gc,         \* the group it has taken
  reg,        \* the value of errors it has loaded in errors++
  rf,         \* the group whose arguments compile.rf holds, or NoFile
  obj,        \* "old", "orig" (to be renamed) or "new" objects of each group
  failed,     \* history: groups a compiler process failed on
  attempts,   \* history: how often a compiler was run on behalf of each group
  main        \* the main program

vars == <<curcompile, mutex, errors, pc, gc, reg, rf, obj, failed, attempts, main>>

fileVars == <<rf, obj, failed, attempts>>

Locations == {"lock", "test", "take", "bump", "unlock", "size", "write", "run",
              "remove", "load", "store", "rename", "done"}

TypeOK ==
  /\ curcompile \in 0..NG
  /\ mutex \in Threads \union {Nobody}
  /\ errors \in Nat
  /\ pc \in [Threads -> Locations]
  /\ gc \in [Threads -> 0..NG]
  /\ reg \in [Threads -> Nat]
  /\ rf \in Groups \union {NoFile}
  /\ obj \in [Groups -> {"old", "orig", "new"}]
  /\ failed \in SUBSET Groups
  /\ attempts \in [Groups -> Nat]
  /\ main \in {"join", "check", "linked", "linkfailed", "fatal", "exit"}

Init ==
  /\ curcompile = 0
  /\ mutex = Nobody
  /\ errors = 0
  /\ pc = [t \in Threads |-> "lock"]
  /\ gc = [t \in Threads |-> 0]
  /\ reg = [t \in Threads |-> 0]
  /\ rf = NoFile
  /\ obj = [g \in Groups |-> "old"]
  /\ failed = {}
  /\ attempts = [g \in Groups |-> 0]
  /\ main = "join"

\* The process lives while the main program waits for its threads.
At(t, l) == main = "join" /\ pc[t] = l

Goto(t, l) == pc' = [pc EXCEPT ![t] = l]

\* Mutant: the mutex does not exclude.
LockAlways(t) ==
  /\ At(t, "lock")
  /\ mutex' = t
  /\ Goto(t, "test")
  /\ UNCHANGED <<curcompile, errors, gc, reg, fileVars, main>>

Lock(t) ==
  /\ At(t, "lock")
  /\ mutex = Nobody
  /\ mutex' = t
  /\ Goto(t, "test")
  /\ UNCHANGED <<curcompile, errors, gc, reg, fileVars, main>>

\* Mutant: <= for <.
TestInclusive(t) ==
  /\ At(t, "test")
  /\ Goto(t, IF curcompile <= NG THEN "take" ELSE "unlock")
  /\ UNCHANGED <<curcompile, mutex, errors, gc, reg, fileVars, main>>

\* while (curcompile < GroupedCompiles.dim)
Test(t) ==
  /\ At(t, "test")
  /\ Goto(t, IF curcompile < NG THEN "take" ELSE "unlock")
  /\ UNCHANGED <<curcompile, mutex, errors, gc, reg, fileVars, main>>

Take(t) ==
  /\ At(t, "take")
  /\ gc' = [gc EXCEPT ![t] = curcompile]
  /\ Goto(t, "bump")
  /\ UNCHANGED <<curcompile, mutex, errors, reg, fileVars, main>>

\* curcompile++, and out of the critical section.
Bump(t) ==
  /\ At(t, "bump")
  /\ curcompile' = curcompile + 1
  /\ mutex' = Nobody
  /\ Goto(t, "size")
  /\ UNCHANGED <<errors, gc, reg, fileVars, main>>

\* Mutant: the mutex is not released on the way out.
LeaveLocked(t) ==
  /\ At(t, "unlock")
  /\ Goto(t, "done")
  /\ UNCHANGED <<curcompile, mutex, errors, gc, reg, fileVars, main>>

Leave(t) ==
  /\ At(t, "unlock")
  /\ mutex' = Nobody
  /\ Goto(t, "done")
  /\ UNCHANGED <<curcompile, errors, gc, reg, fileVars, main>>

\* An empty group is passed over; a response file is written first.
Start(t) ==
  /\ At(t, "size")
  /\ Goto(t, IF Size[gc[t]] = 0 THEN "lock"
             ELSE IF UseResponse THEN "write" ELSE "run")
  /\ UNCHANGED <<curcompile, mutex, errors, gc, reg, fileVars, main>>

WriteResponse(t) ==
  /\ At(t, "write")
  /\ rf' = gc[t]
  /\ Goto(t, "run")
  /\ UNCHANGED <<curcompile, mutex, errors, gc, reg, obj, failed, attempts, main>>

\* fopen fails: perror, exit(1), and all threads are gone.
WriteFails(t) ==
  /\ At(t, "write")
  /\ main' = "exit"
  /\ UNCHANGED <<curcompile, mutex, errors, pc, gc, reg, fileVars>>

\* Several modules are compiled under their original object names, and
\* renamed; one is compiled to its final name.
Written(g) == IF Size[g] > 1 THEN "orig" ELSE "new"

\* Mutant: nothing is renamed.
CompiledInPlace(t) == "lock"

\* After the compiler: rename if there were several, then the next group.
Compiled(t) == IF Size[gc[t]] > 1 THEN "rename" ELSE "lock"

\* system(): the compiler takes its arguments from the command line or, with
\* a response file, from whatever compile.rf holds now.
RunOK(t) ==
  LET g == IF UseResponse THEN rf ELSE gc[t] IN
  /\ At(t, "run")
  /\ g # NoFile
  /\ obj' = [obj EXCEPT ![g] = Written(g)]
  /\ attempts' = [attempts EXCEPT ![gc[t]] = @ + 1]
  /\ reg' = [reg EXCEPT ![t] = 0]
  /\ Goto(t, IF UseResponse THEN "remove" ELSE Compiled(t))
  /\ UNCHANGED <<curcompile, mutex, errors, gc, rf, failed, main>>

\* Mutant: the result of the compiler is ignored.
RunFailsUnseen(t) ==
  /\ At(t, "run")
  /\ failed' = failed \union {gc[t]}
  /\ attempts' = [attempts EXCEPT ![gc[t]] = @ + 1]
  /\ reg' = [reg EXCEPT ![t] = 1]
  /\ Goto(t, IF UseResponse THEN "remove" ELSE Compiled(t))
  /\ UNCHANGED <<curcompile, mutex, errors, gc, rf, obj, main>>

\* reg holds, until the load, that the command's result was not 0.
RunFails(t) ==
  /\ At(t, "run")
  /\ failed' = failed \union {gc[t]}
  /\ attempts' = [attempts EXCEPT ![gc[t]] = @ + 1]
  /\ reg' = [reg EXCEPT ![t] = 1]
  /\ Goto(t, IF UseResponse THEN "remove" ELSE "load")
  /\ UNCHANGED <<curcompile, mutex, errors, gc, rf, obj, main>>

\* Mutant: remove()'s result is returned, not the compiler's.
RemoveOverwrites(t) ==
  /\ At(t, "remove")
  /\ rf' = NoFile
  /\ Goto(t, Compiled(t))
  /\ UNCHANGED <<curcompile, mutex, errors, gc, reg, obj, failed, attempts, main>>

RemoveResponse(t) ==
  /\ At(t, "remove")
  /\ rf' = NoFile
  /\ Goto(t, IF reg[t] # 0 THEN "load" ELSE Compiled(t))
  /\ UNCHANGED <<curcompile, mutex, errors, gc, reg, obj, failed, attempts, main>>

\* global.errors++ is a load and a store, outside the mutex.
Load(t) ==
  /\ At(t, "load")
  /\ reg' = [reg EXCEPT ![t] = errors]
  /\ Goto(t, "store")
  /\ UNCHANGED <<curcompile, mutex, errors, gc, fileVars, main>>

Store(t) ==
  /\ At(t, "store")
  /\ errors' = reg[t] + 1
  /\ Goto(t, Compiled(t))
  /\ UNCHANGED <<curcompile, mutex, gc, reg, fileVars, main>>

\* rename() of the objects that exist under their original names.
Rename(t) ==
  /\ At(t, "rename")
  /\ obj' = [obj EXCEPT ![gc[t]] = IF @ = "orig" THEN "new" ELSE @]
  /\ Goto(t, "lock")
  /\ UNCHANGED <<curcompile, mutex, errors, gc, reg, rf, failed, attempts, main>>

\* Mutant: only one thread is waited for.
JoinOne ==
  /\ main = "join"
  /\ \E t \in Threads : pc[t] = "done"
  /\ main' = "check"
  /\ UNCHANGED <<curcompile, mutex, errors, pc, gc, reg, fileVars>>

\* pthread_join of every thread.
Join ==
  /\ main = "join"
  /\ \A t \in Threads : pc[t] = "done"
  /\ main' = "check"
  /\ UNCHANGED <<curcompile, mutex, errors, pc, gc, reg, fileVars>>

\* if (global.errors) fatal();
Fatal ==
  /\ main = "check" /\ errors > 0
  /\ main' = "fatal"
  /\ UNCHANGED <<curcompile, mutex, errors, pc, gc, reg, fileVars>>

\* Mutant: the link does not depend on the errors.
RunLinkAnyway ==
  /\ main = "check"
  /\ main' \in {"linked", "linkfailed"}
  /\ UNCHANGED <<curcompile, mutex, errors, pc, gc, reg, fileVars>>

RunLink ==
  /\ main = "check" /\ errors = 0
  /\ \/ main' = "linked" /\ errors' = errors
     \/ main' = "linkfailed" /\ errors' = errors + 1
  /\ UNCHANGED <<curcompile, mutex, pc, gc, reg, fileVars>>

Thread(t) ==
  \/ Lock(t) \/ Test(t) \/ Take(t) \/ Bump(t) \/ Leave(t) \/ Start(t)
  \/ WriteResponse(t) \/ WriteFails(t) \/ RunOK(t) \/ RunFails(t) \/ RemoveResponse(t)
  \/ Load(t) \/ Store(t) \/ Rename(t)

MainStep == Join \/ Fatal \/ RunLink

Next == (\E t \in Threads : Thread(t)) \/ MainStep

Spec == Init /\ [][Next]_vars

\* The scheduler runs every thread, and every compiler process ends.
FairSpec == Spec /\ WF_vars(MainStep) /\ \A t \in Threads : WF_vars(Thread(t))

-----------------------------------------------------------------------------
(* Properties. *)

Jobs == {g \in Groups : Size[g] > 0}

\* A group is compiled by one thread only: taking it and moving the counter
\* is one critical section.
CompiledAtMostOnce == \A g \in Groups : attempts[g] <= 1

\* What is linked is what was just compiled: every object of every group is
\* new, though a thread may have lost another's errors++.
LinksOnlyNewObjects ==
  main \in {"linked", "linkfailed"} => failed = {} /\ \A g \in Jobs : obj[g] = "new"

\* A failure is not lost: global.errors is not 0, or some thread is about to
\* make it so.
FailureIsSeen ==
  failed # {} => \/ errors > 0
                 \/ \E t \in Threads : \/ pc[t] \in {"load", "store"}
                                       \/ pc[t] = "remove" /\ reg[t] # 0

\* The threads and the program end.
ProgramEnds == <>(main \in {"linked", "linkfailed", "fatal", "exit"})

\* The promise, seen through the objects and the main program's progress: also
\* that one bad module does not keep the others from being compiled.
J == INSTANCE CompileJobs WITH
       made <- {g \in Jobs : obj[g] = "new"},
       result <- IF main \in {"join", "check"} THEN "compiling" ELSE main

ImplementsJobs == J!JobsSpec

-----------------------------------------------------------------------------
\* What the theorems assume of a profile: if the compiler takes a response
\* file, there is one thread (-j1).  Any other profile violates
\* LinksOnlyNewObjects.
OneIfResponse == UseResponse => \A t, u \in Threads : t = u

=============================================================================
