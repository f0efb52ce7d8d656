-------------------------- MODULE CompilePoolProofs --------------------------
(***************************************************************************)
(* What is proved of CompilePool for every number of threads and groups:   *)
(* its types, that every group is compiled at most once and no failure is  *)
(* lost; and, unless several threads share a response file, that only new  *)
(* objects are linked and that the pool implements CompileJobs.            *)
(***************************************************************************)
EXTENDS CompilePool, TLAPS

\* Thread t is between lock and unlock.
Critical(t) == pc[t] \in {"test", "take", "bump", "unlock"}

\* Thread t works on the group it has taken.
Busy(t) == pc[t] \in {"size", "write", "run", "remove", "load", "store", "rename"}

MutexInv == \A t \in Threads : Critical(t) <=> mutex = t

ClaimInv ==
  \A t \in Threads :
    /\ pc[t] \in {"take", "bump"} => curcompile < NG
    /\ pc[t] = "bump" => gc[t] = curcompile
    /\ Busy(t) => gc[t] < curcompile
    /\ Busy(t) /\ pc[t] # "size" => Size[gc[t]] > 0
    /\ pc[t] \in {"unlock", "done"} => curcompile = NG

DistinctInv ==
  \A t, u \in Threads : Busy(t) /\ Busy(u) /\ t # u => gc[t] # gc[u]

AttemptInv ==
  /\ \A g \in Groups : attempts[g] \in {0, 1} /\ (g >= curcompile => attempts[g] = 0)
  /\ \A t \in Threads : pc[t] \in {"size", "write", "run"} => attempts[gc[t]] = 0

PoolInv == TypeOK /\ MutexInv /\ ClaimInv /\ DistinctInv /\ AttemptInv


-----------------------------------------------------------------------------

\* The program starts with no group taken and the mutex free.
LEMMA PoolInit == Init => PoolInv
<1>. SUFFICES ASSUME Init PROVE PoolInv
  OBVIOUS
<1>1. TypeOK
  BY PoolAssumption DEF Init, TypeOK, Locations, Groups
<1>2. MutexInv /\ ClaimInv /\ DistinctInv /\ AttemptInv
  BY PoolAssumption DEF Init, MutexInv, ClaimInv, DistinctInv, AttemptInv, Critical, Busy, Groups
<1>. QED  BY <1>1, <1>2 DEF PoolInv

\* Every statement of a thread and of the main program keeps PoolInv.
LEMMA PoolNext == PoolInv /\ [Next]_vars => PoolInv'
<1>. SUFFICES ASSUME PoolInv, [Next]_vars PROVE PoolInv'
  OBVIOUS
<1>. USE PoolAssumption DEF PoolInv, Groups, fileVars, At, Goto
<1>1. ASSUME NEW t \in Threads, Lock(t) PROVE PoolInv'
  <2>1. TypeOK'
    BY <1>1 DEF Lock, TypeOK, Locations
  <2>2. MutexInv'
    BY <1>1 DEF Lock, TypeOK, MutexInv, Critical
  <2>3. ClaimInv' /\ DistinctInv' /\ AttemptInv'
    BY <1>1 DEF Lock, TypeOK, ClaimInv, DistinctInv, AttemptInv, Busy
  <2>. QED  BY <2>1, <2>2, <2>3
<1>2. ASSUME NEW t \in Threads, Test(t) PROVE PoolInv'
  <2>1. TypeOK'
    BY <1>2 DEF Test, TypeOK, Locations
  <2>2. MutexInv'
    BY <1>2 DEF Test, TypeOK, MutexInv, Critical
  <2>3. ClaimInv' /\ DistinctInv' /\ AttemptInv'
    BY <1>2 DEF Test, TypeOK, ClaimInv, DistinctInv, AttemptInv, Busy
  <2>. QED  BY <2>1, <2>2, <2>3
<1>3. ASSUME NEW t \in Threads, Take(t) PROVE PoolInv'
  <2>1. TypeOK'
    BY <1>3 DEF Take, TypeOK, Locations
  <2>2. MutexInv'
    BY <1>3 DEF Take, TypeOK, MutexInv, Critical
  <2>3. ClaimInv' /\ DistinctInv' /\ AttemptInv'
    BY <1>3 DEF Take, TypeOK, ClaimInv, DistinctInv, AttemptInv, Busy
  <2>. QED  BY <2>1, <2>2, <2>3
<1>4. ASSUME NEW t \in Threads, Bump(t) PROVE PoolInv'
  <2>1. gc[t] = curcompile /\ curcompile < NG /\ mutex = t
    BY <1>4 DEF Bump, ClaimInv, MutexInv, Critical
  <2>2. TypeOK'
    BY SMTT(20), <1>4, <2>1 DEF Bump, TypeOK, Locations
  <2>3. MutexInv'
    BY <1>4, <2>1 DEF Bump, TypeOK, MutexInv, Critical
  <2>4. ClaimInv'
    <3>1. \A u \in Threads : u # t => ~Critical(u)
      BY <2>1 DEF MutexInv
    <3>2. \A u \in Threads : pc[u] = "done" => curcompile = NG
      BY DEF ClaimInv
    <3>. QED  BY <1>4, <2>1, <3>1, <3>2 DEF Bump, TypeOK, ClaimInv, Busy, Critical
  <2>5. DistinctInv'
    BY <1>4, <2>1 DEF Bump, TypeOK, ClaimInv, DistinctInv, Busy
  <2>6. AttemptInv'
    BY SMTT(20), <1>4, <2>1 DEF Bump, TypeOK, AttemptInv
  <2>. QED  BY <2>2, <2>3, <2>4, <2>5, <2>6
<1>5. ASSUME NEW t \in Threads, Leave(t) PROVE PoolInv'
  <2>1. TypeOK'
    BY <1>5 DEF Leave, TypeOK, Locations
  <2>2. MutexInv'
    BY <1>5 DEF Leave, TypeOK, MutexInv, Critical
  <2>3. ClaimInv' /\ DistinctInv' /\ AttemptInv'
    BY <1>5 DEF Leave, TypeOK, ClaimInv, DistinctInv, AttemptInv, Busy
  <2>. QED  BY <2>1, <2>2, <2>3
<1>6. ASSUME NEW t \in Threads, Start(t) PROVE PoolInv'
  <2>1. TypeOK'
    BY <1>6 DEF Start, TypeOK, Locations
  <2>2. MutexInv'
    BY <1>6 DEF Start, TypeOK, MutexInv, Critical
  <2>3. ClaimInv' /\ DistinctInv' /\ AttemptInv'
    BY SMTT(20), <1>6 DEF Start, TypeOK, ClaimInv, DistinctInv, AttemptInv, Busy
  <2>. QED  BY <2>1, <2>2, <2>3
<1>7. ASSUME NEW t \in Threads,
             WriteResponse(t) \/ RemoveResponse(t) \/ Load(t) \/ Store(t) \/ Rename(t)
      PROVE  PoolInv'
  <2>1. PICK l \in {"run", "remove", "load", "store", "rename", "lock"} :
          /\ pc' = [pc EXCEPT ![t] = l]
          /\ l = "run" => pc[t] = "write"
    BY <1>7 DEF WriteResponse, RemoveResponse, Load, Store, Rename, Compiled
  <2>2. /\ pc[t] \in {"write", "remove", "load", "store", "rename"}
        /\ UNCHANGED <<curcompile, mutex, gc, failed, attempts, main>>
    BY <1>7 DEF WriteResponse, RemoveResponse, Load, Store, Rename
  <2>3. gc[t] \in Groups
    BY <2>2 DEF TypeOK, ClaimInv, Busy
  <2>4. rf' \in Groups \union {NoFile} /\ obj' \in [Groups -> {"old", "orig", "new"}]
    BY <1>7, <2>3 DEF WriteResponse, RemoveResponse, Load, Store, Rename, TypeOK
  <2>5. reg' \in [Threads -> Nat] /\ errors' \in Nat
    <3>1. errors \in Nat /\ reg \in [Threads -> Nat] /\ reg[t] + 1 \in Nat
      BY DEF TypeOK
    <3>2. errors' = errors \/ errors' = reg[t] + 1
      BY <1>7 DEF WriteResponse, RemoveResponse, Load, Store, Rename
    <3>3. reg' = reg \/ reg' = [reg EXCEPT ![t] = errors]
      BY <1>7 DEF WriteResponse, RemoveResponse, Load, Store, Rename
    <3>. QED  BY <3>1, <3>2, <3>3
  <2>6. pc' \in [Threads -> Locations]
    BY <2>1 DEF TypeOK, Locations
  <2>7. TypeOK'
    BY <2>2, <2>4, <2>5, <2>6 DEF TypeOK
  <2>8. MutexInv'
    BY <2>1, <2>2 DEF TypeOK, MutexInv, Critical
  <2>9. ClaimInv'
    BY <2>1, <2>2 DEF TypeOK, ClaimInv, Busy
  <2>10. DistinctInv' /\ AttemptInv'
    BY <2>1, <2>2 DEF TypeOK, DistinctInv, AttemptInv, Busy
  <2>. QED  BY <2>7, <2>8, <2>9, <2>10
<1>8. ASSUME NEW t \in Threads, RunOK(t) \/ RunFails(t) PROVE PoolInv'
  <2>1. PICK l \in {"remove", "load", "rename", "lock"} : pc' = [pc EXCEPT ![t] = l]
    BY <1>8 DEF RunOK, RunFails, Compiled
  <2>2. /\ pc[t] = "run"
        /\ attempts' = [attempts EXCEPT ![gc[t]] = attempts[gc[t]] + 1]
        /\ UNCHANGED <<curcompile, mutex, errors, gc, rf, main>>
    BY <1>8 DEF RunOK, RunFails
  <2>3. gc[t] \in Groups /\ attempts[gc[t]] = 0 /\ gc[t] < curcompile
    BY <2>2 DEF TypeOK, ClaimInv, AttemptInv, Busy
  <2>4. obj' \in [Groups -> {"old", "orig", "new"}]
    BY <1>8, <2>3 DEF RunOK, RunFails, Written, TypeOK
  <2>5. failed' \in SUBSET Groups /\ reg' \in [Threads -> Nat]
    <3>1. failed' \in SUBSET Groups
      BY <1>8, <2>3 DEF RunOK, RunFails, TypeOK
    <3>2. reg' = [reg EXCEPT ![t] = 0] \/ reg' = [reg EXCEPT ![t] = 1]
      BY <1>8 DEF RunOK, RunFails
    <3>3. reg \in [Threads -> Nat] /\ 0 \in Nat /\ 1 \in Nat
      BY DEF TypeOK
    <3>4. reg' \in [Threads -> Nat]
      BY <3>2, <3>3
    <3>. QED  BY <3>1, <3>4
  <2>6. pc' \in [Threads -> Locations] /\ attempts' \in [Groups -> Nat]
    BY SMTT(20), <2>1, <2>2, <2>3 DEF TypeOK, Locations
  <2>7. TypeOK'
    BY <2>2, <2>4, <2>5, <2>6 DEF TypeOK
  <2>8. MutexInv'
    BY <2>1, <2>2 DEF TypeOK, MutexInv, Critical
  <2>9. ClaimInv' /\ DistinctInv'
    <3>1. \A u \in Threads :
            /\ Busy(u)' => Busy(u) /\ (pc'[u] # "size" => pc[u] # "size")
            /\ pc'[u] \in {"take", "bump", "unlock", "done"} => pc'[u] = pc[u]
      BY <2>1, <2>2 DEF TypeOK, Busy
    <3>2. curcompile' = curcompile /\ gc' = gc
      BY <2>2
    <3>3. ClaimInv'
      BY <3>1, <3>2 DEF ClaimInv
    <3>. HIDE DEF Busy
    <3>4. DistinctInv'
      BY <3>1, <3>2 DEF DistinctInv
    <3>. QED  BY <3>3, <3>4
  <2>10. \A g \in Groups : attempts'[g] = IF g = gc[t] THEN 1 ELSE attempts[g]
    BY <2>2, <2>3 DEF TypeOK
  <2>11. \A u \in Threads : u # t /\ pc[u] \in {"size", "write", "run"} => gc[u] # gc[t]
    BY <2>2 DEF DistinctInv, Busy
  <2>12. \A u \in Threads : pc[u] \in {"size", "write", "run"} => gc[u] \in Groups
    BY DEF TypeOK, ClaimInv, Busy
  <2>13. AttemptInv'
    BY SMTT(20), <2>1, <2>2, <2>3, <2>10, <2>11, <2>12 DEF TypeOK, AttemptInv
  <2>. QED  BY <2>7, <2>8, <2>9, <2>13
<1>9. ASSUME NEW t \in Threads, WriteFails(t) PROVE PoolInv'
  <2>1. TypeOK'
    BY <1>9 DEF WriteFails, TypeOK
  <2>2. MutexInv' /\ ClaimInv' /\ DistinctInv' /\ AttemptInv'
    BY <1>9 DEF WriteFails, MutexInv, ClaimInv, DistinctInv, AttemptInv, Critical, Busy
  <2>. QED  BY <2>1, <2>2
<1>10. CASE MainStep
  <2>1. UNCHANGED <<curcompile, mutex, pc, gc, reg, fileVars>>
    BY <1>10 DEF MainStep, Join, Fatal, RunLink
  <2>2. errors' \in Nat /\ main' \in {"check", "linked", "linkfailed", "fatal"}
    BY <1>10 DEF MainStep, Join, Fatal, RunLink, TypeOK
  <2>3. TypeOK'
    BY <2>1, <2>2 DEF TypeOK
  <2>4. MutexInv' /\ ClaimInv' /\ DistinctInv' /\ AttemptInv'
    BY <2>1 DEF MutexInv, ClaimInv, DistinctInv, AttemptInv, Critical, Busy
  <2>. QED  BY <2>3, <2>4
<1>11. CASE UNCHANGED vars
  BY <1>11 DEF vars, TypeOK, MutexInv, ClaimInv, DistinctInv, AttemptInv, Critical, Busy
<1>. QED
  BY <1>1, <1>2, <1>3, <1>4, <1>5, <1>6, <1>7, <1>8, <1>9, <1>10, <1>11 DEF Next, Thread

\* The variables hold values of their types.
THEOREM PoolTypes == Spec => []TypeOK
<1>1. PoolInv => TypeOK
  BY DEF PoolInv
<1>. QED  BY <1>1, PoolInit, PoolNext, PTL DEF Spec

\* However many threads take groups, each group is compiled at most once, with
\* or without response files.
THEOREM PoolCompilesOnce == Spec => []CompiledAtMostOnce
<1>1. PoolInv => CompiledAtMostOnce
  BY DEF PoolInv, AttemptInv, CompiledAtMostOnce
<1>. QED  BY <1>1, PoolInit, PoolNext, PTL DEF Spec

\* Every step keeps a failure in sight.
LEMMA SeenNext == PoolInv /\ FailureIsSeen /\ [Next]_vars => FailureIsSeen'
<1>. SUFFICES ASSUME PoolInv, FailureIsSeen, [Next]_vars PROVE FailureIsSeen'
  OBVIOUS
<1>. DEFINE Pending(t) == pc[t] \in {"load", "store"} \/ (pc[t] = "remove" /\ reg[t] # 0)
<1>. USE DEF fileVars, At, Goto
<1>1. TypeOK
  BY DEF PoolInv
<1>2. ASSUME NEW t \in Threads,
             Lock(t) \/ Test(t) \/ Take(t) \/ Bump(t) \/ Leave(t) \/ Start(t) \/ WriteResponse(t)
      PROVE  FailureIsSeen'
  <2>1. UNCHANGED <<failed, errors, reg>> /\ ~Pending(t)
    BY <1>2 DEF Lock, Test, Take, Bump, Leave, Start, WriteResponse
  <2>2. \A u \in Threads : u # t => pc'[u] = pc[u]
    BY <1>1, <1>2 DEF Lock, Test, Take, Bump, Leave, Start, WriteResponse, TypeOK
  <2>. QED  BY <2>1, <2>2 DEF FailureIsSeen
<1>3. ASSUME NEW t \in Threads, RunOK(t) PROVE FailureIsSeen'
  <2>1. UNCHANGED <<failed, errors>> /\ ~Pending(t)
    BY <1>3 DEF RunOK
  <2>2. \A u \in Threads : u # t => pc'[u] = pc[u] /\ reg'[u] = reg[u]
    BY <1>1, <1>3 DEF RunOK, TypeOK
  <2>. QED  BY <2>1, <2>2 DEF FailureIsSeen
<1>4. ASSUME NEW t \in Threads, RunFails(t) PROVE FailureIsSeen'
  <2>1. pc'[t] \in {"remove", "load"} /\ reg'[t] = 1
    BY <1>1, <1>4 DEF RunFails, TypeOK
  <2>. QED  BY <2>1 DEF FailureIsSeen
<1>5. ASSUME NEW t \in Threads, RemoveResponse(t) \/ Load(t) PROVE FailureIsSeen'
  <2>1. /\ UNCHANGED <<failed, errors>>
        /\ Pending(t) => pc'[t] \in {"load", "store"}
    BY <1>1, <1>5 DEF RemoveResponse, Load, TypeOK
  <2>2. \A u \in Threads : u # t => pc'[u] = pc[u] /\ reg'[u] = reg[u]
    BY <1>1, <1>5 DEF RemoveResponse, Load, TypeOK
  <2>. QED  BY <2>1, <2>2 DEF FailureIsSeen
<1>6. ASSUME NEW t \in Threads, Store(t) PROVE FailureIsSeen'
  <2>1. errors' > 0
    BY <1>1, <1>6 DEF Store, TypeOK
  <2>. QED  BY <2>1 DEF FailureIsSeen
<1>7. ASSUME NEW t \in Threads, Rename(t) \/ WriteFails(t) PROVE FailureIsSeen'
  <2>1. UNCHANGED <<failed, errors, reg>> /\ ~Pending(t)
    BY <1>7 DEF Rename, WriteFails
  <2>2. \A u \in Threads : u # t => pc'[u] = pc[u]
    BY <1>1, <1>7 DEF Rename, WriteFails, TypeOK
  <2>. QED  BY <2>1, <2>2 DEF FailureIsSeen
<1>8. CASE Join \/ Fatal
  BY <1>8 DEF Join, Fatal, FailureIsSeen
<1>9. CASE RunLink
  <2>1. UNCHANGED <<failed, pc, reg>> /\ (errors > 0 => errors' > 0)
    BY <1>1, <1>9 DEF RunLink, TypeOK
  <2>. QED  BY <2>1 DEF FailureIsSeen
<1>10. CASE UNCHANGED vars
  BY <1>10 DEF vars, FailureIsSeen
<1>. QED
  BY <1>2, <1>3, <1>4, <1>5, <1>6, <1>7, <1>8, <1>9, <1>10 DEF Next, Thread, MainStep

\* A failed compilation is never lost, with or without response files, though
\* threads overwrite each other's errors++: what is stored is never 0.
THEOREM PoolSeesFailures == Spec => []FailureIsSeen
<1>1. Init => FailureIsSeen
  BY DEF Init, FailureIsSeen
<1>. QED  BY <1>1, PoolInit, PoolNext, SeenNext, PTL DEF Spec

-----------------------------------------------------------------------------
(* When no two threads share a response file: what the objects say. *)

\* A group is compiled when its objects are new; it is pending while the
\* thread that took it has still to compile it or rename its objects.
Pending(g) ==
  \E t \in Threads :
    /\ gc[t] = g
    /\ \/ pc[t] \in {"size", "write", "run"}
       \/ pc[t] = "remove" /\ reg[t] = 0 /\ obj[g] = "orig" /\ Size[g] > 1
       \/ pc[t] = "rename" /\ obj[g] = "orig"

\* A compiler that is run reads what its own thread has written.
ResponseInv ==
  /\ ~UseResponse => \A t \in Threads : pc[t] \notin {"write", "remove"}
  /\ UseResponse => \A t \in Threads : pc[t] = "run" => rf = gc[t]

\* Nothing is done for a group before the compiler has run for it.
UntriedInv == \A g \in Groups : attempts[g] = 0 => obj[g] = "old" /\ g \notin failed

\* A failed group has no objects, and had modules.
FailedInv ==
  /\ \A g \in failed : obj[g] = "old"
  /\ failed \subseteq Jobs
  /\ \A t \in Threads :
       pc[t] \in {"load", "store"} \/ (pc[t] = "remove" /\ reg[t] # 0) => gc[t] \in failed
  /\ errors > 0 /\ main # "linkfailed" => failed # {}

\* A group that has been taken is done, has failed, or is still worked on.
TakenInv ==
  \A g \in Jobs : g < curcompile => obj[g] = "new" \/ g \in failed \/ Pending(g)

MainInv == main \notin {"join", "exit"} => \A t \in Threads : pc[t] = "done"

ObjInv ==
  /\ ResponseInv
  /\ UntriedInv /\ FailedInv /\ FailureIsSeen /\ TakenInv /\ MainInv /\ LinksOnlyNewObjects

IInv == PoolInv /\ ObjInv

\* When all threads are done every job is done or has failed.
LEMMA AllDone ==
  ASSUME IInv, \A t \in Threads : pc[t] = "done"
  PROVE  \A g \in Jobs : obj[g] = "new" \/ g \in failed
<1>1. PICK t \in Threads : pc[t] = "done"
  BY PoolAssumption
<1>2. curcompile = NG
  BY <1>1 DEF IInv, PoolInv, ClaimInv
<1>3. \A g \in Groups : ~Pending(g)
  BY DEF Pending
<1>. QED  BY <1>2, <1>3, PoolAssumption DEF IInv, ObjInv, TakenInv, Jobs, Groups

\* At the start no group is made, failed or in a thread's hands.
LEMMA ObjInit == Init => ObjInv
BY DEF Init, ObjInv, ResponseInv, UntriedInv, FailedInv, FailureIsSeen, TakenInv, MainInv,
   LinksOnlyNewObjects, Groups, Jobs

\* Every step keeps ObjInv, if no two threads share a response file.
LEMMA ObjNext ==
  ASSUME OneIfResponse, IInv, PoolInv', [Next]_vars
  PROVE  ObjInv'
<1>. USE PoolAssumption DEF IInv, Jobs, Groups, fileVars, At, Goto
<1>1. /\ ResponseInv
      /\ UntriedInv /\ FailedInv /\ FailureIsSeen /\ TakenInv /\ MainInv /\ LinksOnlyNewObjects
  BY DEF ObjInv
<1>2. TypeOK /\ MutexInv /\ ClaimInv /\ DistinctInv /\ AttemptInv
  BY DEF PoolInv
<1>3. ASSUME NEW t \in Threads, Lock(t) \/ Test(t) \/ Leave(t) PROVE ObjInv'
  <2>1. PICK l \in {"test", "take", "unlock", "done"} : pc' = [pc EXCEPT ![t] = l]
    BY <1>3 DEF Lock, Test, Leave
  <2>2. /\ main = "join" /\ pc[t] \in {"lock", "test", "unlock"}
        /\ UNCHANGED <<curcompile, errors, gc, reg, fileVars, main>>
    BY <1>3 DEF Lock, Test, Leave
  <2>3. UntriedInv' /\ FailedInv' /\ MainInv' /\ LinksOnlyNewObjects'
    BY <1>1, <1>2, <2>1, <2>2 DEF UntriedInv, FailedInv, MainInv, LinksOnlyNewObjects, TypeOK
  <2>4. FailureIsSeen'
    BY <1>1, <1>2, <2>1, <2>2 DEF FailureIsSeen, TypeOK
  <2>5. TakenInv'
    BY <1>1, <1>2, <2>1, <2>2 DEF TakenInv, Pending, TypeOK
  <2>6. ResponseInv'
    BY <1>1, <1>2, <2>1, <2>2 DEF ResponseInv, TypeOK
  <2>. QED  BY <2>3, <2>4, <2>5, <2>6 DEF ObjInv
<1>4. ASSUME NEW t \in Threads, Take(t) PROVE ObjInv'
  <2>1. UntriedInv' /\ FailedInv' /\ MainInv' /\ LinksOnlyNewObjects'
    BY <1>1, <1>2, <1>4 DEF Take, UntriedInv, FailedInv, MainInv, LinksOnlyNewObjects, TypeOK
  <2>2. FailureIsSeen'
    BY <1>1, <1>2, <1>4 DEF Take, FailureIsSeen, TypeOK
  <2>3. TakenInv'
    BY <1>1, <1>2, <1>4 DEF Take, TakenInv, Pending, TypeOK
  <2>4. ResponseInv'
    BY <1>1, <1>2, <1>4 DEF Take, ResponseInv, TypeOK
  <2>. QED  BY <2>1, <2>2, <2>3, <2>4 DEF ObjInv
<1>5. ASSUME NEW t \in Threads, Bump(t) PROVE ObjInv'
  <2>1. gc[t] = curcompile /\ curcompile \in Nat /\ NG \in Nat
    BY <1>2, <1>5 DEF Bump, ClaimInv, TypeOK
  <2>2. UntriedInv' /\ FailedInv' /\ MainInv' /\ LinksOnlyNewObjects'
    BY <1>1, <1>2, <1>5 DEF Bump, UntriedInv, FailedInv, MainInv, LinksOnlyNewObjects, TypeOK
  <2>3. FailureIsSeen'
    BY <1>1, <1>2, <1>5 DEF Bump, FailureIsSeen, TypeOK
  <2>4. TakenInv'
    <3>1. \A g \in Groups : g < curcompile' => g < curcompile \/ g = gc[t]
      BY <1>5, <2>1 DEF Bump
    <3>2. Pending(gc[t])'
      BY <1>2, <1>5 DEF Bump, Pending, TypeOK
    <3>3. \A g \in Groups : Pending(g) => Pending(g)'
      BY <1>2, <1>5 DEF Bump, Pending, TypeOK
    <3>. QED  BY <1>1, <1>5, <3>1, <3>2, <3>3 DEF Bump, TakenInv
  <2>5. ResponseInv'
    BY <1>1, <1>2, <1>5 DEF Bump, ResponseInv, TypeOK
  <2>. QED  BY <2>2, <2>3, <2>4, <2>5 DEF ObjInv
<1>6. ASSUME NEW t \in Threads, Start(t) PROVE ObjInv'
  <2>1. UntriedInv' /\ FailedInv' /\ MainInv' /\ LinksOnlyNewObjects'
    BY <1>1, <1>2, <1>6 DEF Start, UntriedInv, FailedInv, MainInv, LinksOnlyNewObjects, TypeOK
  <2>2. FailureIsSeen'
    BY <1>1, <1>2, <1>6 DEF Start, FailureIsSeen, TypeOK
  <2>3. TakenInv'
    <3>1. \A g \in Jobs : Pending(g) => Pending(g)'
      BY <1>2, <1>6 DEF Start, Pending, TypeOK
    <3>. QED  BY <1>1, <1>6, <3>1 DEF Start, TakenInv
  <2>4. ResponseInv'
    BY <1>1, <1>2, <1>6 DEF Start, ResponseInv, TypeOK
  <2>. QED  BY <2>1, <2>2, <2>3, <2>4 DEF ObjInv
<1>7. ASSUME NEW t \in Threads, RunOK(t) PROVE ObjInv'
  <2>1. gc[t] \in Jobs /\ attempts[gc[t]] = 0 /\ obj[gc[t]] = "old" /\ gc[t] \notin failed
    BY <1>1, <1>2, <1>7 DEF RunOK, ClaimInv, AttemptInv, UntriedInv, Busy, TypeOK
  <2>2. /\ main = "join" /\ pc[t] = "run"
        /\ obj' = [obj EXCEPT ![gc[t]] = Written(gc[t])]
        /\ attempts' = [attempts EXCEPT ![gc[t]] = attempts[gc[t]] + 1]
        /\ reg' = [reg EXCEPT ![t] = 0]
        /\ pc' = [pc EXCEPT ![t] = IF UseResponse THEN "remove" ELSE Compiled(t)]
        /\ UNCHANGED <<curcompile, errors, gc, rf, failed, main>>
    BY <1>1, <1>7 DEF RunOK, ResponseInv
  <2>3. \/ Compiled(t) = "rename" /\ Written(gc[t]) = "orig" /\ Size[gc[t]] > 1
        \/ Compiled(t) = "lock" /\ Written(gc[t]) = "new"
    BY DEF Compiled, Written
  <2>4. UntriedInv'
    BY <1>1, <1>2, <2>1, <2>2 DEF UntriedInv, TypeOK
  <2>5. FailedInv' /\ MainInv' /\ LinksOnlyNewObjects'
    BY <1>1, <1>2, <2>1, <2>2, <2>3 DEF FailedInv, MainInv, LinksOnlyNewObjects, TypeOK
  <2>6. FailureIsSeen'
    BY <1>1, <1>2, <2>2, <2>3 DEF FailureIsSeen, TypeOK
  <2>7. TakenInv'
    <3>1. obj'[gc[t]] = "new" \/ Pending(gc[t])'
      BY <1>2, <2>1, <2>2, <2>3 DEF Pending, TypeOK
    <3>2. \A g \in Jobs : g # gc[t] /\ Pending(g) => Pending(g)'
      BY <1>2, <2>1, <2>2 DEF Pending, TypeOK
    <3>3. \A g \in Jobs : g # gc[t] => obj'[g] = obj[g]
      BY <1>2, <2>1, <2>2 DEF TypeOK
    <3>. QED  BY <1>1, <2>2, <3>1, <3>2, <3>3 DEF TakenInv
  <2>8. ResponseInv'
    BY <1>1, <1>2, <2>2, <2>3 DEF ResponseInv, TypeOK
  <2>. QED  BY <2>4, <2>5, <2>6, <2>7, <2>8 DEF ObjInv
<1>8. ASSUME NEW t \in Threads, RunFails(t) PROVE ObjInv'
  <2>1. gc[t] \in Jobs /\ attempts[gc[t]] = 0 /\ obj[gc[t]] = "old" /\ gc[t] \notin failed
    BY <1>1, <1>2, <1>8 DEF RunFails, ClaimInv, AttemptInv, UntriedInv, Busy, TypeOK
  <2>2. /\ main = "join" /\ pc[t] = "run"
        /\ failed' = failed \union {gc[t]}
        /\ attempts' = [attempts EXCEPT ![gc[t]] = attempts[gc[t]] + 1]
        /\ reg' = [reg EXCEPT ![t] = 1]
        /\ pc' = [pc EXCEPT ![t] = IF UseResponse THEN "remove" ELSE "load"]
        /\ UNCHANGED <<curcompile, errors, gc, rf, obj, main>>
    BY <1>8 DEF RunFails
  <2>3. UntriedInv'
    BY <1>1, <1>2, <2>1, <2>2 DEF UntriedInv, TypeOK
  <2>4. FailedInv' /\ MainInv' /\ LinksOnlyNewObjects'
    BY <1>1, <1>2, <2>1, <2>2 DEF FailedInv, MainInv, LinksOnlyNewObjects, TypeOK
  <2>5. FailureIsSeen'
    BY <1>2, <2>2 DEF FailureIsSeen, TypeOK
  <2>6. TakenInv'
    <3>1. \A g \in Jobs : g # gc[t] /\ Pending(g) => Pending(g)'
      BY <1>2, <2>1, <2>2 DEF Pending, TypeOK
    <3>. QED  BY <1>1, <2>2, <3>1 DEF TakenInv
  <2>7. ResponseInv'
    BY <1>1, <1>2, <2>2 DEF ResponseInv, TypeOK
  <2>. QED  BY <2>3, <2>4, <2>5, <2>6, <2>7 DEF ObjInv
<1>9. ASSUME NEW t \in Threads, Load(t) PROVE ObjInv'
  <2>1. UntriedInv' /\ FailedInv' /\ MainInv' /\ LinksOnlyNewObjects'
    BY <1>1, <1>2, <1>9 DEF Load, UntriedInv, FailedInv, MainInv, LinksOnlyNewObjects, TypeOK
  <2>2. FailureIsSeen'
    BY <1>1, <1>2, <1>9 DEF Load, FailureIsSeen, TypeOK
  <2>3. TakenInv'
    <3>1. \A g \in Jobs : Pending(g) => Pending(g)'
      BY <1>2, <1>9 DEF Load, Pending, TypeOK
    <3>. QED  BY <1>1, <1>9, <3>1 DEF Load, TakenInv
  <2>4. ResponseInv'
    BY <1>1, <1>2, <1>9 DEF Load, ResponseInv, TypeOK
  <2>. QED  BY <2>1, <2>2, <2>3, <2>4 DEF ObjInv
<1>10. ASSUME NEW t \in Threads, Store(t) PROVE ObjInv'
  <2>1. /\ main = "join" /\ pc[t] = "store" /\ gc[t] \in failed
        /\ errors' = reg[t] + 1 /\ reg[t] \in Nat
        /\ UNCHANGED <<curcompile, gc, reg, fileVars, main>>
    BY <1>1, <1>2, <1>10 DEF Store, FailedInv, TypeOK
  <2>2. PICK l \in {"rename", "lock"} : pc' = [pc EXCEPT ![t] = l]
    BY <1>10 DEF Store, Compiled
  <2>3. UntriedInv' /\ MainInv' /\ LinksOnlyNewObjects'
    BY <1>1, <1>2, <2>1, <2>2 DEF UntriedInv, MainInv, LinksOnlyNewObjects, TypeOK
  <2>4. FailedInv'
    BY <1>1, <1>2, <2>1, <2>2 DEF FailedInv, TypeOK
  <2>5. FailureIsSeen'
    BY <2>1 DEF FailureIsSeen
  <2>6. TakenInv'
    <3>1. \A g \in Jobs : Pending(g) => Pending(g)'
      BY <1>2, <2>1, <2>2 DEF Pending, TypeOK
    <3>. QED  BY <1>1, <2>1, <3>1 DEF TakenInv
  <2>7. ResponseInv'
    BY <1>1, <1>2, <2>1, <2>2 DEF ResponseInv, TypeOK
  <2>. QED  BY <2>3, <2>4, <2>5, <2>6, <2>7 DEF ObjInv
<1>11. ASSUME NEW t \in Threads, Rename(t) PROVE ObjInv'
  <2>1. gc[t] \in Groups /\ gc[t] \in Jobs /\ attempts[gc[t]] \in {0, 1}
    <3>1. pc[t] = "rename" /\ gc[t] < curcompile
      BY <1>2, <1>11 DEF Rename, ClaimInv, Busy
    <3>2. gc[t] \in Groups
      BY <1>2, <3>1, PoolAssumption DEF TypeOK
    <3>3. gc[t] \in Jobs
      BY <1>2, <3>1, <3>2 DEF ClaimInv, Busy, Jobs
    <3>. QED  BY <1>2, <3>2, <3>3 DEF AttemptInv
  <2>2. /\ main = "join" /\ pc[t] = "rename" /\ pc' = [pc EXCEPT ![t] = "lock"]
        /\ UNCHANGED <<curcompile, errors, gc, reg, rf, failed, attempts, main>>
        /\ \A g \in Groups : obj'[g] = IF g = gc[t] /\ obj[g] = "orig" THEN "new" ELSE obj[g]
    BY <1>2, <1>11, <2>1 DEF Rename, TypeOK
  <2>3. UntriedInv'
    BY <1>1, <2>2 DEF UntriedInv
  <2>4. FailedInv' /\ MainInv' /\ LinksOnlyNewObjects'
    BY <1>1, <1>2, <2>2 DEF FailedInv, MainInv, LinksOnlyNewObjects, TypeOK
  <2>5. FailureIsSeen'
    BY <1>1, <1>2, <2>2 DEF FailureIsSeen, TypeOK
  <2>6. TakenInv'
    <3>1. \A g \in Jobs : g # gc[t] /\ Pending(g) => Pending(g)'
      BY <1>2, <2>1, <2>2 DEF Pending, TypeOK
    <3>2. Pending(gc[t]) => obj'[gc[t]] = "new"
      BY <1>2, <2>1, <2>2 DEF Pending, DistinctInv, Busy
    <3>. QED  BY <1>1, <2>1, <2>2, <3>1, <3>2 DEF TakenInv
  <2>7. ResponseInv'
    BY <1>1, <1>2, <2>2 DEF ResponseInv, TypeOK
  <2>. QED  BY <2>3, <2>4, <2>5, <2>6, <2>7 DEF ObjInv
<1>12. CASE MainStep
  <2>1. UNCHANGED <<curcompile, mutex, pc, gc, reg, fileVars>>
    BY <1>12 DEF MainStep, Join, Fatal, RunLink
  <2>2. \A t \in Threads : pc[t] = "done"
    BY <1>1, <1>12 DEF MainStep, Join, Fatal, RunLink, MainInv
  <2>3. UntriedInv' /\ MainInv'
    BY <1>1, <1>12, <2>1, <2>2 DEF MainStep, Join, Fatal, RunLink, UntriedInv, MainInv
  <2>4. TakenInv'
    BY <1>1, <2>1 DEF TakenInv, Pending
  <2>5. FailureIsSeen' /\ FailedInv'
    BY <1>1, <1>2, <1>12, <2>1 DEF MainStep, Join, Fatal, RunLink, FailureIsSeen, FailedInv, TypeOK
  <2>6. LinksOnlyNewObjects'
    <3>1. \A g \in Jobs : obj[g] = "new" \/ g \in failed
      BY <2>2, AllDone
    <3>2. main' \in {"linked", "linkfailed"} => errors = 0
      BY <1>12 DEF MainStep, Join, Fatal, RunLink
    <3>3. errors = 0 => failed = {}
      BY <1>1, <2>2 DEF FailureIsSeen
    <3>. QED  BY <2>1, <3>1, <3>2, <3>3 DEF LinksOnlyNewObjects
  <2>7. ResponseInv'
    BY <1>1, <2>1 DEF ResponseInv
  <2>. QED  BY <2>3, <2>4, <2>5, <2>6, <2>7 DEF ObjInv
<1>13. CASE UNCHANGED vars
  BY <1>1, <1>13 DEF vars, ObjInv, ResponseInv, UntriedInv, FailedInv, FailureIsSeen,
     TakenInv, Pending, MainInv, LinksOnlyNewObjects
<1>14. ASSUME NEW t \in Threads, WriteResponse(t) PROVE ObjInv'
  <2>1. /\ main = "join" /\ pc[t] = "write" /\ UseResponse
        /\ pc' = [pc EXCEPT ![t] = "run"] /\ rf' = gc[t]
        /\ UNCHANGED <<curcompile, errors, gc, reg, obj, failed, attempts, main>>
    BY <1>1, <1>14 DEF WriteResponse, ResponseInv
  <2>2. UntriedInv' /\ FailedInv' /\ MainInv' /\ LinksOnlyNewObjects'
    BY <1>1, <1>2, <2>1 DEF UntriedInv, FailedInv, MainInv, LinksOnlyNewObjects, TypeOK
  <2>3. FailureIsSeen'
    BY <1>1, <1>2, <2>1 DEF FailureIsSeen, TypeOK
  <2>4. TakenInv'
    <3>1. \A g \in Jobs : Pending(g) => Pending(g)'
      BY <1>2, <2>1 DEF Pending, TypeOK
    <3>. QED  BY <1>1, <2>1, <3>1 DEF TakenInv
  <2>5. ResponseInv'
    BY <1>2, <2>1 DEF ResponseInv, OneIfResponse, TypeOK
  <2>. QED  BY <2>2, <2>3, <2>4, <2>5 DEF ObjInv
<1>15. ASSUME NEW t \in Threads, WriteFails(t) PROVE ObjInv'
  <2>1. main = "join" /\ main' = "exit" /\ UNCHANGED <<curcompile, errors, pc, gc, reg, fileVars>>
    BY <1>15 DEF WriteFails
  <2>2. UntriedInv' /\ FailedInv' /\ MainInv' /\ LinksOnlyNewObjects'
    BY <1>1, <2>1 DEF UntriedInv, FailedInv, MainInv, LinksOnlyNewObjects
  <2>3. FailureIsSeen' /\ TakenInv' /\ ResponseInv'
    BY <1>1, <2>1 DEF FailureIsSeen, TakenInv, Pending, ResponseInv
  <2>. QED  BY <2>2, <2>3 DEF ObjInv
<1>16. ASSUME NEW t \in Threads, RemoveResponse(t) PROVE ObjInv'
  <2>1. /\ main = "join" /\ pc[t] = "remove" /\ UseResponse
        /\ pc' = [pc EXCEPT ![t] = IF reg[t] # 0 THEN "load" ELSE Compiled(t)]
        /\ UNCHANGED <<curcompile, errors, gc, reg, obj, failed, attempts, main>>
    BY <1>1, <1>16 DEF RemoveResponse, ResponseInv
  <2>2. UntriedInv' /\ FailedInv' /\ MainInv' /\ LinksOnlyNewObjects'
    BY <1>1, <1>2, <2>1 DEF UntriedInv, FailedInv, MainInv, LinksOnlyNewObjects, Compiled, TypeOK
  <2>3. FailureIsSeen'
    BY <1>1, <1>2, <2>1 DEF FailureIsSeen, Compiled, TypeOK
  <2>4. TakenInv'
    <3>1. \A g \in Jobs : Pending(g) => Pending(g)'
      BY <1>2, <2>1 DEF Pending, Compiled, TypeOK
    <3>. QED  BY <1>1, <2>1, <3>1 DEF TakenInv
  <2>5. ResponseInv'
    BY <1>1, <1>2, <2>1 DEF ResponseInv, OneIfResponse, Compiled, TypeOK
  <2>. QED  BY <2>2, <2>3, <2>4, <2>5 DEF ObjInv
<1>. QED
  BY <1>3, <1>4, <1>5, <1>6, <1>7, <1>8, <1>9, <1>10, <1>11, <1>12, <1>13, <1>14, <1>15, <1>16
     DEF Next, Thread

\* Unless several threads share a response file, the program links only when
\* every group that had to be compiled was, without an error, by this run:
\* errors++ may lose an increment to another thread, but never the last one.
THEOREM PoolLinksNew == OneIfResponse => (Spec => []LinksOnlyNewObjects)
<1>. SUFFICES ASSUME OneIfResponse PROVE Spec => []LinksOnlyNewObjects
  OBVIOUS
<1>1. Init => IInv
  BY PoolInit, ObjInit DEF IInv
<1>2. IInv /\ [Next]_vars => IInv'
  BY PoolNext, ObjNext DEF IInv
<1>3. IInv => LinksOnlyNewObjects
  BY DEF IInv, ObjInv
<1>. QED  BY <1>1, <1>2, <1>3, PTL DEF Spec

-----------------------------------------------------------------------------
(* The pool implements CompileJobs. *)

Result == IF main \in {"join", "check"} THEN "compiling" ELSE main

\* A step that changes neither objects, failures nor the result is a stutter.
LEMMA Stutter ==
  ASSUME UNCHANGED <<obj, failed>>, Result' = Result
  PROVE  UNCHANGED J!jobVars
BY DEF J!jobVars, Result, Jobs, Groups

\* A compiler that ends is a step of CompileJobs.
LEMMA ACompile ==
  ASSUME NEW g \in Jobs, J!Compile(g)
  PROVE  J!JobsNext
BY DEF J!JobsNext

\* Every step of the pool is a step of CompileJobs or changes nothing of it.
LEMMA JobsStep ==
  ASSUME OneIfResponse, IInv, IInv', [Next]_vars
  PROVE  [J!JobsNext]_(J!jobVars)
<1>. USE PoolAssumption DEF fileVars, At, Goto
<1>1. /\ ResponseInv
      /\ UntriedInv /\ FailedInv /\ FailureIsSeen /\ MainInv
  BY DEF IInv, ObjInv
<1>2. TypeOK /\ ClaimInv /\ AttemptInv
  BY DEF IInv, PoolInv
<1>3. ASSUME NEW t \in Threads, RunOK(t) PROVE [J!JobsNext]_(J!jobVars)
  <2>1. gc[t] \in Jobs /\ obj[gc[t]] = "old" /\ gc[t] \notin failed
    BY <1>1, <1>2, <1>3
       DEF Jobs, Groups, RunOK, ClaimInv, AttemptInv, UntriedInv, Busy, TypeOK
  <2>2. PICK j \in Jobs : j = gc[t]
    BY <2>1
  <2>3. /\ main = "join" /\ main' = main /\ failed' = failed
        /\ obj' = [obj EXCEPT ![j] = Written(j)]
    BY <1>1, <1>3, <2>2 DEF RunOK, ResponseInv
  <2>4. CASE Written(j) = "new"
    <3>1. {g \in Jobs : obj'[g] = "new"} = {g \in Jobs : obj[g] = "new"} \union {j}
      BY <1>2, <2>3, <2>4 DEF TypeOK, Jobs
    <3>2. J!Compile(j)
      BY <2>1, <2>2, <2>3, <3>1 DEF J!Compile
    <3>. QED  BY <3>2, ACompile
  <2>5. CASE Written(j) = "orig"
    <3>1. {g \in Jobs : obj'[g] = "new"} = {g \in Jobs : obj[g] = "new"}
      BY <1>2, <2>1, <2>2, <2>3, <2>5 DEF TypeOK, Jobs
    <3>. QED  BY <2>3, <3>1 DEF J!jobVars
  <2>. QED  BY <2>4, <2>5 DEF Written
<1>4. ASSUME NEW t \in Threads, RunFails(t) PROVE [J!JobsNext]_(J!jobVars)
  <2>1. gc[t] \in Jobs /\ obj[gc[t]] = "old" /\ gc[t] \notin failed
    BY <1>1, <1>2, <1>4
       DEF Jobs, Groups, RunFails, ClaimInv, AttemptInv, UntriedInv, Busy, TypeOK
  <2>2. PICK j \in Jobs : j = gc[t]
    BY <2>1
  <2>3. J!Compile(j)
    BY <2>1, <2>2, <1>4 DEF RunFails, J!Compile
  <2>. QED  BY <2>3, ACompile
<1>5. ASSUME NEW t \in Threads, Rename(t) PROVE [J!JobsNext]_(J!jobVars)
  <2>1. gc[t] \in Jobs
    BY <1>2, <1>5 DEF Jobs, Groups, Rename, ClaimInv, Busy, TypeOK
  <2>2. PICK j \in Jobs : j = gc[t]
    BY <2>1
  <2>3. /\ main = "join" /\ main' = main /\ failed' = failed
        /\ obj' = [obj EXCEPT ![j] = IF @ = "orig" THEN "new" ELSE @]
    BY <1>5, <2>2 DEF Rename
  <2>4. CASE obj[j] = "orig"
    <3>1. j \notin failed
      BY <1>1, <2>4 DEF FailedInv
    <3>2. {g \in Jobs : obj'[g] = "new"} = {g \in Jobs : obj[g] = "new"} \union {j}
      BY <1>2, <2>3, <2>4 DEF TypeOK, Jobs
    <3>3. J!Compile(j)
      BY <2>3, <2>4, <3>1, <3>2 DEF J!Compile
    <3>. QED  BY <3>3, ACompile
  <2>5. CASE obj[j] # "orig"
    <3>1. {g \in Jobs : obj'[g] = "new"} = {g \in Jobs : obj[g] = "new"}
      BY <1>2, <2>3, <2>5 DEF TypeOK, Jobs
    <3>. QED  BY <2>3, <3>1 DEF J!jobVars
  <2>. QED  BY <2>4, <2>5
<1>6. ASSUME NEW t \in Threads,
             \/ Lock(t) \/ Test(t) \/ Take(t) \/ Bump(t) \/ Leave(t) \/ Start(t)
             \/ WriteResponse(t) \/ RemoveResponse(t) \/ Load(t) \/ Store(t)
      PROVE  [J!JobsNext]_(J!jobVars)
  <2>1. UNCHANGED <<obj, failed, main>>
    BY <1>6 DEF Lock, Test, Take, Bump, Leave, Start, WriteResponse, RemoveResponse, Load, Store
  <2>. QED  BY <2>1, Stutter DEF Result
<1>7. ASSUME NEW t \in Threads, WriteFails(t) PROVE [J!JobsNext]_(J!jobVars)
  <2>1. J!Die
    BY <1>7 DEF WriteFails, J!Die
  <2>. QED  BY <2>1 DEF J!JobsNext
<1>8. CASE Join
  BY <1>8, Stutter DEF Join, Result
<1>9. CASE Fatal \/ RunLink
  <2>1. main = "check" /\ UNCHANGED <<obj, failed>>
    BY <1>9 DEF Fatal, RunLink
  <2>2. \A t \in Threads : pc[t] = "done"
    BY <1>1, <2>1 DEF MainInv
  <2>3. \A g \in Jobs : obj[g] = "new" \/ g \in failed
    BY <2>2, AllDone
  <2>4. failed \subseteq Jobs /\ (errors > 0 => failed # {}) /\ (errors = 0 => failed = {})
    BY <1>1, <1>2, <2>1, <2>2 DEF FailedInv, FailureIsSeen, TypeOK
  <2>5. CASE Fatal
    <3>1. {g \in Jobs : obj[g] = "new"} \union failed = Jobs /\ failed # {}
      BY <2>3, <2>4, <2>5 DEF Fatal
    <3>2. J!GiveUp
      BY <2>1, <2>5, <3>1 DEF Fatal, J!GiveUp
    <3>. QED  BY <3>2 DEF J!JobsNext
  <2>6. CASE RunLink
    <3>1. {g \in Jobs : obj[g] = "new"} = Jobs /\ failed = {}
      BY <2>3, <2>4, <2>6 DEF RunLink
    <3>2. J!Link
      BY <2>1, <2>6, <3>1 DEF RunLink, J!Link
    <3>. QED  BY <3>2 DEF J!JobsNext
  <2>. QED  BY <1>9, <2>5, <2>6
<1>10. CASE UNCHANGED vars
  BY <1>10, Stutter DEF vars, Result
<1>. QED
  BY <1>3, <1>4, <1>5, <1>6, <1>7, <1>8, <1>9, <1>10 DEF Next, Thread, MainStep

\* Unless several threads share a response file, the threads, the mutex and
\* the counters implement the promise: each job is compiled once, all are tried
\* whatever fails, and the objects are linked if and only if nothing failed.
THEOREM PoolImplementsJobs == OneIfResponse => (Spec => ImplementsJobs)
<1>. SUFFICES ASSUME OneIfResponse PROVE Spec => ImplementsJobs
  OBVIOUS
<1>1. Init => IInv
  BY PoolInit, ObjInit DEF IInv
<1>2. IInv /\ [Next]_vars => IInv'
  BY PoolNext, ObjNext DEF IInv
<1>3. Init => J!JobsInit
  BY DEF Init, J!JobsInit, Jobs, Groups
<1>4. IInv /\ IInv' /\ [Next]_vars => [J!JobsNext]_(J!jobVars)
  BY JobsStep
<1>. QED  BY <1>1, <1>2, <1>3, <1>4, PTL DEF Spec, ImplementsJobs, J!JobsSpec

=============================================================================
