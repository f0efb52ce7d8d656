----------------------------- MODULE CompileJobs -----------------------------
(***************************************************************************)
(* What rebuild promises of a compilation, however many threads run it:    *)
(* every job (a group of modules that are out of date) is compiled once,   *)
(* and the objects are linked only if all were compiled without an error.  *)
(***************************************************************************)
CONSTANT Jobs

VARIABLES
  made,   \* jobs whose objects have been written
  failed, \* jobs the compiler rejected
  result  \* "compiling", or how the program ended

jobVars == <<made, failed, result>>

ResultType == {"compiling", "linked", "linkfailed", "fatal", "exit"}

JobsTypeOK ==
  /\ made \in SUBSET Jobs
  /\ failed \in SUBSET Jobs
  /\ result \in ResultType

JobsInit == made = {} /\ failed = {} /\ result = "compiling"

Compile(j) ==
  /\ result = "compiling"
  /\ j \notin made \union failed
  /\ \/ made' = made \union {j} /\ UNCHANGED failed
     \/ failed' = failed \union {j} /\ UNCHANGED made
  /\ UNCHANGED result

Link ==
  /\ result = "compiling"
  /\ made = Jobs /\ failed = {}
  /\ result' \in {"linked", "linkfailed"}
  /\ UNCHANGED <<made, failed>>

GiveUp ==
  /\ result = "compiling"
  /\ made \union failed = Jobs /\ failed # {}
  /\ result' = "fatal"
  /\ UNCHANGED <<made, failed>>

\* A job cannot be handed to the compiler: the program dies where it is.
Die ==
  /\ result = "compiling"
  /\ result' = "exit"
  /\ UNCHANGED <<made, failed>>

JobsNext == (\E j \in Jobs : Compile(j)) \/ Link \/ GiveUp \/ Die

JobsSpec == JobsInit /\ [][JobsNext]_jobVars

=============================================================================
