\* Three threads, five groups, no response file.
CONSTANTS
  Threads = {t1, t2, t3}
  NG = 5
  Size <- OneEach
  UseResponse = FALSE
  Nobody = nobody
  NoFile = nofile
SPECIFICATION FairSpec
INVARIANTS
  TypeOK
  CompiledAtMostOnce
  LinksOnlyNewObjects
  FailureIsSeen
PROPERTIES
  ImplementsJobs
  ProgramEnds
CHECK_DEADLOCK FALSE
