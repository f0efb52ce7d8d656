\* One thread, with a compiler that takes a response file.
CONSTANTS
  Threads = {t1}
  NG = 7
  Size <- Grouped
  UseResponse = TRUE
  Nobody = nobody
  NoFile = nofile
SPECIFICATION Spec
INVARIANTS
  LinksOnlyNewObjects
  FailureIsSeen
PROPERTIES
  ImplementsJobs
CHECK_DEADLOCK FALSE
