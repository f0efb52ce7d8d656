\* Two threads with a compiler that takes a response file.
CONSTANTS
  Threads = {t1, t2}
  NG = 4
  Size <- OneEach
  UseResponse = TRUE
  Nobody = nobody
  NoFile = nofile
SPECIFICATION Spec
INVARIANTS
  LinksOnlyNewObjects
CHECK_DEADLOCK FALSE
