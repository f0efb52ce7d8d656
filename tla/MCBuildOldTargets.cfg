\* The target of a library changes in dsss.conf.
CONSTANTS
  Dirs <- MCDirs
  Root = "top"
  Sections <- MCSections
  Targets <- MCTargets
  Home <- MCHome
  Type <- MCType
  SubDir <- MCSubDir
  Shared = {"a", "b"}
  NoSource = {}
  OnlyDi = {}
  BadExtension = {"y"}
  Confs <- TwoConfs
  Default <- AllDefault
  Target <- MCTarget
  Requests <- OnlyAll
  Debugs = {FALSE}
  MaxEdition <- NoEdits
  Absent = absent
  Stub = stub
  NoConf = noconf
SPECIFICATION UndisturbedSpec
INVARIANTS
  NoOldTargets
CHECK_DEADLOCK FALSE
