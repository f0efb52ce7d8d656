\* Two configurations of a directory with a subdirectory; deaths at any step.
CONSTANTS
  Dirs <- MCDirs
  Root = "top"
  Sections <- MCSections
  Targets <- MCTargets
  Home <- MCHome
  Type <- MCType
  SubDir <- MCSubDir
  Shared = {}
  NoSource = {}
  OnlyDi = {}
  BadExtension = {"y"}
  Confs <- TwoConfs
  Default <- AllDefault
  Target <- MCTarget
  Requests <- OnlyAll
  Debugs = {FALSE}
  MaxEdition <- NoEdits
  Absent = absent
  Stub = stub
  NoConf = noconf
SPECIFICATION FairSpec
INVARIANTS
  SuccessMeansBuilt
  SuccessMeansInstalled
  InstalledImportsLink
PROPERTIES
  CommandEnds
CHECK_DEADLOCK FALSE
