\* Two shared libraries, one of them without sources, and a binary that is refused; edits, also of
\* the order of the sections; deaths at any step.
CONSTANTS
  Dirs <- MCDirs
  Root = "top"
  Sections <- MCSections
  Targets <- MCTargets
  Home <- MCHome
  Type <- MCType
  SubDir <- MCSubDir
  Shared = {"a", "x"}
  NoSource = {"x"}
  OnlyDi = {}
  BadExtension = {"y"}
  Confs <- Reordered
  Default <- WithX
  Target <- MCTarget
  Requests <- WholeOrPart
  Debugs = {FALSE}
  MaxEdition <- EditA
  Absent = absent
  Stub = stub
  NoConf = noconf
SPECIFICATION Spec
INVARIANTS
  TypeOK
  StubsFirst
  SuccessMeansBuilt
  SuccessMeansInstalled
  InstalledImportsLink
  DistcleanLeavesNothing
  InstallFindsWhatWasBuilt
CHECK_DEADLOCK FALSE
