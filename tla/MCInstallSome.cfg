\* A package installed whole and then only some of its sections.
CONSTANTS
  Packages <- MCPackages
  Files <- MCFiles
  Sections <- MCSections
  Self = self
  Absent = absent
  NoFile = nofile
  NoInstall = {"tool"}
  EmptyLib = {"empty"}
  Pre <- MCPre
  Body <- MCBody
  Post <- MCPost
  Sub <- MCSub
  Docs <- NoDocs
  Whole <- MCWhole
  Some <- MCSome
  Place <- UnderPrefix
  Lookalike <- MCLookalike
  Undeletable = {}
  Dotted = {".", "..", ".hidden"}
  Inputs <- MCInputs
  Dirs <- MCDirs
SPECIFICATION UndisturbedSpec
INVARIANTS
  EverythingIsTracked
CHECK_DEADLOCK FALSE
