\* Two packages, every request, a death at any step, and a file of p that
\* cannot be deleted.
CONSTANTS
  Packages <- MCPackages
  Files <- MCFiles
  Sections <- MCSections
  Self = self
  Absent = absent
  NoFile = nofile
  NoInstall = {"tool"}
  EmptyLib = {"empty"}
  Pre <- MCPre
  Body <- MCBody
  Post <- MCPost
  Sub <- MCSub
  Docs <- MCDocs
  Whole <- MCWhole
  Some <- MCSome
  Place <- UnderPrefix
  Lookalike <- MCLookalike
  Undeletable = {"dir.post"}
  Dotted = {".", "..", ".hidden"}
  Inputs <- MCInputs
  Dirs <- MCDirs
SPECIFICATION FairSpec
INVARIANTS
  TypeOK
  NoDanglingRecord
  SavedSectionsAreRecorded
  WholeInstallIsTracked
PROPERTIES
  OthersUntouched
  UninstallRemovesWhole
  CommandEnds
CHECK_DEADLOCK FALSE
