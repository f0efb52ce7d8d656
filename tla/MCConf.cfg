\* Every file of six lines with sections, defaults and nested version blocks.
CONSTANTS
  Sections = {"", "*", "lib", "bin", "gone"}
  Files = {"lib", "bin"}
  Words = {"x", "y"}
  Target = {"Posix"}
  Lines <- MCLines
  Unset = unset
  MaxLines = 6
  MaxHooks = 1
SPECIFICATION Spec
CONSTRAINT Bounds
INVARIANTS
  TypeOK
  ReadsLikeBlocks
  ClosedFilesAreRead
  OwnSettingsWin
CHECK_DEADLOCK FALSE
