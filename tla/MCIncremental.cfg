\* One edit and two seconds; builds that fail or die anywhere.
CONSTANTS
  Modules <- MCModules
  Order <- MCOrder
  Imports <- MCImports
  Base <- MCBase
  Ignored = {"lib"}
  Modes = {TRUE, FALSE}
  OneEach = FALSE
  NoFile = nofile
  MaxTime = 3
  MaxEdit <- MCMaxEdit
SPECIFICATION Spec
INVARIANTS
  TypeOK
  ProgramIsCurrent
CHECK_DEADLOCK FALSE
