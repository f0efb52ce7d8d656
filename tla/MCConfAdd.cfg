\* Every file of four lines with several sections, and commands of hooks.
CONSTANTS
  Sections = {"", "*", "lib", "bin", "gone"}
  Files = {"lib", "bin"}
  Words = {"x", "y"}
  Target = {"Posix"}
  Lines <- Headers
  Unset = unset
  MaxLines = 4
  MaxHooks = 1
SPECIFICATION Spec
PROPERTY AddAppends
CHECK_DEADLOCK FALSE
