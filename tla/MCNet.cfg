\* Three packages and a project; two generations; half lists; signals.
CONSTANTS
  Packages <- MCPackages
  Here = "here"
  Dsss = "c"
  Uses <- MCUses
  Requires <- MCRequires
  Elsewhere = {}
  InHalf = {"a", "b"}
  MaxGen = 2
SPECIFICATION FairSpec
INVARIANTS
  TypeOK
  NeverNested
  SourcesStay
  DependenciesFirst
  SuccessMeansInstalled
PROPERTIES
  OthersKept
  CommandEnds
CHECK_DEADLOCK FALSE
