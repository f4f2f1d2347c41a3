CONSTANTS
  HELLO <- MCHello
  Roots <- MCRoots
  Paths <- MCPaths
  PATH_MAX = 7
  MaxUnits = 4
SPECIFICATION Spec
INVARIANTS
  NamesGoDown
  OpensWhatIsMeant
  WithinMeansBelow
CHECK_DEADLOCK FALSE
