SPECIFICATION CoreSpec
CONSTANTS
  FileSystems <- MCHierarchies
  Operands <- MCOperands
  Spare = {9}
  MaxFaults = 0
  MaxEnter = 6
  MaxOptions = 2
  I_RING_SIZE = 4
  Specs <- MCSpecs
  Trees <- MCTrees
  Lines <- MCLines
  OtherPaths <- MCOtherPaths
  MaxFails = 1
  MaxOthers = 1
INVARIANTS
  VisitsWhereFound
CHECK_DEADLOCK FALSE
