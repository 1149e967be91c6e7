SPECIFICATION CoreSpec
CONSTANTS
  FileSystems <- MCFileSystems
  Operands <- MCOperands
  Spare = {9}
  MaxFaults = 1
  MaxEnter = 6
  MaxOptions = 2
  I_RING_SIZE = 4
  Specs <- MCSpecs
  Trees <- MCTrees
  Lines <- MCLines
  OtherPaths <- MCOtherPaths
  MaxFails = 1
  MaxOthers = 1
INVARIANTS
  DescriptorsRight
  OperandsOnce
  StatusTells
  InPlace
  ModesRight
  OwnersRight
PROPERTIES
  ProgramsEnd
CHECK_DEADLOCK FALSE
