SPECIFICATION NetasciiSpec
CONSTANTS
  MAXDATA = 2
  MaxLen = 2
INVARIANTS
  PutsExact
