SPECIFICATION Spec
CONSTANTS
  Entries = {11, 22, 13, 5}
  Tunings <- MCTunings
  Sizes = {0}
  Mallocs = {0, 2, 9}
  SizeMod = 65536
  MaxRehashes = 2
INVARIANTS
  SetUntilRehash
  PlacedOnce
PROPERTY
  FailureLosesNothing
