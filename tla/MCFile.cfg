SPECIFICATION FileSpec
CONSTANTS
  HOWMANY = 4
  MAXLINELEN = 2
  CDF_LOOP_LIMIT = 6
  CDF_SEC_LIMIT = 64
  CDF_PROP_LIMIT = 16
  CDF_DIRECTORY_SIZE = 8
  SIZE_MOD = 256
  NOTE_SIGN = 64
  BUFSIZ = 48
  Contents <- MCContents
  Files <- MCFiles
  MaxOptions = 3
  MaxFiles = 2
  Budgets = {0, 2, 4, 9, 40}
  PipeSize = 2
  SoftResults <- MCSoftResults
  Junk <- MCJunk
INVARIANTS
  FileByFile
  RacesKnown
  TextRoundTrip
  CdfFreedOnce
  StreamIsChain
  
PROPERTIES
  ChildReaped
CHECK_DEADLOCK FALSE
