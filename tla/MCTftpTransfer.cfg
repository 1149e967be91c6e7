SPECIFICATION Spec
CONSTANTS
  c1 = c1
  c2 = c2
  d1 = d1
  d2 = d2
  d3 = d3
  srv = srv
  f1 = f1
  f2 = f2
  f3 = f3
  Clients = {c1}
  Children = {d1, d2, d3}
  Server = srv
  Files = {f1, f2, f3}
  NFull <- MCNFull
  TailLen <- MCTailLen
  MAXDATA = 2
  BLKMOD = 3
  SHORTMOD = 65536
  RTT_MAXNREXMT = 0
  Rexmts = {2}
  MaxTransfers = 2
  MaxDups = 1
  MaxStrays = 0
  Env = {"eintr", "impatient", "intr"}
SYMMETRY MCSymmetry
INVARIANTS
  LockStep
  SenderComplete
  UploadIntact
  CopyInv
  LongFilesNeverComplete
PROPERTIES
  CopiesFiles
