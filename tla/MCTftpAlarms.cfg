SPECIFICATION FairSpec
CONSTANTS
  c1 = c1
  c2 = c2
  d1 = d1
  d2 = d2
  d3 = d3
  srv = srv
  f1 = f1
  f2 = f2
  f3 = f3
  Clients = {c1}
  Children = {d1}
  Server = srv
  Files = {f1}
  NFull <- MCNFull
  TailLen <- MCTailLen
  MAXDATA = 2
  BLKMOD = 65536
  SHORTMOD = 65536
  RTT_MAXNREXMT = 4
  Rexmts = {3}
  MaxTransfers = 1
  MaxDups = 0
  MaxStrays = 0
  Env = {"eintr", "impatient", "intr"}
PROPERTIES
  TerminatesWhileArmed
CHECK_DEADLOCK FALSE
