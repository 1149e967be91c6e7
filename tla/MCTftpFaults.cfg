SPECIFICATION Spec
CONSTANTS
  c1 = c1
  c2 = c2
  d1 = d1
  d2 = d2
  d3 = d3
  srv = srv
  f1 = f1
  f2 = f2
  f3 = f3
  Clients = {c1}
  Children = {d1, d2}
  Server = srv
  Files = {f1}
  NFull <- MCNFull
  TailLen <- MCTailLen
  MAXDATA = 2
  BLKMOD = 65536
  SHORTMOD = 65536
  RTT_MAXNREXMT = 1
  Rexmts = {2}
  MaxTransfers = 1
  MaxDups = 0
  MaxStrays = 1
  Env = {"eintr", "impatient", "deny", "alarmlost", "syserr", "nohost"}
SYMMETRY MCSymmetry
INVARIANTS
  TypeOK
  CopyPrefix
  ReceiverComplete
  NoProtocolBotch
  PortMismatchNeedsTwoChildren
  BackoffInBounds
CHECK_DEADLOCK FALSE
