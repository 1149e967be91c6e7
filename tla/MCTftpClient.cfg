SPECIFICATION ClientSpec
CONSTANTS
  MAXLINE = 13
  Verbs = {"?", "ascii", "binary", "connect", "exit", "get", "help", "mode", "put", "quit", "status", "verbose", "x"}
  Args = {"ascii", "-7", "7:f"}
  MaxArgs = 2
  MAXDATA = 2
  MaxLen = 4
INVARIANTS
  WordsOfItsLine
  UnknownIsUnknown
  InFlight
  RoundTrip
  ErrorNeedsInterrupt
