\* `before` does not reach a program that is further up the list.
SPECIFICATION Safety
CONSTANTS
  NumProcs = 2
  Names = {"a", "b", "scinit"}
  Configs <- BeforeEarlier
  Pids = {p1, p2}
  MaxAdopted = 0
  OperatorSignals = {}
  PidOne = TRUE
  ActiveFds = {}
  MaxUnread = 0
  SignalFd = SignalFd
  Failures = {}
  MaxEvents = 10
  BufSize = 1
  UintRange = 4
  DaemonLogger = "scinit"
SYMMETRY PidSymmetry
PROPERTIES
  StartOrder
